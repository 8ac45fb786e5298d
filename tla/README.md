# CandleOS in TLA+

CandleOS-X is a small 32-bit kernel for the PC: a boot sector and a loader in
assembly, a kernel in C mapped at 0xC0000000, and `fd`, a host program that
adds files to the FAT16 disk image the loader boots from.  This directory
holds TLA+ modules that describe its parts, TLC configurations that check
them on small instances, and proofs that TLAPS checks for every instance.
Paths below are relative to the repository; `mem.c` is
`src/kernel/mem/mem.c`, `heap.c` is `src/kernel/mem/heap.c`, and so on.

## 1. Inventory

| Part | State | Operations | Talks to |
|---|---|---|---|
| bitmap (`bitmap.c`) | an array of bytes | init, test, set, scan for a run of 0 bits | page pools |
| page pools (`mem.c`) | `phys_pool`, `kernel_pool`: base, number of pages, map | alloc/free of runs of pages; `mem_pool_init` sizes both from the E820 map | bitmap, heap, assertions |
| paging (`mem.c`, `loader.asm`) | page directory and tables | `entry_init`, `map_a_page`, `mem_mapping` | physical pool, the loader's tables |
| heap (`heap.c`) | 8 descriptors with a free list each, a header per arena | `kmalloc`, `kfree`, list operations | kernel pool, callers that write into their blocks |
| interrupts (`idt.c`, `interrupt.c`, `handler.asm`, `pic.c`) | IDT, handler table, PIC masks | set handler, enable/disable a line, EOI, exceptions | every driver; interrupts the main loop anywhere after `sti` |
| keyboard (`keyboard.c`) | shift, ctrl, caps, num flags | scan code to character, LED read, handler | PS/2 controller, console |
| mouse (`mouse.c`) | packet bytes, decoder status, position, buttons | decode, handler, enabling sequence | PS/2 controller, console |
| console (`vbe.c`, `printk.c`) | cursor, frame buffer | put char and string, scroll, clear | called by the main loop, by handlers, by assertions |
| formatting (`stdio.c`) | none beyond a call | `vsprintf`, `sprintf`, number conversion | printk, panic |
| strings (`string.c`) | none beyond a call | copying, comparing, searching, filling of bytes | formatting (`strlen`), paging and the mouse (`memset`) |
| start (`main.c`, `gdt.c`) | CR0, CR4, GDT | one fixed sequence, then an endless print loop | all of the above |
| assertions (`debug.c`) | none | print and spin | all |
| boot, loader (`boot.asm`, `loader.asm`) | E820 table, video mode, first page tables | read sectors by PIO, read the kernel through the FAT, enter protected mode with paging | the disk image, `mem_init`, `vbe_init` |
| `fd` (`src/tools/fd`) | the image on disk | add a file: chain, directory entry, data, both FATs | the loader |

What is hard in it:

* **Sequences of legal calls.**  The allocators keep three views of the same
  memory (a bit map, headers in the pages, links in the free blocks) that
  must agree after any order of allocations and releases; the blocks
  themselves are overwritten by whoever holds them.
* **Limits.**  Maps are rounded up to whole bytes, sizes to whole pages; a
  pool has a last page, a run of bits a last bit.
* **Interrupts.**  Handlers print.  They run between any two instructions of
  the main loop, which prints too: the cursor, the SSE registers a scroll
  uses and the PIC masks are shared without protection.
* **Order.**  `sti` comes before the handlers; the handler before its state;
  the loader's tables before the kernel's.
* **Tables in use.**  `mem_mapping` clears the page tables that map its own
  code and those tables, one after another.
* **Devices.**  The PS/2 port gives bytes one at a time to whoever reads.
* **The disk image.**  `fd` changes four areas one after another, and the
  loader reads them back with assumptions of its own.

What makes each part correct:

* bitmap: the scan returns the *first* run that is long enough, and -1
  exactly when there is none.
* pools: a page is held by one caller at most, none is lost, what is handed
  out can be given back, and the kernel stops only when nothing fits.
* heap: no two regions overlap, all lie in pages the heap holds, no block is
  lost or kept twice, and the heap gives the pool back exactly what it got.
* paging: the tables may be rewritten while the kernel runs on them; what is
  mapped is mapped to the frame the caller was told; no pool hands out a table.
* formatting: each directive prints what it says, as long as an `int` holds its
  numbers, and takes its own arguments, so that those behind it find theirs; the
  pointer stays in the format.
* strings: each function does what the C library's does, within its bounds and
  with the exceptions of section 6.
* console: the cursor stays on the screen, every character is drawn once.
* interrupts: no vector that can fire is without handler; every acknowledged
  line can fire again.
* keyboard, mouse: the shift flag follows the codes that arrived, which is not
  always what is pressed (section 6); the decoder is aligned with the packets.
* `fd` and loader: the chain of a file has the clusters of its size, a lost
  step leaves a readable disk, and what `fd` wrote the loader can read.

`PROJECT.json` lists each of these hazards at its line.

## 2. Plan

In order of what the rest stands on:

1. `Bitmap`, `BitmapScan` - the map and its scan. *Done, proved.*
2. `PageAllocator` (abstract), `PagePool` - one pool; both pools of the
   kernel are instances. *Done, proved.*
3. `FreeList` (abstract), `MemBlockList` - the links of the free lists.
   *Done, proved.*
4. `KernelHeap` - `kmalloc` and `kfree` over `PagePool`.  *Done; regions,
   free lists and the use of the pool proved.*
5. `MemInit` - the E820 range, the arithmetic that sizes the pools and places
   their maps. *Done, proved.*
6. `Terminal` (abstract), `Console`, `ConsoleText` - main loop and handlers
   over one cursor and one set of xmm registers. *Done; bounds and
   refinement proved.*
7. `FileSystem` (abstract), `FatWriter` - `fd`, killed between its writes;
   `KernelLoader` composed with it. *Done; integrity of the files,
   refinement and loading proved.*
8. `Interrupts` - the order of `kernel_main`, masks, EOI, and the two drivers
   of one PS/2 port. *Done, safety proved.*
9. `PageTables` - `mem_mapping` over the tables the loader leaves, composed
   with `MemInit`; `map_a_page`. *Done, proved.*
10. `Format` - `vsprintf` part by part, against what a directive means.
    *Done, proved.*
11. `Strings` - `string.c` against its reference definitions. *Done, proved.*
12. `MCLibrary` - `BitmapScan`, `Format`, `Strings` and `MemBlockList` in one
    run, and that every call of them returns. *Done, checked.*

Left: a heap whose sizes wrap (`size + sizeof(arena_t)` in a scaled word);
characters out of scan codes and the mouse's position, once something uses
them.  Every safety property a passing run checks has a theorem (section 5).

## 3. Modules

**`Bitmap`, `BitmapScan`** (`bitmap.c`).  A bitmap is the set of its bits
that are 1; its size is given in bytes, and `ByteSize` is the number of bits
of a byte (8 in the code, smaller in some runs).  `BitmapScan` is the loop
of `bitmap_scan`, one bit per step; `Bitmap!bitmap_scan` is its result, used
by the modules above.

**`Format`** (`stdio.c:18-440`).  `fmt` is the pointer into the format, `args`
the words not yet taken, `str` what is written, `at` the part of the loop body
that is next: flags, width, precision, qualifier, conversion.  A conversion is
one step.  An argument is a word together with what it points to, so that one
taken out of step shows.  What a directive means (`Says`) is told from its
parts and the text alone: a number is read back from its digits, blanks and
zeros are measured, nothing is built the way the code builds it.  An
`int` keeps its width: `skip_atoi`, `-field_width` and what is left of a field
wrap (`Wrap`, `Remains`; the code does it undefined, the build for the i386
wraps), so that a star of the least `int` stays negative and fills no field.  A
floating-point number is its sign and its millionths, cut off as `(int)` does,
not rounded; one whose whole part no `int` holds becomes the least `int`, whose
digits are looked up before the table (`TooLarge`).  Its second word is an
argument of its own; `sprintf` is `vsprintf`.
A call marked `whole` is one directive of any kind with `z%d` behind it and
the arguments of both (`IsWhole`, which TLC evaluates on the calls of the run): its width is an `int`,
its precision an `int` with room for a sign and a prefix and two tests behind it
(`MaxInt - 5`), and so is the whole part of a floating-point number.  The others
are formats that break off anywhere, and directives beyond these bounds.

**`Strings`** (`string.c:7-232`).  A memory is a function from addresses to
signed bytes; `ptr` and `src` are the two pointers, `left` the count.  One
turn of a loop is a step.  `Legal` is what a call asks for (strings end, there
is room, source and destination overlap only forwards), `Outcome` the memory
and `Promised` the value the C library's function leaves: comparisons order
unsigned bytes, searches convert what they look for to a byte.  Where the code
does not (section 6) nothing is promised (`Apart`, `AsksForChar`).  Of these functions the kernel calls
`strlen` (`stdio.c:317`) and `memset`.  **`MCLibrary`** composes `BitmapScan`,
`Format`, `Strings` and `MemBlockList`: a behaviour is a call of one of the
first three, or any sequence of operations on the list.

**`PagePool`** (`mem.c:95-144`, `194-230`).  `used` is the map, `available`
is `pool_available_pages`, `extents` what the callers hold.  The two pairs of
functions are the same code over different constants, so one module stands
for both.  The assertions are actions (`AllocAsserts`, `FreeAsserts`) that
set `failed`, after which nothing happens, as in `assert_fail`.  Callers
give back what they were handed, as a whole.  **`PageAllocator`** is the
promise: some run that fits is handed out, and is free again once it is
given back.

**`MemBlockList`** (`heap.c:9-56`).  `next` and `prev` are the links, stored
in the blocks; a caller that holds a block may write anything there
(`CallerWrites`).  **`FreeList`** is the promise: a stack of free blocks from
which any one can be removed.

**`KernelHeap`** (`heap.c:59-159`).  `arena` maps the page of each arena to
its header, `free_list` each descriptor to its free blocks, `live` is what
callers hold.  Every action that moves pages includes the action of
`PagePool` it calls.  Addresses are numbers with the code's own constants
(4096-byte pages, 12-byte header, blocks of 16 to 2048 bytes).

**`MemInit`** (`mem.c:21-54`, `147-172`, `194-253`).  One action per turn of
the loop over the memory map, then one each for the rest of `get_mem_info`,
for `mem_mapping` and for `mem_pool_init`.  `Word` is 2^32: sizes and bases
are cut to it where the code assigns 64 bits to 32, and `Ceil` wraps where
`CEIL` does.  Places are page numbers.

**`PageTables`** (`mem.c:57-91`, `147-191`, `loader.asm:307-405`) extends
`MemInit`: its `mem_mapping` happens once the last table is written.  `memory`
maps frames to tables, `boot` is what the loader left; addresses and frames
are numbers of pages, the low megabyte, kernel and frame buffer tables are
where the loader puts them, and entries nobody wrote hold anything
(`Leftovers`).  One step writes one table: `memset`, the directory's entry and
1024 entries.  Where it goes is decided by a translation of the page the
kernel writes to, from `boot` or from `memory` (`Translations`): nothing in
the kernel reloads `cr3` or executes `invlpg`, and what the processor has once
translated it may go on using.  Without that, `memset` of the first table
would pull the code from under itself; the model makes the assumption, the
code makes it too.  A frame buffer begins with a table and shares none with
the kernel (`PageTablesAssumption`).  `map_a_page` is given a first caller in
`MapNext`.  Protection bits are left out.

**`Console`** (`vbe.c:16-119`).  Two processes, `main` and `isr`, run the
same code; each action is one access to memory the other can see, so
`current_cursor_x++` is a load and a store.  A handler starts whenever `main`
is between two such accesses, and runs to its end.  `xmm` is shared because
`int_entry` does not save it.  The value of y is loaded before x, which is
the order the compiler chose for `vbe_put_char`; in C it is unspecified.  A
cell holds the *set* of glyphs drawn into it, for `vbe_draw_char` clears
nothing; drawing a glyph and moving a line are single steps, so half a glyph
or half a line is not seen.  The resolution is a multiple of the size of a
character, as in the mode the loader asks for.  **`Terminal`** is the promise
made to a program that prints alone.  **`ConsoleText`** adds to `Console` the
history variable `shown`, under which it implements `Terminal`, and `alone`,
chosen once, which says whether interrupts ever arrive.

**`FatWriter`** (`fat16.c`, `fd.c`).  `fat`, `rootdir` and `data` are the
image; `fat_buffer`, `rootdir_buffer`, `cluster` and `i` the memory of one
run of `fd`, lost when it ends.  `Start` is `write_file_to_fat16` up to its
loop, `WriteData` one turn of it, then each sector of each area is a step in
the order of the calls of `disk_write`.  `Kill` may end `fd` between any two;
since stdio keeps the order of writes to one file (each `fseek` flushes),
a process that dies with buffered bytes is a process that died earlier.  The
root directory is one step because one entry of it changes.  The chain of a
file has one cluster more than the file has sectors, which the model keeps,
as it does the `u16` of cluster numbers and the `u32` of `ceil`.  Left out:
a `malloc` that fails, printing, raw sectors.  **`FileSystem`** is the
promise: files are added whole, at the end of a list, and stay.

**`KernelLoader`** (`loader.asm:228-305`, `415-480`) extends `FatWriter`: the
machine is switched on with any image that runs of `fd` have left.  The name
of a file is the set of its columns that agree with `KERNEL  BIN`; `si`, `di`
and `cx` keep what `repe cmpsb` left in them, so the entries looked at are 0,
1, 3, 6 and so on.  One sector of the FAT and one of the root directory are
in memory; behind them lies anything (`Leftover`, `NamesAt`).

**`Interrupts`** (`main.c`, `pic.c`, `keyboard.c`, `mouse.c`, `interrupt.c`,
`idt.c`, `handler.asm`).  `Program` is the list of the operations
`kernel_main` performs on shared state from `pic_init` to its loop; reading
and writing a mask are two of them.  Between two operations everything can
happen: devices put bytes into the port, and an interrupt that can be taken
is taken before the next operation.  The pair of 8259A is an external model:
edge-triggered, fixed priorities, a non-specific EOI that ends the highest
level in service.  The port holds the last byte read until a new one comes;
what the keyboard and the mouse send is queued behind it.  The request of a
byte that is polled with its line masked may stay or be withdrawn, both are
explored; that ICW1 resets the edge latches (`pic.c:8-14`) is no step of its own,
what it can change here is such a request.  The mouse numbers its bytes, and its packets are `even` and `odd`
in turn, so that a decoder that mixes two of them shows it.  A keyboard that
was given command 0xed without its argument may stop sending keys; the model
lets it go on, which includes that case.  The
keyboard sends the code of a press or a release of any of its `Keys`, in any
order: a key that repeats, two held at once, and the codes 0x2a and 0xaa that
follow 0xe0 for Print Screen and the grey keys and are not told from the left
shift key's.  A code for which the port has no room (`PortBound`) is lost.
`reported` are the keys whose last code was that of a press, lost or not, and
`lost` says that the release of a shift key was lost and none has come through
since.  `wait_keyboard_ready` is no step:
the controller takes every byte.  The console the handlers print on is
`Console`'s.

## 4. Runs

| Run | What it asks | Bounds |
|---|---|---|
| `library` | results of `bitmap_scan`, `vsprintf` and the functions of `string.c` against their reference definitions, that every call returns; the links of a free list agree, the search finds the free blocks, the list implements `FreeList` | every set of 8 bits in bytes of 4 and every count up to 9; 9 combinations of flags, 4 widths, 3 precisions and every conversion, 4 words and 5 real numbers in a 256-word, each format also broken off before its conversion; the largest width and precision; widths, stars, precisions and a real number that no `int` holds; every memory of 4 bytes out of {-4, 0, 97} (5 bytes with separators for searches), every pair of addresses, counts up to 4, searches for a byte, for a negative one and for an `int` that is none; 4 blocks, any link overwritten with one of two values |
| `page_pool` | the pool that fills its map: accounting, stops only when exhausted, implements `PageAllocator` | 12 pages, 2 reserved, runs of 1, 2, 3 and 11 pages (the last exceeds what there is) |
| `ragged_pool_release` | violation: a page past the end of a pool of 10 pages is handed out and cannot be given back | 10 pages in 3 bytes of 4 bits |
| `kernel_heap` | regions, headers, lists, pages | 4 free pages, requests of 300 and 1024 bytes (7 and 3 blocks per page), 4084 (one page) and 4085 (two); at most 4 held at once (`LiveBound`) |
| `mem_init` | the largest range is chosen; tables and maps are adjacent, reserved and large enough; the kernel and the screen stay mapped at every step, no table is in a pool | every map of up to 3 ranges below the limit, sizes 0 to 250 of a 256-byte word, 4-byte pages, 2-bit bytes, 10 entries per table, 3 kernel tables of which the loader enters 2, screens of one and of two tables at two places |
| `map_a_page` | violation: a page it is asked for is not mapped | the machine of `mem_init` with one range and one screen; every page |
| `mem_init_above_4gb` | violation: a range above the limit is described by the low half of its base | up to 2 ranges, base up to the limit, sizes on both sides of it |
| `console` | how far the cursor strays, that it comes back, that the handler returns; alone, the console implements `Terminal` | 2 by 3 cells, one glyph and the new line for `main`, a glyph, and a glyph and a new line for a handler |
| `kernel_loader` | `fd` again and again, killed anywhere, then the loader: intact and disjoint files, copies that agree, no cluster lost, refusal only when full, implements `FileSystem`; a kernel that is the first file boots | 10 clusters in 2 sectors of FAT, 3 directory entries, files of 0, 2 and 3 bytes in sectors of 2, names of 4 columns, words 0 and 15 behind the FAT, 4 sectors loaded (`LoadBound`) |
| `fat_empty_file` | violation: a file without bytes is refused though there is room | 9 clusters in 3 sectors of FAT |
| `loader_name` | violation: another file is loaded in place of the kernel | as `kernel_loader`, 2 directory entries |
| `interrupts` | handlers are ready when they run, bytes reach their driver, packets are whole, no byte stays unannounced, no shift outlives the codes of its keys, requests are served | the two shift keys, any of their codes in any order, lost when 2 bytes are held back (`PortBound`); the scan codes that `keyboard_init` takes for LEDs say NUM LOCK (`Leds`) |

The bounds are small but hold every case of the code: runs that end at the
end of the map, exhaustion by count and by fragmentation, an arena that
fills, empties and is reused, both sides of each size limit.  `ByteSize = 4`
only scales the rounding; where it matters the proofs are for every value.
In `library` a word has 8 bits, so that 128 is the most negative `int` and 127 the
largest; a field is narrower than its number, as wide, and wider; two strings lie apart,
touch and overlap.
In `mem_init` every rounding occurs with and without a remainder, and maps
take one page or several.  On a screen of 2 by 3 cells two characters wrap
and four scroll, so a handler can meet `main` at every program location, and
`Width = 2` tells a cell of the last column from one past it; a text of any
length is a sequence of the texts listed.  A disk of 10 clusters takes two
of the files and refuses the third, in both orders; a file crosses from one
sector of the FAT to the next; an `fd` that was killed leaves clusters that
shift every later file.  A port of two bytes has one byte behind another,
of the same device or the other one; a packet takes three.

*Deadlock* is checked, but for the runs whose code stops for good: the calls of
`library` and `mem_init` return, a failed assertion spins for ever (`page_pool`,
`ragged_pool_release`, `kernel_heap`), the loader jumps to the kernel or
spins (`kernel_loader`, `loader_name`).

*Fairness.*  `MCLibrary`: the functions are sequential code without waiting,
so weak fairness of their steps is what executing them means.  `ConsoleText`:
weak fairness of the handler's steps only; a handler runs behind an interrupt
gate (`idt.c:42`) and has the processor to itself.  Nothing is assumed of
`kernel_main`, which interrupts may keep from running, nor of interrupts.
`KernelLoader`: the loader runs alone, with interrupts off; nothing is
assumed of `fd`.  `Interrupts`: the processor goes on, whoever it runs; nothing is
assumed of the keyboard, of the mouse and of their acknowledgements, and no
interrupt is owed to anybody.

## 5. Proofs

* `LibraryProofs`: `ScanReturnsFirstRun` - for every size and count the
  scan returns the first long enough run of 0 bits.  `LoopInv` says that
  `count` is the length of the run of 0 bits just before `next_bit` and that
  no run was passed over; it is inductive with the types.
  `CallsCorrect` -
  `CallCorrect` for every memory and every legal call of `string.c`: what the C
  library's function does, with the exceptions of section 6.
  `StringInv` says what holds after `k` turns of each loop: the memory is the
  old one `With` the first `k` bytes written, no end (match, difference) was
  among the first `k` bytes read.  A copy reads bytes that are still the old
  ones because source and destination overlap forwards at most (`CopyStep`,
  where `Forward` is needed); the order of signed bytes is that of unsigned ones
  where both are above 127 or neither is; a string has a length because numbers are
  well-founded (`LengthFacts`).  `RequestsAssumption`: addresses count from 0
  and bytes are signed ones.
  `ScanComesToEnd`, `StringComesToEnd`: no step is taken twice.  A call's
  pointer starts at `dest` and, by `StringInv`, does not pass the first end or
  the count (`PointerBound`), so `StringLeft` is a number that every step makes
  smaller.
* `FormatProofs`: `FormatStaysInBounds` - the pointer of `vsprintf` stays in
  the format, for every text: each part steps over a character only after it
  has seen that one is there, and a number ends before the end does.
  `FormatAlwaysCorrect` - `FormatCorrect` for every directive: any flags, any width
  and precision, in digits or the width as a star, that an `int` holds with what
  is counted off it, any length, any conversion and any argument of a word, a text,
  bytes, or a floating-point number whose whole part an `int` holds.  Half of it is about values: the digits
  that `number` writes are read back as their number, in each base
  (`DigitsRead`), zeros in front do not change that (`ValueZeros`), nor a point
  before the last six (`PointRead`), so whatever `Layout` makes of sign, prefix,
  zeros and blanks is a numeral that says the argument (`NumberSays`,
  `RealSays`); addresses fall apart into the fields they were put together from
  (`SeparatedFields`, `MacSays`, `IpSays`).  That nothing wraps on the way is
  `Bounded`: a number has no more digits than an `int` minus what the prefix takes
  (`DigitsShort`), so what is left of a width is an `int` through all three loops
  (`LayoutFilled`).  The other half is the pass over the
  format: `WholeLaid` says where each part of the directive lies, `Landmarks`
  what character begins it, and `OnTheWay`, the inductive invariant, that
  `vsprintf` is at one of these places with exactly the flags, width, precision
  and remaining arguments that go with it.  One lemma per part takes a step from
  one place to the next (`StartStep` to `EndStep`), and `WayEnds` reads the
  result off the last.  `FormatComesToEnd`: a part is followed by a later
  part or by the next character, so `FormatLeft` falls - for any format, with
  or without a directive.  `CallsAssumption`: a format is a text and arguments are
  a sequence; `WordSizeAssumption`: a word holds a byte.
* `KernelHeapProofs`, on the pool alone: `PoolTyping`, `PoolSafe` (every 1 bit
  is a page of the kernel or of exactly one caller) for every pool; `PoolKeepsToItsPages`,
  `PoolStopsOnlyWhenExhausted` and `PoolImplementsAllocator` for pools that
  fill their map (`WholeBytes`: the number of pages is a multiple of the bits
  of a byte - `ragged_pool_release` shows what happens otherwise).  `PoolSafe`
  rests on `ScanResult`, the property of the scan, and on the strengthening
  that runs are disjoint from each other and from the reserved pages.
* `MemBlockListProofs`: `ListLinks` - the links agree in both directions and
  never lead into a block a caller holds, for any number of blocks.  Links
  that agree may still form a ring off the way from head to tail, so the
  search needs more: `ListStaysOrdered` says that some sequence of distinct
  blocks holds all that are free and is the way of `next` from the head to
  the tail (`Ordered`, inductive: inserting puts a block before the sequence,
  removing takes one out).  From it `SearchAlwaysFindsFree`, and
  `ListImplementsFreeList`: each operation on links is one on that sequence.
  Both assume finitely many blocks, which the function that reads the list
  (`Chain`) needs: that it reads the sequence from place k on is shown by
  giving the function and arguing from the last place it would be wrong at.
* `KernelHeapProofs`, on the heap: `HeapInvariant`, from which `HeapSafe` (`BlocksAccounted`:
  lists, headers and the accounting of blocks) and `HeapUsesPool` (every step of the heap is
  a step the pool allows) follow.  The strengthening ties each large request to
  a run the pool handed out and each arena to exactly one page, so that `kfree`
  gives back what `PagePool` expects: what was proved of the pool then holds
  below the heap.  `HeapUsesPool` is the refinement of the two modules.
  `HeapRegionsSafe`: the *bytes* of any two regions are disjoint, clear of
  headers and in pages the heap holds.  It needs `LiveFits` - what a caller
  asked for is no longer than its block, or than the pages of its run less the
  header - which is inductive given `HeapInv`; the rest is arithmetic on the
  places of blocks in a page.
* `MemInitProofs`: `AreasNeverOverlap`, `ReservationCoversAreas`,
  `MapsAlwaysFit`, for every memory map, word, page and table size.
  `LayoutInv` adds to them that the tables were placed (`TablesPlaced`);
  the arithmetic rests on `CeilCovers`, which is where the wrap of `CEIL` at 0
  is dealt with: 0 becomes 2^32 / m, more than enough.  `LargestRangeKept` -
  the range chosen is a largest one below 4 GB - is proved by `RangeKept`, what
  the loop has found among the ranges it has looked at.
  `TablesImplementMemInit`: every step of `PageTables` is one of `MemInit` or
  changes tables only, so all of the above holds there.  `KernelStaysMapped`,
  `ScreenStaysMapped` and `TablesStayReserved` follow from `MappingInv`: how
  many tables of each kind are written (`Progress`), that through the loader's
  tables every table to be written is seen where it is meant to be
  (`BootReaches`), and, if the memory begins at the loader's kernel
  (`AtHome`), that the directory in use points to the tables written so far
  for those entries and to the loader's for the others, each with the right
  frames (`TablesInPlace`).
* `ConsoleProofs`: `ConsoleTyping`, `DrawsStayBounded`, `CursorComesBack`, for
  every screen and every text.  `CursorInv` says for each program location of `main` how
  far the cursor may be off the screen, and for each of the handler how much
  farther: the bounds are inductive because every disturbed path runs through
  the two comparisons again.  `StorageInv` gives the types of the rest.
  `ConsoleImplementsTerminal` - alone, the console is a terminal - for every
  screen and text: `Printing` ties the cursor and the frame buffer to the
  lines of `shown` at each location of `main`, and to the part of the lines
  already moved or cleared while it scrolls.
  `HandlerComesToEnd`: while a handler prints nothing else runs, and each of its
  steps brings `IsrLeft` down, at any cursor it may have found: `Within` counts
  what a character still takes, the lines to copy included, and no loop of
  `vbe_put_char` waits for `main`.
* `FatWriterProofs`: `FilesStayIntact`, `FilesStayDisjoint`, `CopiesEndEqual`,
  for every geometry of the disk, every set of files and every sequence of
  runs of `fd`, each killed anywhere or not at all.  `FatInv` says that the
  clusters in use are the lowest ones (`UsedFirst`), that the chain in memory
  continues those of the disk without a gap (`Chained`), that the directory in
  memory has one entry more (`EntryMade`), and for each sector already
  written what the disk has of the new chain (`Writing`, `Closing`).  The
  theorems assume `Numbered` (cluster numbers stay below the marks: 64461
  sectors and 0xfff8 in the image shipped) and, at every moment,
  `WithinArea`: `fd` has not come to a cluster past the data area, where the
  code itself does not stop it.  Nothing excludes
  such a cluster: the FAT of the shipped image has 131072 entries.
  `NothingLeaks`: as long as no `fd` is killed, the clusters in use are those of
  the chains of the listed files (`NothingLost`).  `RefusalsJustified`: the free clusters are
  counted at the start of a run, and the search misses none because they are
  the highest ones.  `FatImplementsFileSystem`: a step is a step of
  `FileSystem` when the directory reaches the disk, and a stutter otherwise;
  a chain is read back by a function that is given, and unique by its least
  counterexample.  `KernelAlwaysLoaded`: `LoadInv` says that what was loaded
  is the kernel's sectors in order and that the next cluster is the next of
  its chain.  It asks that the kernel has a byte (`Size[Kernel] > 0`): an empty one
  is finding `fat_empty_file`.
  `LoaderComesToEnd`: a kernel that is first is found at the first comparison
  (`KernelFound`), after which `LoadLeft` counts its sectors down; `LoadBound`,
  which bounds the model and not the code, is not met.
* `InterruptsProofs`: `HandlersAlwaysReady`, `BytesAlwaysReachTheirDriver`,
  `BytesAlwaysAnnounced`, `PacketsAlwaysWhole`, `ShiftNeverSticks`, for any
  number of bytes held back and any keys.  `ReadyInv` says for every operation
  of `kernel_main` which lines are open and which handlers installed
  (`MainInv`), which requests are in service where (`ServiceInv`), what the
  devices may send by then (`DeviceInv`), whose bytes are at the port
  (`PortInv`) and whose requests are pending (`RequestInv`): a handler meets
  only states its driver is ready for because the lines open in the order of
  the program.  `PacketInv` follows the mouse's bytes from the device through
  the port to the decoder - together they are consecutive - and `ShiftInv`
  the keys, if no release is lost: a press under way is the last code of its key
  or is followed by a release, and with none under way the flag is on only if
  the last code of a shift key was a press.

Assumptions: those named `...Assumption` in the modules, evaluated by TLC on
every run.  Most ask no more than that sizes are numbers and the constants
distinct.  `PageTablesAssumption` and `TablesAssumption` also say where the
loader puts its tables: with 1024 entries a table, the kernel begins at entry
768 and has 9 tables, of which the loader enters 2, and these see 8 MB, more
than image, directory and tables take; the loader's own tables for the screen
(`FB_PAGE_TABLE_BASE`, frame 0x302) lie behind all the others (from
frame 0x202 on).

Recursive walks - along links, a chain of the FAT, the digits of a number - are
dealt with where they occur, by giving the function they compute and taking the
least argument at which it could differ; the library's induction theorems are not needed.

Only model-checked: what rests on fairness - that calls return, handlers return,
the kernel boots and requests are served (`EveryCallReturns`, `HandlerReturns`,
`KernelBoots`, `RequestsServed`).  The prover does not do liveness.  Of the first
three the theorems `...ComesToEnd` prove the part that depends on the loops of
the code: a number that every step makes smaller.  TLC checks the rest, that
until the call is over some step can be taken and is: without it the same
theorems would hold of a call that is stuck.  For `RequestsServed` there is no
such number, because new bytes may come while a request waits.

## 6. Findings

With a run:

* `ragged_pool_release`: the physical pool's map has spare bits when the
  number of pages is no multiple of 8, and they are allocated (`mem.c:199`).
* `mem_init_above_4gb`: a largest range above 4 GB is described by 32 bits of
  its base, which name memory that is not available (`mem.c:36-39`).
* `map_a_page`: the table of a page is looked for, by the number of its entry,
  behind the kernel's, and is entered without the 0x100000 that `KERNEL_PADDR`
  adds (`mem.c:81-84`).  Nothing calls it yet.
* `fat_empty_file`: `ceil(0, 512)` is 2^23, so a file without bytes fills the
  disk from behind a buffer, and is then refused (`fat16.c:229`).
* `loader_name`: the search for the kernel does not reset its registers and
  takes a name that differs in the last column for a match; `.FoundFile`
  takes the first entry whatever matched (`loader.asm:258-276`).

Plain from the code, without a run:

* `pool_available_pages` is set at start-up and never updated, so the
  assertions compare a request with what was available then
  (`mem.c:96`, `122`).
* The last page of the available memory may be only partly there: its number
  is rounded up (`mem.c:45`).
* The FAT of the image has more entries than the data area has sectors, and
  the search for a free cluster ends with the FAT (`fat16.c:182`).
* Line 9 (vector 0x29) is opened (`mouse.c:72`) and has no handler;
  `default_isr_handler` is never installed (`idt.c:24`).  No device of the
  emulated machine uses that line.
* `read_keyboard_leds` reads the byte that answers command 0xed, an
  acknowledgement or nothing yet, and takes it for the state of the LEDs
  (`keyboard.c:192-195`).
* The NUM LOCK key falls through to ENTER, and both branches of the numeric
  pad are the same (`keyboard.c:154-166`).
* Two shift keys share one flag: releasing one of two that are held ends the
  shift (`keyboard.c:126-146`).  `NoStuckShift` is the other direction, which
  holds of the codes that come through.
* 0xe0 is taken for a key and dropped, and the code behind it for a key of its
  own.  Print Screen and, with NUM LOCK on, the grey keys send 0xe0 0x2a and 0xe0
  0xaa around their codes: the shift flag goes on while no shift key is held, and
  off while one is (`keyboard.c:121-146`).
* A release that a full keyboard buffer loses leaves the shift on until a shift
  key is released again: nothing asks the keyboard what is held.
* The star of a precision takes its argument but is not stepped over, so `*`
  is then printed as an unknown conversion (`stdio.c:277-281`); the comment says
  that a negative one becomes its absolute value, the code makes it 0
  (`stdio.c:282-284`).
* `%f` takes the number for an `int` and the rest times 1000000 for another
  (`stdio.c:91-92`): digits are cut off, not rounded, and of a number of 2^31 or
  more what is printed lies before the table of digits.  The precision of `%f` is
  the least length of the number, not the digits behind the point.
* Numbers near the limits of an `int` in a format overflow: a width or precision
  in digits (`skip_atoi`, `stdio.c:18-24`), a star of the least `int`, which stays
  negative (`stdio.c:257-260`), and what `number`, `%c` and `%s` count off a
  field (`stdio.c:72-86`, `128-131`).
* `printk` formats into 1024 bytes of its stack, of which `vsprintf` knows
  nothing (`printk.c:10`).
* `memchr` has no return statement for a byte that is not there
  (`string.c:170-181`); `strncpy` does not fill up with zeros, ends a string
  that is too long, and writes `dest[-1]` for a count of 0 (`string.c:28`).
* Strings differ from the C library's above 127: `strcmp` and `memcmp` order
  signed bytes (`string.c:76`, `124`); `strchr`, `strrchr` and `memchr` compare with
  an `int` that is not converted to a byte, so that 200 is never found
  (`string.c:84`, `101`, `175`).  `strupr` returns the end of the string
  (`string.c:231`), where the libraries that have it return its beginning.
* The loader reads one sector of the FAT and takes its entries one after another,
  wherever the links lead (`loader.asm:278-303`): a kernel of more sectors than
  entry 255 leaves room for, or whose clusters do not follow one another, is read
  wrong, and one that is not found leaves the machine spinning.
* `fd` gives every file one cluster more than it has sectors: a cluster is
  linked behind the last one written (`fat16.c:298-317`).
* `size + sizeof(arena_t)` wraps for the last 12 sizes, which get one page
  (`heap.c:93`).
* If the largest range of memory does not begin at 0x100000, `mem_mapping`
  maps the running kernel to where it is not (`mem.c:158`): `AtHome`.
* A frame buffer that is not at a multiple of 4 MB: the loader shifts its
  address by 20 for an offset in bytes (`loader.asm:388`), and the kernel
  enters its tables from the multiple below (`mem.c:175`).
* Frames of the physical pool lie behind pages of the kernel's pool, and both
  hand them out (`mem.c:215-227`).
* Offsets of the mouse are kept in signed bytes and or-ed with the sign bits
  again, so movements of 128 to 255 go backwards (`mouse.c:38-46`).
* Messages are printed before `sse_enable` (`main.c:47-59`); a scroll among
  them would use SSE instructions too early.

## 7. Not modelled

* The characters of scan codes (a table), the position and the buttons of the
  mouse (arithmetic on one packet): functions of data that nothing uses yet
  but a message.
* `memset32_asm` and `memcpy32_asm` (`string.c:149-168`), which nothing calls.
* The boot sector reads a fixed run of sectors; `gdt.c` writes three
  constant descriptors; `io.c` is single instructions, of which `inb` is part
  of `Interrupts`; `sse_enable` sets bits once.  They keep no state a property could relate.
* The loader's memory map, video modes and entry into protected mode: the
  BIOS is not part of the repository.
* Exceptions print and spin; assertions stop the model where the code spins;
  the wording of messages is left out everywhere.
* Fonts, build products and emulator settings are data.
