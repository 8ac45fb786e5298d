----------------------------- MODULE PageTables -----------------------------
(***************************************************************************)
(* The page tables: those the loader leaves (loader/loader.asm) and what   *)
(* mem_mapping of kernel/mem/mem.c makes of them while the kernel runs on  *)
(* them.  Composed with MemInit, of whose mem_mapping this is the inside.  *)
(* A table is found in memory by the number of its frame, and is reached   *)
(* through the tables themselves.  Addresses are numbers of pages.         *)
(***************************************************************************)
EXTENDS MemInit, FiniteSetsExt

CONSTANTS KernelFrame,      \* 0x100000 >> 12, where the loader puts the image
          LowPages,         \* 256, the entries of the low megabyte
          LoaderTables,     \* kernel tables the loader fills, 4
          LoaderEntries,    \* and enters in the directory, 2
          LoaderFbTable,    \* FB_PAGE_TABLE_BASE >> 12
          FrameBuffers,     \* framebuffer >> 12
          Leftovers         \* what entries nobody wrote may hold

\* A frame buffer begins with a table, and its tables are neither those of the
\* kernel nor the last one, which maps the directory.
ASSUME PageTablesAssumption ==
    /\ KernelFrame \in Nat /\ LowPages \in 1..Entries /\ LoaderFbTable \in Nat
    /\ LoaderEntries \in 1..LoaderTables
    /\ KernelBase % Entries = 0
    /\ \A fb \in FrameBuffers :
         /\ fb \in Nat /\ fb % Entries = 0
         /\ \A pages \in ResPages :
              LET last == fb \div Entries + Ceil(pages, Entries) - 1
              IN  \/ KernelBase \div Entries + kernel_pt_counts <= fb \div Entries
                       /\ last < Entries - 1
                  \/ 0 < fb \div Entries /\ last < KernelBase \div Entries

\* The kernel has as many tables as the loader enters, or more; all the tables
\* are seen through the entries of the loader, the kernel's do not reach the
\* last entry, and the loader keeps those of the frame buffer behind the others.
ASSUME TablesAssumption ==
    /\ LoaderTables \in Nat /\ Entries <= KernelBase
    /\ LoaderEntries <= kernel_pt_counts
    /\ KernelBase \div Entries + kernel_pt_counts < Entries
    /\ KernelFrame + CodePages + 2 + LoaderTables <= LoaderFbTable
    /\ \A pages \in ResPages :
         LET tables == CodePages + 2 + kernel_pt_counts + Ceil(pages, Entries)
         IN  /\ tables <= LoaderEntries * Entries
             /\ KernelFrame + tables <= LoaderFbTable

VARIABLES fb,           \* the frame buffer's first page
          memory,       \* memory[frame][entry]: the tables
          boot,         \* what the loader left of them
          written       \* tables mem_mapping has written

ptVars == <<miVars, fb, memory, boot, written>>

Absent     == -1
FirstEntry == KernelBase \div Entries
SelfEntry  == Entries - 1

\* KERNEL_PADDR, for pages.
KERNEL_PADDR(v) == v - KernelBase + KernelFrame

Directory   == KernelFrame + CodePages
LowTable    == Directory + 1
KernelTable == Directory + 2

\* A table whose first `count' entries map the frames from `first' on.
Table(first, count, rest) ==
    [e \in 0..(Entries - 1) |-> IF e < count THEN first + e ELSE rest]

LoaderFbTables == LoaderFbTable .. (LoaderFbTable + Ceil(res_pages, Entries) - 1)

LoaderDirectory ==
    [e \in 0..(Entries - 1) |->
       LET fbEntry == e - fb \div Entries
           kernel  == e - FirstEntry
       IN  CASE e = SelfEntry -> Directory
             [] fbEntry \in 0..(Ceil(res_pages, Entries) - 1) -> LoaderFbTable + fbEntry
             [] kernel \in 0..(LoaderEntries - 1) -> KernelTable + kernel
             [] e = 0 -> LowTable
             [] OTHER -> Absent]

\* What _SetPageTable and _SetPageDir write; they clear the directory only.
LoaderMemory(rest) ==
    LET kernelTables == KernelTable .. (KernelTable + LoaderTables - 1)
    IN  [f \in {Directory, LowTable} \cup kernelTables \cup LoaderFbTables |->
           CASE f = Directory        -> LoaderDirectory
             [] f = LowTable         -> Table(0, LowPages, rest)
             [] f \in kernelTables   ->
                  Table(KernelFrame + (f - KernelTable) * Entries, Entries, rest)
             [] f \in LoaderFbTables ->
                  LET before == (f - LoaderFbTable) * Entries
                  IN  Table(fb + before, res_pages - before, rest)]

\* The frame the tables of `mem' give page v.
Walk(mem, v) ==
    LET table == mem[Directory][v \div Entries]
    IN  IF table \in DOMAIN mem THEN mem[table][v % Entries] ELSE Absent

(***************************************************************************)
(* Nothing in the kernel reloads cr3 or executes invlpg, so the processor  *)
(* may use a translation of the loader's for as long as it likes.  That it *)
(* does so while memset has cleared the very table that maps the code, and *)
(* the table itself, is what mem_mapping relies on.                        *)
(***************************************************************************)
Translations(v) == {Walk(boot, v), Walk(memory, v)} \ {Absent}

\* Memory once `table' is in frame f and the directory has `target' at `entry'.
Entered(f, table, entry, target) ==
    LET mem == [g \in DOMAIN memory \cup {f} |-> IF g = f THEN table ELSE memory[g]]
    IN  [mem EXCEPT ![Directory][entry] = target]

PTInit ==
    /\ Init
    /\ fb \in FrameBuffers
    /\ \E rest \in Leftovers : memory = LoaderMemory(rest)
    /\ boot = memory
    /\ written = 0
-----------------------------------------------------------------------------
NeededTables == kernel_pt_counts + Ceil(res_pages, Entries)

\* memset, entry_init of the directory's entry and of 1024 entries: table
\* number `written', which is seen by the kernel at page KernelPageTables +
\* written.
WriteTable(entry, first) ==
    LET page == KernelPageTables + written
    IN  /\ \E f \in Translations(page) :
             memory' = Entered(f, Table(first, Entries, Absent), entry, KERNEL_PADDR(page))
        /\ written' = written + 1
        /\ UNCHANGED <<miVars, fb, boot>>

\* A kernel_idx that begins anew with every table.
Faulty_MapKernelTable_Restarts ==
    /\ pc = "mapping" /\ written < kernel_pt_counts
    /\ WriteTable(FirstEntry + written, mem_info.available_base \div PAGE_SIZE)

\* kernel_idx counts on from the first page of the available memory.
MapKernelTable ==
    /\ pc = "mapping" /\ written < kernel_pt_counts
    /\ WriteTable(FirstEntry + written,
                  mem_info.available_base \div PAGE_SIZE + written * Entries)

\* A loop that leaves the last entry as the loader made it.
Faulty_MapFbTable_NotEntered ==
    /\ pc = "mapping" /\ written \in kernel_pt_counts..(NeededTables - 1)
    /\ LET k == written - kernel_pt_counts
       IN  IF written = NeededTables - 1
           THEN written' = written + 1 /\ UNCHANGED <<miVars, fb, memory, boot>>
           ELSE WriteTable(fb \div Entries + k, fb + k * Entries)

\* An identity that begins at the start of the table the screen begins in.
Faulty_MapFbTable_Shifted ==
    /\ pc = "mapping" /\ written \in kernel_pt_counts..(NeededTables - 1)
    /\ LET k == written - kernel_pt_counts
       IN  WriteTable(fb \div Entries + k, fb + k)

MapFbTable ==
    /\ pc = "mapping" /\ written \in kernel_pt_counts..(NeededTables - 1)
    /\ LET k == written - kernel_pt_counts
       IN  WriteTable(fb \div Entries + k, fb + k * Entries)

PTNext ==
    \/ (ReadRange \/ CountPages \/ mem_pool_init) /\ UNCHANGED <<fb, memory, boot, written>>
    \/ MapKernelTable \/ MapFbTable
    \/ written = NeededTables /\ mem_mapping /\ UNCHANGED <<fb, memory, boot, written>>

PTSpec == PTInit /\ [][PTNext]_ptVars
-----------------------------------------------------------------------------
\* map_a_page of page v to frame p: get_vaddr_info splits v; the table is
\* looked for behind the kernel's at the number of its entry, and entered
\* without the offset KERNEL_PADDR adds.
map_a_page(v, p) ==
    LET entry == v \div Entries
        f     == Walk(memory, KernelPageTables + entry)
        index == v % Entries
        Only  == [e \in 0..(Entries - 1) |-> IF e = index THEN p ELSE Absent]
    IN  /\ pc = "done" /\ f # Absent
        /\ memory' =
             IF memory[Directory][entry] = Absent
             THEN Entered(f, Only, entry, KernelPageTables + entry - KernelBase)
             ELSE IF f \in DOMAIN memory /\ memory[f][index] = Absent
             THEN [memory EXCEPT ![f][index] = p] ELSE memory
        /\ UNCHANGED <<miVars, fb, boot, written>>

\* No code calls map_a_page yet; here a first caller does, after mem_init.
MapNext ==
    \/ PTNext
    \/ \E v \in 0..(Entries * Entries - 1), p \in {KernelFrame} : map_a_page(v, p)

MapSpec == PTInit /\ [][MapNext]_ptVars

\* map_a_page maps a page (mem.c:75): one that was absent is afterwards where
\* the caller asked.
MapsThePage ==
    [][\A v \in 0..(Entries * Entries - 1) :
         map_a_page(v, KernelFrame) /\ Walk(memory, v) = Absent =>
             Walk(memory, v)' = KernelFrame]_ptVars
-----------------------------------------------------------------------------
\* The pages the kernel's addresses lead to are those the loader put it in.
AtHome == pc = "info" \/ mem_info.available_base \div PAGE_SIZE = KernelFrame

\* On a machine whose largest range begins where the loader put the kernel,
\* rewriting the tables never moves a page of it: the next table is mapped when
\* it is written, what the loader mapped stays where it is at every step, and
\* in the end every page of the kernel's pool is at its KERNEL_PADDR
\* (mem.c:158-170).
KernelMapped ==
    AtHome =>
        /\ pc = "mapping" /\ written < NeededTables =>
             Translations(KernelPageTables + written) # {}
        /\ LET reach == IF pc \in {"info", "mapping"}
                        THEN Min({LoaderEntries * Entries, KernelPages}) ELSE KernelPages
           IN  \A v \in KernelBase .. (KernelBase + reach - 1) :
                 Walk(memory, v) = KERNEL_PADDR(v)

\* Messages are drawn from the first line of mem_init on: every page of the
\* frame buffer is mapped to itself before, between and after the tables
\* written (mem.c:174-185).
ScreenMapped == AtHome => \A k \in fb..(fb + res_pages - 1) : Walk(memory, k) = k

\* Every table the processor can still be led to, and the directory, lies in
\* the frames taken from the physical pool and in the pages taken from the
\* kernel's: neither pool hands out a table (mem.c:178 against 215-227).
TablesReserved ==
    pc = "done" /\ AtHome =>
        \A e \in 0..(Entries - 1) :
          LET table == memory[Directory][e]
          IN  table # Absent =>
                table \in KernelFrame .. (KernelFrame + UsedPages(phys_pool, kernel_pool) - 1)
=============================================================================
