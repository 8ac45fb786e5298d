---------------------------- MODULE KernelLoader ----------------------------
(***************************************************************************)
(* _LoadKernelFile (loader/loader.asm): the loader looks for the kernel in *)
(* the first sector of the root directory and reads its clusters, from the *)
(* disk that runs of fd have left.  A name is the set of its columns at    *)
(* which it has the character of 'KERNEL  BIN': all the comparison sees,   *)
(* which never leaves a column.  Memory the loader did not write may hold  *)
(* anything.                                                               *)
(***************************************************************************)
EXTENDS FatWriter

CONSTANTS
    Kernel,
    Name,           \* of each file
    NameLen,        \* KERNEL_FAT16_NAME_LEN
    SectorDir,      \* directory entries in a sector
    Tries,          \* 32, the turns of .CheckName
    Leftover,       \* words found beyond the sector of the FAT that was read
    LoadBound       \* sectors after which a load is not followed further

Columns == 0..(NameLen - 1)

ASSUME KernelLoaderAssumption ==
    /\ NameLen \in Nat \ {0} /\ SectorDir \in Nat \ {0} /\ Tries \in Nat
    /\ LoadBound \in Nat /\ Leftover \subseteq 0..(Word16 - 1)
    /\ Name \in [Files -> SUBSET Columns]
    /\ \A f \in Files : Name[f] = Columns <=> f = Kernel

VARIABLES
    lpc,            \* "off", "name", "file", "kernel" or "stop"
    cx,             \* characters still to compare
    dx,             \* turns taken, then the cluster to read
    entry,          \* where si points
    di,             \* the entry of the FAT di points to
    loaded          \* the sectors from KERNEL_BASE on

loader == <<lpc, cx, dx, entry, di, loaded>>

LInit ==
    /\ Init
    /\ lpc = "off" /\ cx = 0 /\ dx = 0 /\ entry = 0 /\ di = 0 /\ loaded = <<>>

\* The columns that match in the n-th entry of what was read to 0x7e00.
NamesAt(n) ==
    IF n >= SectorDir THEN SUBSET Columns
    ELSE IF n + 1 \in Listed THEN {Name[rootdir[n + 1].file]}
    ELSE {{}}

\* The words at the n-th entry of the FAT, of which one sector was read.
FatWords(n) == IF n < SectorEntries THEN {fat["fat0"][n]} ELSE Leftover

\* The sector of a cluster; below 2 and beyond the disk lies something else.
DiskSector(c) == IF c \in Clusters /\ c >= 2 THEN data[c] ELSE <<Garbage, 0>>
-----------------------------------------------------------------------------
\* The machine is switched on; fd is not running.
Boot ==
    /\ lpc = "off" /\ pc = "idle"
    /\ lpc' = "name" /\ cx' = NameLen
    /\ UNCHANGED <<dx, entry, di, loaded>>

\* One turn of .CheckName.  Neither si nor di nor cx is set back: the entry
\* looked at is 0, 1, 3, 6, ..., and what is compared is what the last one
\* left.  cx is 0 also after a difference in the last column.
CheckName ==
    /\ lpc = "name"
    /\ \E name \in NamesAt(entry + dx) :
         LET differ == {c \in Columns : c >= NameLen - cx /\ c \notin name}
             left   == IF differ = {} THEN 0 ELSE NameLen - 1 - Min(differ)
         IN  /\ cx' = left
             /\ IF left = 0
                THEN /\ lpc' = "file"                       \* .FoundFile
                     /\ dx' = rootdir[1].FstClus /\ di' = dx' /\ entry' = 0
                ELSE /\ lpc' = IF dx + 1 < Tries THEN "name" ELSE "stop"
                     /\ dx' = dx + 1 /\ entry' = entry + dx
                     /\ UNCHANGED di
    /\ UNCHANGED loaded

\* di moved on before the entry of the FAT is read.
Faulty_ReadFile_Next ==
    /\ lpc = "file" /\ Len(loaded) < LoadBound
    /\ loaded' = Append(loaded, DiskSector(dx))
    /\ \E word \in FatWords(di + 1) :
         /\ dx' = word
         /\ lpc' = IF word >= Media THEN "kernel" ELSE "file"
    /\ di' = di + 1
    /\ UNCHANGED <<cx, entry>>

\* The end of the chain taken for a cluster.
Faulty_ReadFile_NoEnd ==
    /\ lpc = "file" /\ Len(loaded) < LoadBound
    /\ loaded' = Append(loaded, DiskSector(dx))
    /\ \E word \in FatWords(di) :
         /\ dx' = word
         /\ lpc' = IF word > EndMark THEN "kernel" ELSE "file"
    /\ di' = di + 1
    /\ UNCHANGED <<cx, entry>>

\* One turn of .ReadFile: a sector is read, then the FAT at di, which moves to
\* the next entry whatever cluster was found there.
ReadFile ==
    /\ lpc = "file" /\ Len(loaded) < LoadBound
    /\ loaded' = Append(loaded, DiskSector(dx))
    /\ \E word \in FatWords(di) :
         /\ dx' = word
         /\ lpc' = IF word >= Media THEN "kernel" ELSE "file"
    /\ di' = di + 1
    /\ UNCHANGED <<cx, entry>>

Load == CheckName \/ ReadFile

LNext ==
    \/ lpc = "off" /\ Next /\ UNCHANGED loader
    \/ (Boot \/ Load) /\ UNCHANGED vars

\* The loader runs alone, with interrupts off.
LSpec == LInit /\ [][LNext]_<<vars, loader>> /\ WF_<<vars, loader>>(Load /\ UNCHANGED vars)
-----------------------------------------------------------------------------
\* The kernel is the first file of the disk, and its chain is in the first
\* sector of the FAT: with the constants of the code, 253 sectors.
KernelFirst ==
    /\ 1 \in Listed /\ rootdir[1].file = Kernel
    /\ Extent(rootdir[1]) \subseteq 0..(SectorEntries - 1)
    /\ DataCount(Kernel) < LoadBound

\* What is jumped to is the kernel, whole and in order, and one sector that
\* means nothing - whatever was added after it and wherever fd was killed
\* (loader.asm:289-305 relies on fat16.c:178-189).
KernelLoaded ==
    lpc = "kernel" /\ KernelFirst =>
        /\ Len(loaded) = DataCount(Kernel) + 1
        /\ \A k \in 1..DataCount(Kernel) : loaded[k] = <<Kernel, k - 1>>

\* A disk that begins with the kernel boots.
KernelBoots == lpc = "name" /\ KernelFirst ~> lpc = "kernel"

\* The loader loads only the file called KERNEL_FAT16_NAME (loader.asm:537).
LoadsOnlyKernel ==
    lpc \in {"file", "kernel"} => 1 \in Listed /\ rootdir[1].file = Kernel
=============================================================================
