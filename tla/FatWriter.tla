----------------------------- MODULE FatWriter ------------------------------
(***************************************************************************)
(* write_file_to_fat16 (tools/fd/main/fat16.c): fd adds one file to the    *)
(* FAT16 partition of a disk image.  The image is two copies of the FAT,   *)
(* the root directory and the data area; fd changes it sector by sector,   *)
(* in the order of its calls of disk_write, and may be killed in between.  *)
(* A file is what its directory entry says of it, the bytes of a sector    *)
(* are a value, and an area of the disk that is written without change is  *)
(* not written.                                                            *)
(***************************************************************************)
EXTENDS Integers, Sequences, FiniteSets, FiniteSetsExt

CONSTANTS
    Word16, Word32,         \* the ranges of u16 and u32
    SECTOR_SIZE,
    FatSectors,             \* sectors of a copy of the FAT
    SectorEntries,          \* entries in each of them
    DirEntries,             \* entries in the root directory
    Media, EndMark,         \* 0xfff8 and 0xffff
    Files,
    Size,                   \* of each file, in bytes
    Garbage                 \* what no file holds

ASSUME FatWriterAssumption ==
    /\ FatSectors \in Nat \ {0} /\ SectorEntries \in Nat \ {0}
    /\ FatSectors * SectorEntries > 2
    /\ SECTOR_SIZE \in Nat \ {0} /\ DirEntries \in Nat
    /\ Media \in Nat \ {0} /\ EndMark \in Nat /\ Media < EndMark
    /\ Word16 = EndMark + 1
    /\ Word32 \in Nat \ {0} /\ Size \in [Files -> 0..(Word32 - 1)]
    /\ Garbage \notin Files

VARIABLES
    fat,                    \* both copies
    rootdir,
    data,                   \* by the number of the cluster
    pc,                     \* "idle", "data", or "write" for the other areas
    area, sector,           \* the area being written and the next sector of it
    input,                  \* the file fd adds or added last
    result,                 \* what became of it
    killed,                 \* whether fd was ever killed
    fat_buffer, rootdir_buffer,
    cluster,
    i                       \* sectors of the file written so far

disk    == <<fat, rootdir, data>>
buffers == <<fat_buffer, rootdir_buffer, cluster, i>>
vars    == <<disk, pc, area, sector, input, result, killed, buffers>>

Clusters == 0..(FatSectors * SectorEntries - 1)
Copies   == {"fat0", "fat1"}

\* ceil on u32: n - 1 wraps when n is 0.
Ceil(n, m) == (((n - 1) % Word32) \div m) + 1

DataCount(f) == Ceil(Size[f], SECTOR_SIZE)

\* What disk_read leaves in the k-th sector of data_buffer: that part of the
\* file, or what lies behind a buffer that is too short.
SectorOf(f, k) == IF k * SECTOR_SIZE < Size[f] THEN <<f, k>> ELSE <<Garbage, 0>>

NoEntry == [file |-> Garbage, FstClus |-> 0]    \* DIR_Attr is 0

\* The lowest free cluster from c on, as a u16, or 0.
FreeCluster(table, c) ==
    LET free == {n \in Clusters : n >= c /\ table[n] = 0}
    IN  IF free = {} THEN 0 ELSE Min(free) % Word16

get_cluster(table) == FreeCluster(table, 2)

\* A search that leaves a cluster out.
Faulty_link_cluster_Skip(table, c) == FreeCluster(table, (c + 2) % Word16)

link_cluster(table, c) == FreeCluster(table, (c + 1) % Word16)

FreeEntries == {n \in 1..DirEntries : rootdir[n] = NoEntry}

\* The directory entry written before the FAT it needs.
Faulty_WriteOrder_DirFirst == <<"rootdir", "fat0", "fat1">>

\* The first copy written twice.
Faulty_WriteOrder_OneFat == <<"fat0", "fat0", "rootdir">>

\* The last three calls of disk_write.
WriteOrder == <<"fat0", "fat1", "rootdir">>

\* A copy of the FAT after sector s of it was replaced.
Overlay(table, new, s) ==
    [c \in Clusters |-> IF c \div SectorEntries = s THEN new[c] ELSE table[c]]

ZeroFat == [c \in Clusters |-> 0]
NoDir   == [n \in 1..DirEntries |-> NoEntry]

\* A new image: nothing but zeros.
Init ==
    /\ fat = [copy \in Copies |-> ZeroFat]
    /\ rootdir = NoDir
    /\ data = [c \in Clusters |-> <<Garbage, 0>>]
    /\ pc = "idle" /\ area = 1 /\ sector = 0
    /\ input = Garbage /\ result = "none" /\ killed = FALSE
    /\ fat_buffer = ZeroFat /\ rootdir_buffer = NoDir /\ cluster = 0 /\ i = 0

\* fd is gone, and its buffers with it.
Exit(outcome) ==
    /\ pc' = "idle" /\ area' = 1 /\ sector' = 0
    /\ result' = outcome
    /\ fat_buffer' = ZeroFat /\ rootdir_buffer' = NoDir /\ cluster' = 0 /\ i' = 0
-----------------------------------------------------------------------------
Refuse(f) ==
    /\ input' = f
    /\ Exit("refused")
    /\ UNCHANGED <<disk, killed>>

\* write_file_to_fat16 up to its loop: the first copy and the directory are
\* read, and the entry is made in memory.
Start(f) ==
    /\ pc = "idle"
    /\ LET table == [fat["fat0"] EXCEPT ![0] = Media, ![1] = EndMark]
           start == get_cluster(table)
       IN  IF start = 0 \/ FreeEntries = {} THEN Refuse(f)
           ELSE /\ pc' = "data"
                /\ input' = f /\ result' = "none"
                /\ fat_buffer' = table
                /\ rootdir_buffer' = [rootdir EXCEPT ![Min(FreeEntries)] =
                                        [file |-> f, FstClus |-> start]]
                /\ cluster' = start
                /\ UNCHANGED <<disk, area, sector, killed, i>>

\* One turn of the loop: a sector goes to disk, and a cluster is linked for
\* the next one - even after the last.
WriteData ==
    /\ pc = "data" /\ i < DataCount(input)
    /\ data' = [data EXCEPT ![cluster] = SectorOf(input, i)]
    /\ LET next == link_cluster(fat_buffer, cluster)
       IN  IF next = 0 THEN Exit("refused")
           ELSE /\ fat_buffer' = [fat_buffer EXCEPT ![cluster] = next]
                /\ cluster' = next /\ i' = i + 1
                /\ UNCHANGED <<pc, area, sector, result, rootdir_buffer>>
    /\ UNCHANGED <<fat, rootdir, input, killed>>

\* A chain without end.
Faulty_EndChain_NoMark ==
    /\ pc = "data" /\ i = DataCount(input)
    /\ pc' = "write"
    /\ UNCHANGED <<disk, area, sector, input, result, killed, buffers>>

\* The end of the chain marked in the cluster after it, too.
Faulty_EndChain_OneMore ==
    /\ pc = "data" /\ i = DataCount(input)
    /\ fat_buffer' = [c \in Clusters |-> IF c \in cluster..(cluster + 1)
                                         THEN EndMark ELSE fat_buffer[c]]
    /\ pc' = "write"
    /\ UNCHANGED <<disk, area, sector, input, result, killed, rootdir_buffer,
                   cluster, i>>

EndChain ==
    /\ pc = "data" /\ i = DataCount(input)
    /\ fat_buffer' = [fat_buffer EXCEPT ![cluster] = EndMark]
    /\ pc' = "write"
    /\ UNCHANGED <<disk, area, sector, input, result, killed, rootdir_buffer,
                   cluster, i>>

\* The area is written; fd returns after the last one.
AreaDone ==
    IF area = Len(WriteOrder) THEN Exit("added")
    ELSE area' = area + 1 /\ sector' = 0 /\ UNCHANGED <<pc, result, buffers>>

\* write_fat.
WriteFat ==
    /\ pc = "write" /\ WriteOrder[area] \in Copies
    /\ fat' = [fat EXCEPT ![WriteOrder[area]] = Overlay(@, fat_buffer, sector)]
    /\ IF sector + 1 < FatSectors
       THEN sector' = sector + 1 /\ UNCHANGED <<pc, area, result, buffers>>
       ELSE AreaDone
    /\ UNCHANGED <<rootdir, data, input, killed>>

\* write_rootdir: one entry of one sector differs from what is on the disk.
WriteRootdir ==
    /\ pc = "write" /\ WriteOrder[area] = "rootdir"
    /\ rootdir' = rootdir_buffer
    /\ AreaDone
    /\ UNCHANGED <<fat, data, input, killed>>

\* fd dies: from a signal, or of the buffer it reads beyond.
Kill ==
    /\ pc # "idle"
    /\ Exit("killed")
    /\ killed' = TRUE
    /\ UNCHANGED <<disk, input>>

Next ==
    \/ \E f \in Files : Start(f)
    \/ WriteData \/ EndChain \/ WriteFat \/ WriteRootdir \/ Kill

Spec == Init /\ [][Next]_vars
-----------------------------------------------------------------------------
Entry == [file : Files, FstClus : Clusters] \cup {NoEntry}
Table == [Clusters -> 0..(Word16 - 1)]

TypeOK ==
    /\ fat \in [Copies -> Table]
    /\ rootdir \in [1..DirEntries -> Entry]
    /\ data \in [Clusters -> (Files \X Nat) \cup {<<Garbage, 0>>}]
    /\ pc \in {"idle", "data", "write"}
    /\ area \in 1..3 /\ sector \in 0..(FatSectors - 1)
    /\ input \in Files \cup {Garbage}
    /\ result \in {"none", "added", "refused", "killed"} /\ killed \in BOOLEAN
    /\ fat_buffer \in Table
    /\ rootdir_buffer \in [1..DirEntries -> Entry]
    /\ cluster \in Clusters
    /\ i \in Nat

Listed == {n \in 1..DirEntries : rootdir[n] # NoEntry}

Used(table) == {c \in Clusters : c >= 2 /\ table[c] # 0}

\* The clusters of a listed file: one for each of its sectors, and a last one
\* that holds nothing.
Extent(e) == e.FstClus..(e.FstClus + DataCount(e.file))

\* Every listed file has its bytes, and in both copies of the FAT its clusters
\* are chained one after the other: what the loader, which reads the entries
\* of the FAT in a row, depends on (fat16.c:298-317, loader.asm:289-305).
\* Killing fd anywhere does not change that.
ListedIntact ==
    \A n \in Listed :
      LET e    == rootdir[n]
          last == e.FstClus + DataCount(e.file)
      IN  /\ Extent(e) \subseteq Clusters
          /\ \A c \in Extent(e) : \A copy \in Copies :
               fat[copy][c] = IF c = last THEN EndMark ELSE c + 1
          /\ \A k \in 0..(DataCount(e.file) - 1) :
               data[e.FstClus + k] = SectorOf(e.file, k)

\* No cluster belongs to two files, though what a killed fd left behind is
\* in use for ever (fat16.c:166-189).
ExtentsDisjoint ==
    \A m, n \in Listed : m # n => Extent(rootdir[m]) \cap Extent(rootdir[n]) = {}

\* As long as fd is not killed every cluster in use belongs to a file.
NoClusterLost ==
    pc = "idle" /\ ~ killed =>
        Used(fat["fat0"]) = UNION {Extent(rootdir[n]) : n \in Listed}

\* An fd that returned leaves two copies that agree, whatever state an earlier
\* one that was killed left them in (fat16.c:313-316).
CopiesAgree == pc = "idle" /\ result = "added" => fat["fat0"] = fat["fat1"]

Free(table) == {c \in Clusters : c >= 2 /\ c < Word16 /\ table[c] = 0}

\* fd refuses a file only when the directory is full, or fewer clusters are
\* free than the file has sectors and one more: the forward search of
\* link_cluster overlooks none (fat16.c:178-189).
RefusedOnlyWhenFull ==
    pc = "idle" /\ result = "refused" /\ Size[input] > 0 =>
        \/ FreeEntries = {}
        \/ Cardinality(Free(fat["fat0"])) <= DataCount(input)

\* The same for a file without bytes, which has no sectors (types.h:20).
EmptyFileFits ==
    pc = "idle" /\ result = "refused" /\ Size[input] = 0 =>
        FreeEntries = {} \/ Free(fat["fat0"]) = {}
-----------------------------------------------------------------------------
\* The number of sectors a reader takes from the size in the entry.
FileSectors(f) == (Size[f] + SECTOR_SIZE - 1) \div SECTOR_SIZE

\* What a reader of the entry e finds: it follows the chain in the first copy.
ReadBack(e) ==
    LET at[k \in 0..FileSectors(e.file)] ==
          IF k = 0 THEN e.FstClus
          ELSE LET next == fat["fat0"][at[k - 1]]
               IN  IF next \in Clusters /\ next \in 2..(Media - 1) THEN next ELSE at[k - 1]
    IN  [k \in 1..FileSectors(e.file) |-> data[at[k - 1]]]

F == INSTANCE FileSystem WITH
       Content <- [f \in Files |-> [k \in 1..FileSectors(f) |-> <<f, k - 1>>]],
       listing <- [n \in 1..Cardinality(Listed) |->
                     <<rootdir[n].file, ReadBack(rootdir[n])>>]

\* Read back, the directory is a list to which files are added as a whole,
\* and from which nothing disappears, wherever fd is killed.
ImplementsFileSystem == F!Spec
=============================================================================
