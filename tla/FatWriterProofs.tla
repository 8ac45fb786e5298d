-------------------------- MODULE FatWriterProofs ---------------------------
(***************************************************************************)
(* What fd has added stays on the disk, whole and in one piece, for every  *)
(* geometry and every sequence of files, wherever fd is killed - as long   *)
(* as the data area is not full: fd implements FileSystem, and the loader  *)
(* finds the kernel it added first.                                        *)
(***************************************************************************)
EXTENDS KernelLoader, TLAPS, FiniteSetTheorems, NaturalsInduction, WellFoundedInduction

CONSTANT DataSectors    \* data_sectors, the size of the data area

\* The data area can be numbered with 16 bits, below the marks.
Numbered == DataSectors \in Nat /\ DataSectors + 2 <= Media

\* fd has not come to a cluster beyond the data area.
WithinArea == cluster < DataSectors + 2

\* The first cluster of the file being added.
First == cluster - i

\* In the first copy the clusters in use are the lowest ones, all in the data
\* area.
UsedFirst ==
    \A c \in Clusters : c >= 2 /\ fat["fat0"][c] # 0 =>
      /\ c < DataSectors + 2
      /\ \A d \in Clusters : d >= 2 /\ d <= c => fat["fat0"][d] # 0

\* The chain in memory, up to the cluster that is linked last.
Chained ==
    /\ input \in Files /\ First \in Clusters /\ First >= 2
    /\ i <= DataCount(input)
    /\ \A c \in Clusters :
         /\ c >= 2 /\ c < First => fat_buffer[c] = fat["fat0"][c] /\ fat_buffer[c] # 0
         /\ c >= First /\ c < cluster => fat_buffer[c] = c + 1
         /\ c > cluster => fat_buffer[c] = 0
    /\ \A k \in 0..(i - 1) : data[First + k] = SectorOf(input, k)
    /\ \A n \in Listed : \A c \in Extent(rootdir[n]) : c < First

\* The directory in memory has one entry more than that on the disk.
EntryMade ==
    \E n \in 1..DirEntries :
      /\ rootdir[n] = NoEntry
      /\ rootdir_buffer = [rootdir EXCEPT ![n] = [file |-> input, FstClus |-> First]]

\* While sectors are written nothing of the chain is on the disk yet.
Writing ==
    pc = "data" =>
      /\ Chained /\ EntryMade
      /\ area = 1 /\ sector = 0
      /\ fat_buffer[cluster] = 0
      /\ \A c \in Clusters : c >= First => fat["fat0"][c] = 0

\* What the first, and the second copy, have received.
InFat0(c) == area > 1 \/ c \div SectorEntries < sector
InFat1(c) == area = 3 \/ (area = 2 /\ c \div SectorEntries < sector)

\* Then the chain is complete, and its sectors reach the first copy, then the
\* second, then the entry the directory.
Closing ==
    pc = "write" =>
      /\ Chained /\ EntryMade
      /\ i = DataCount(input) /\ fat_buffer[cluster] = EndMark
      /\ \A c \in Clusters :
           /\ InFat0(c) => fat["fat0"][c] = fat_buffer[c]
           /\ ~ InFat0(c) /\ c >= First => fat["fat0"][c] = 0
           /\ InFat1(c) => fat["fat1"][c] = fat_buffer[c]

\* Between two runs of fd nothing is left in its variables.
Quiet == pc = "idle" => area = 1 /\ sector = 0 /\ cluster = 0 /\ i = 0

ListedAbove == \A n \in Listed : rootdir[n].FstClus >= 2

FatInv ==
    /\ TypeOK /\ Quiet /\ UsedFirst /\ Writing /\ Closing
    /\ ListedAbove /\ ListedIntact /\ ExtentsDisjoint /\ CopiesAgree
-----------------------------------------------------------------------------
LEMMA Geometry ==
    /\ SectorEntries \in Nat \ {0} /\ FatSectors \in Nat \ {0}
    /\ FatSectors * SectorEntries \in Nat
    /\ Clusters \in SUBSET Nat /\ 0 \in Clusters /\ 1 \in Clusters
    /\ EndMark \in Nat \ {0} /\ Media \in Nat \ {0} /\ Media < EndMark
    /\ Word16 = EndMark + 1 /\ DirEntries \in Nat
    /\ Garbage \notin Files
  BY FatWriterAssumption, SMT DEF Clusters

LEMMA LeastOf ==
    ASSUME NEW S \in SUBSET Nat, S # {}
    PROVE  /\ Min(S) \in S
           /\ \A y \in S : Min(S) <= y
  <1> DEFINE R == OpToRel(<, Nat)
  <1>1. IsWellFoundedOn(R, Nat)
    BY NatLessThanWellFounded
  <1>2. R = {ss \in Nat \X Nat : ss[1] < ss[2]}
    BY DEF OpToRel
  <1> HIDE DEF R
  <1>3. PICK x \in S : \A y \in S : ~ (<<y, x>> \in R)
    BY <1>1, WFMin
  <1>4. \A y \in S : ~ (y < x)
    BY <1>2, <1>3
  <1>5. \A y \in S : x <= y
    BY <1>4
  <1> QED BY <1>3, <1>5 DEF Min

\* Every file takes at least one turn of the loop, even an empty one.
LEMMA AtLeastOne == ASSUME NEW f \in Files PROVE DataCount(f) \in Nat \ {0}
  <1> DEFINE x == (Size[f] - 1) % Word32
  <1>1. Word32 \in Nat \ {0} /\ SECTOR_SIZE \in Nat \ {0} /\ Size[f] \in Int
    BY FatWriterAssumption
  <1>2. x \in Nat
    BY <1>1, SMT
  <1>3. DataCount(f) = (x \div SECTOR_SIZE) + 1
    BY DEF DataCount, Ceil
  <1> HIDE DEF x
  <1>4. x \div SECTOR_SIZE \in Nat
    BY <1>1, <1>2, SMT
  <1> QED BY <1>3, <1>4

\* The sectors of the FAT hold its entries in order.
LEMMA SectorsInOrder ==
    /\ \A c \in Clusters : c \div SectorEntries \in 0..(FatSectors - 1)
    /\ \A c, d \in Clusters : c <= d => c \div SectorEntries <= d \div SectorEntries
  <1>1. ASSUME NEW c \in Clusters
        PROVE  \E r \in 0..(SectorEntries - 1) :
                 /\ c \div SectorEntries \in Int
                 /\ c = SectorEntries * (c \div SectorEntries) + r
    <2>1. c \in Nat /\ SectorEntries \in Nat \ {0}
      BY Geometry
    <2>2. /\ c \div SectorEntries \in Int
          /\ c = SectorEntries * (c \div SectorEntries) + (c % SectorEntries)
          /\ c % SectorEntries \in 0..(SectorEntries - 1)
      BY <2>1, SMT
    <2> QED BY <2>2
  <1>2. ASSUME NEW c \in Clusters
        PROVE  c \div SectorEntries \in 0..(FatSectors - 1)
    <2> DEFINE q == c \div SectorEntries
    <2>1. PICK r \in 0..(SectorEntries - 1) : q \in Int /\ c = SectorEntries * q + r
      BY <1>1
    <2>2. c \in Nat /\ c < FatSectors * SectorEntries
      BY Geometry DEF Clusters
    <2> HIDE DEF q
    <2>3. q >= 0
      BY <2>1, <2>2, Geometry, SMT
    <2>4. q < FatSectors
      <3>1. SUFFICES ASSUME q >= FatSectors PROVE FALSE
        BY <2>1, Geometry
      <3>2. SectorEntries * q >= SectorEntries * FatSectors
        BY <2>1, <3>1, Geometry, SMT
      <3> QED BY <2>1, <2>2, <3>2, Geometry, SMT
    <2> QED BY <2>1, <2>3, <2>4, Geometry DEF q
  <1>3. ASSUME NEW c \in Clusters, NEW d \in Clusters, c <= d
        PROVE  c \div SectorEntries <= d \div SectorEntries
    <2> DEFINE q == c \div SectorEntries
               p == d \div SectorEntries
    <2>1. PICK r \in 0..(SectorEntries - 1) : q \in Int /\ c = SectorEntries * q + r
      BY <1>1
    <2>2. PICK t \in 0..(SectorEntries - 1) : p \in Int /\ d = SectorEntries * p + t
      BY <1>1
    <2> HIDE DEF p, q
    <2>3. SUFFICES ASSUME q >= p + 1 PROVE FALSE
      BY <2>1, <2>2 DEF p, q
    <2>4. SectorEntries * q >= SectorEntries * (p + 1)
      BY <2>1, <2>2, <2>3, Geometry, SMT
    <2>5. SectorEntries * (p + 1) = SectorEntries * p + SectorEntries
      BY <2>2, Geometry, SMT
    <2> QED BY <1>3, <2>1, <2>2, <2>4, <2>5, Geometry, SMT
  <1> QED BY <1>2, <1>3

\* The search finds the lowest free cluster, or none.
LEMMA LowestFree ==
    ASSUME NEW table \in Table, NEW from \in Nat
    PROVE  \/ FreeCluster(table, from) = 0
           \/ \E m \in Clusters :
                /\ m >= from /\ table[m] = 0
                /\ \A n \in Clusters : n >= from /\ n < m => table[n] # 0
                /\ FreeCluster(table, from) = m % Word16
  <1> DEFINE free == {n \in Clusters : n >= from /\ table[n] = 0}
  <1>1. CASE free = {}
    BY <1>1 DEF FreeCluster
  <1>2. CASE free # {}
    <2>1. free \in SUBSET Nat
      BY Geometry
    <2>2. Min(free) \in free /\ \A y \in free : Min(free) <= y
      <3> HIDE DEF free
      <3> QED BY <1>2, <2>1, LeastOf
    <2>3. FreeCluster(table, from) = Min(free) % Word16
      BY <1>2 DEF FreeCluster
    <2>4. \A n \in Clusters : n >= from /\ n < Min(free) => table[n] # 0
      BY <2>1, <2>2, Geometry
    <2> QED BY <2>2, <2>3, <2>4
  <1> QED BY <1>1, <1>2

\* The entry e has its file on a disk with these tables and these data.
Stored(e, tables, sectors) ==
    /\ Extent(e) \subseteq Clusters
    /\ \A c \in Extent(e) : \A copy \in Copies :
         tables[copy][c] = IF c = e.FstClus + DataCount(e.file) THEN EndMark ELSE c + 1
    /\ \A k \in 0..(DataCount(e.file) - 1) :
         sectors[e.FstClus + k] = SectorOf(e.file, k)

LEMMA IntactIsStored ==
    ListedIntact <=> \A n \in Listed : Stored(rootdir[n], fat, data)
  BY DEF ListedIntact, Stored

\* What is outside its clusters does not matter to a file.
LEMMA StoredElsewhere ==
    ASSUME NEW e \in Entry, e # NoEntry, NEW tables, NEW sectors, NEW tables2, NEW sectors2,
           Stored(e, tables, sectors),
           \A c \in Extent(e) : /\ \A copy \in Copies : tables2[copy][c] = tables[copy][c]
                                /\ sectors2[c] = sectors[c]
    PROVE  Stored(e, tables2, sectors2)
  <1>1. e.file \in Files /\ e.FstClus \in Nat
    BY Geometry DEF Entry
  <1>2. DataCount(e.file) \in Nat \ {0}
    BY <1>1, AtLeastOne
  <1>3. \A k \in 0..(DataCount(e.file) - 1) : e.FstClus + k \in Extent(e)
    BY <1>1, <1>2 DEF Extent
  <1> QED BY <1>3 DEF Stored

\* The clusters of listed files are in use.
LEMMA ListedInUse ==
    ASSUME TypeOK, ListedAbove, ListedIntact, NEW n \in Listed, NEW c \in Extent(rootdir[n])
    PROVE  c \in Clusters /\ c >= 2 /\ fat["fat0"][c] # 0
  <1>1. rootdir[n] \in Entry /\ rootdir[n] # NoEntry
    BY DEF TypeOK, Listed
  <1>2. rootdir[n].file \in Files /\ rootdir[n].FstClus \in Clusters
    BY <1>1 DEF Entry
  <1>3. Stored(rootdir[n], fat, data)
    BY IntactIsStored
  <1>4. c \in Clusters /\ c \in Nat
    BY <1>3, Geometry DEF Stored
  <1>5. c >= 2
    <2>1. rootdir[n].FstClus >= 2 /\ rootdir[n].FstClus \in Nat
      BY <1>2, Geometry DEF ListedAbove
    <2>2. DataCount(rootdir[n].file) \in Nat
      BY <1>2, AtLeastOne
    <2>3. c \in rootdir[n].FstClus..(rootdir[n].FstClus + DataCount(rootdir[n].file))
      BY DEF Extent
    <2> QED BY <2>1, <2>2, <2>3
  <1>6. fat["fat0"][c] = EndMark \/ fat["fat0"][c] = c + 1
    BY <1>3 DEF Stored, Copies
  <1> QED BY <1>4, <1>5, <1>6, Geometry
-----------------------------------------------------------------------------
LEMMA FatInit == Init => FatInv
  <1> SUFFICES ASSUME Init PROVE FatInv
    OBVIOUS
  <1>1. Listed = {}
    BY DEF Init, NoDir, Listed
  <1>2. ZeroFat \in Table
    BY Geometry DEF ZeroFat, Table
  <1>3. NoDir \in [1..DirEntries -> Entry]
    BY DEF NoDir, Entry
  <1>4. TypeOK
    <2>1. fat \in [Copies -> Table] /\ fat_buffer \in Table
      BY <1>2 DEF Init
    <2>2. data \in [Clusters -> (Files \X Nat) \cup {<<Garbage, 0>>}]
      BY DEF Init
    <2>3. rootdir \in [1..DirEntries -> Entry] /\ rootdir_buffer \in [1..DirEntries -> Entry]
      BY <1>3 DEF Init
    <2>4. sector \in 0..(FatSectors - 1) /\ cluster \in Clusters /\ i \in Nat
      BY Geometry DEF Init
    <2>5. /\ pc \in {"idle", "data", "write"} /\ area \in 1..3
          /\ input \in Files \cup {Garbage}
          /\ result \in {"none", "added", "refused", "killed"}
      BY DEF Init
    <2>6. killed \in BOOLEAN
      BY Zenon DEF Init
    <2> QED BY <2>1, <2>2, <2>3, <2>4, <2>5, <2>6 DEF TypeOK
  <1>5. UsedFirst
    BY Geometry DEF Init, UsedFirst, ZeroFat, Copies
  <1> QED BY <1>1, <1>4, <1>5
       DEF Init, FatInv, Quiet, Writing, Closing, ListedAbove, ListedIntact,
           ExtentsDisjoint, CopiesAgree

\* Whenever fd leaves, what is on the disk stays as it is.
LEMMA ExitKeeps ==
    ASSUME FatInv, NEW outcome \in {"refused", "killed"}, Exit(outcome),
           UNCHANGED <<fat, rootdir>>, data' \in [Clusters -> (Files \X Nat) \cup {<<Garbage, 0>>}],
           \A n \in Listed : \A c \in Extent(rootdir[n]) : data'[c] = data[c],
           input' \in Files \cup {Garbage}, killed' \in BOOLEAN
    PROVE  FatInv'
  <1>1. ZeroFat \in Table
    BY Geometry DEF ZeroFat, Table
  <1>2. NoDir \in [1..DirEntries -> Entry]
    BY DEF NoDir, Entry
  <1>3. TypeOK'
    BY <1>1, <1>2, Geometry DEF FatInv, TypeOK, Exit
  <1>4. Listed' = Listed
    BY DEF Listed
  <1>5. \A n \in Listed : Stored(rootdir[n], fat, data')
    <2> SUFFICES ASSUME NEW n \in Listed PROVE Stored(rootdir[n], fat, data')
      OBVIOUS
    <2>1. rootdir[n] \in Entry /\ rootdir[n] # NoEntry
      BY DEF FatInv, TypeOK, Listed
    <2>2. Stored(rootdir[n], fat, data)
      BY IntactIsStored DEF FatInv
    <2> QED BY <2>1, <2>2, StoredElsewhere
  <1>6. ListedIntact'
    BY <1>4, <1>5 DEF ListedIntact, Stored
  <1>7. UsedFirst' /\ ListedAbove' /\ ExtentsDisjoint'
    BY <1>4 DEF FatInv, UsedFirst, ListedAbove, ExtentsDisjoint
  <1> QED BY <1>3, <1>6, <1>7 DEF FatInv, Exit, Quiet, Writing, Closing, CopiesAgree

\* fd begins: the cluster it finds is the lowest free one, with every cluster
\* of a listed file below it.
LEMMA StartKeeps ==
    ASSUME Numbered, FatInv, NEW f \in Files, Start(f)
    PROVE  FatInv'
  <1> DEFINE table == [fat["fat0"] EXCEPT ![0] = Media, ![1] = EndMark]
             start == get_cluster(table)
  <1>1. pc = "idle" /\ area = 1 /\ sector = 0 /\ cluster = 0 /\ i = 0
    BY DEF Start, FatInv, Quiet
  <1>2. CASE Refuse(f)
    <2>1. Exit("refused") /\ UNCHANGED <<fat, rootdir, data, killed>> /\ input' = f
      BY <1>2 DEF Refuse, disk
    <2> QED BY <2>1, ExitKeeps DEF FatInv, TypeOK
  <1>3. CASE ~ Refuse(f)
    <2>1. /\ start # 0 /\ FreeEntries # {}
          /\ pc' = "data" /\ input' = f /\ result' = "none"
          /\ fat_buffer' = table
          /\ rootdir_buffer' = [rootdir EXCEPT ![Min(FreeEntries)] =
                                  [file |-> f, FstClus |-> start]]
          /\ cluster' = start
          /\ UNCHANGED <<fat, rootdir, data, area, sector, killed, i>>
      BY <1>3 DEF Start, disk
    <2>2. fat["fat0"] \in Table
      BY DEF FatInv, TypeOK, Copies
    <2>3. table \in Table /\ \A c \in Clusters : c >= 2 => table[c] = fat["fat0"][c]
      BY <2>2, Geometry DEF Table
    <2> HIDE DEF table
    <2>4. PICK m \in Clusters :
             /\ m >= 2 /\ table[m] = 0
             /\ \A n \in Clusters : n >= 2 /\ n < m => table[n] # 0
             /\ start = m % Word16
      BY <2>1, <2>3, LowestFree DEF get_cluster
    <2>5. m \in Nat /\ m <= DataSectors + 2
      <3>1. m \in Nat
        BY <2>4, Geometry
      <3>2. CASE m = 2
        BY <3>2, Geometry DEF Numbered
      <3>3. CASE m > 2
        <4>1. m - 1 \in Clusters /\ m - 1 >= 2
          BY <2>4, <3>1, <3>3, Geometry DEF Clusters
        <4>2. fat["fat0"][m - 1] # 0
          BY <2>3, <2>4, <3>1, <4>1
        <4>3. m - 1 < DataSectors + 2
          BY <4>1, <4>2 DEF FatInv, UsedFirst
        <4> QED BY <3>1, <4>3, Geometry DEF Numbered
      <3> QED BY <2>4, <3>1, <3>2, <3>3
    <2>6. start = m
      <3>1. m < Word16
        BY <2>5, Geometry DEF Numbered
      <3> HIDE DEF start
      <3> QED BY <2>4, <2>5, <3>1, Geometry, SMT
    <2>7. \A c \in Clusters : c >= m => fat["fat0"][c] = 0
      <3> SUFFICES ASSUME NEW c \in Clusters, c >= m, fat["fat0"][c] # 0 PROVE FALSE
        OBVIOUS
      <3>1. c >= 2
        BY <2>4, <2>5, Geometry
      <3>2. fat["fat0"][m] # 0
        BY <2>4, <3>1 DEF FatInv, UsedFirst
      <3> QED BY <2>3, <2>4, <3>2
    <2>8. \A n \in Listed : \A c \in Extent(rootdir[n]) : c < m
      <3> SUFFICES ASSUME NEW n \in Listed, NEW c \in Extent(rootdir[n]) PROVE c < m
        OBVIOUS
      <3>1. c \in Clusters /\ fat["fat0"][c] # 0
        BY ListedInUse DEF FatInv
      <3> QED BY <2>5, <2>7, <3>1, Geometry DEF Numbered
    <2> HIDE DEF start
    <2>9. PICK n \in FreeEntries : n = Min(FreeEntries)
      <3>1. FreeEntries \in SUBSET Nat
        BY Geometry DEF FreeEntries
      <3> QED BY <2>1, <3>1, LeastOf
    <2>10. n \in 1..DirEntries /\ rootdir[n] = NoEntry
      BY DEF FreeEntries
    <2>11. First' = m
      BY <1>1, <2>1, <2>5, <2>6 DEF First
    <2>12. TypeOK'
      <3>1. [file |-> f, FstClus |-> start] \in Entry
        BY <2>4, <2>6 DEF Entry
      <3>2. rootdir_buffer' \in [1..DirEntries -> Entry]
        BY <2>1, <3>1 DEF FatInv, TypeOK
      <3>3. fat_buffer' \in Table /\ cluster' \in Clusters
        BY <2>1, <2>3, <2>4, <2>6
      <3> QED BY <2>1, <3>2, <3>3 DEF FatInv, TypeOK
    <2>13. Listed' = Listed
      BY <2>1 DEF Listed
    <2>14. Chained'
      <3>1. \A c \in Clusters :
             /\ c >= 2 /\ c < m => table[c] = fat["fat0"][c] /\ table[c] # 0
             /\ c > m => table[c] = 0
        BY <2>3, <2>4, <2>5, <2>7, Geometry
      <3>2. i' <= DataCount(input') /\ 0..(i' - 1) = {}
        BY <1>1, <2>1, AtLeastOne
      <3>3. \A c \in Clusters : ~ (c >= m /\ c < m)
        BY <2>5, Geometry
      <3>4. \A k \in Listed' : \A c \in Extent(rootdir'[k]) : c < First'
        BY <2>1, <2>8, <2>11, <2>13
      <3> QED BY <2>1, <2>4, <2>6, <2>11, <3>1, <3>2, <3>3, <3>4 DEF Chained
    <2>15. EntryMade'
      BY <2>1, <2>6, <2>9, <2>10, <2>11 DEF EntryMade
    <2>16. Writing'
      BY <1>1, <2>1, <2>4, <2>6, <2>7, <2>11, <2>14, <2>15 DEF Writing
    <2>17. UsedFirst' /\ ListedAbove' /\ ListedIntact' /\ ExtentsDisjoint'
      BY <2>1, <2>13 DEF FatInv, UsedFirst, ListedAbove, ListedIntact, ExtentsDisjoint
    <2> QED BY <2>1, <2>12, <2>16, <2>17 DEF FatInv, Quiet, Closing, CopiesAgree
  <1> QED BY <1>2, <1>3

\* The cluster linked next is the one after the last.
LEMMA LinkIsNext ==
    ASSUME Numbered, WithinArea, TypeOK, Chained
    PROVE  \/ link_cluster(fat_buffer, cluster) = 0
           \/ /\ link_cluster(fat_buffer, cluster) = cluster + 1
              /\ cluster + 1 \in Clusters
  <1> DEFINE next == link_cluster(fat_buffer, cluster)
  <1>1. cluster \in Nat /\ cluster + 1 < Word16
    BY Geometry DEF TypeOK, Numbered, WithinArea
  <1>2. (cluster + 1) % Word16 = cluster + 1
    BY <1>1, Geometry, SMT
  <1>3. next = FreeCluster(fat_buffer, cluster + 1)
    BY <1>2 DEF link_cluster
  <1> HIDE DEF next
  <1>4. CASE next # 0
    <2>1. fat_buffer \in Table /\ cluster + 1 \in Nat
      BY <1>1 DEF TypeOK
    <2>2. PICK m \in Clusters :
             /\ m >= cluster + 1
             /\ \A n \in Clusters : n >= cluster + 1 /\ n < m => fat_buffer[n] # 0
             /\ next = m % Word16
      BY <1>3, <1>4, <2>1, LowestFree
    <2>3. cluster + 1 \in Clusters
      BY <1>1, <2>2, Geometry DEF Clusters
    <2>4. fat_buffer[cluster + 1] = 0
      BY <1>1, <2>3 DEF Chained
    <2>5. m = cluster + 1
      BY <1>1, <2>2, <2>3, <2>4, Geometry
    <2> QED BY <1>2, <2>2, <2>3, <2>5 DEF next
  <1> QED BY <1>4 DEF next

\* Where the chain in memory begins and ends, as numbers.
LEMMA ChainNumbers ==
    ASSUME TypeOK, Chained
    PROVE  /\ cluster \in Nat /\ i \in Nat /\ First \in Nat /\ cluster = First + i
           /\ DataCount(input) \in Nat \ {0}
  BY Geometry, AtLeastOne DEF TypeOK, Chained, First

\* A sector written is one that no listed file has.
LEMMA WriteDataKeeps ==
    ASSUME Numbered, WithinArea, FatInv, WriteData
    PROVE  FatInv'
  <1> DEFINE next == link_cluster(fat_buffer, cluster)
  <1>1. /\ pc = "data" /\ Chained /\ EntryMade /\ i < DataCount(input)
        /\ area = 1 /\ sector = 0 /\ fat_buffer[cluster] = 0
        /\ \A c \in Clusters : c >= First => fat["fat0"][c] = 0
        /\ TypeOK
    BY DEF WriteData, FatInv, Writing
  <1>2. /\ cluster \in Nat /\ i \in Nat /\ First \in Nat /\ cluster = First + i
        /\ DataCount(input) \in Nat \ {0}
    BY <1>1, ChainNumbers
  <1>3. /\ data' = [data EXCEPT ![cluster] = SectorOf(input, i)]
        /\ UNCHANGED <<fat, rootdir, input, killed>>
    BY DEF WriteData
  <1>4. \A n \in Listed : \A c \in Extent(rootdir[n]) : data'[c] = data[c]
    <2> SUFFICES ASSUME NEW n \in Listed, NEW c \in Extent(rootdir[n])
                 PROVE  data'[c] = data[c]
      OBVIOUS
    <2>1. c \in Clusters /\ c < First
      BY <1>1, ListedInUse DEF FatInv, Chained
    <2>2. c # cluster
      BY <1>2, <2>1, Geometry
    <2> QED BY <1>1, <1>3, <2>1, <2>2 DEF TypeOK
  <1>5. SectorOf(input, i) \in (Files \X Nat) \cup {<<Garbage, 0>>}
    BY <1>1, <1>2 DEF SectorOf, Chained
  <1>6. data' \in [Clusters -> (Files \X Nat) \cup {<<Garbage, 0>>}]
    BY <1>1, <1>3, <1>5 DEF TypeOK
  <1>7. Listed' = Listed
    BY <1>3 DEF Listed
  <1>8. CASE Exit("refused")
    BY <1>1, <1>3, <1>4, <1>6, <1>8, ExitKeeps DEF TypeOK
  <1>9. CASE ~ Exit("refused")
    <2>1. /\ next # 0
          /\ fat_buffer' = [fat_buffer EXCEPT ![cluster] = next]
          /\ cluster' = next /\ i' = i + 1
          /\ UNCHANGED <<pc, area, sector, result, rootdir_buffer>>
      BY <1>9 DEF WriteData
    <2>2. next = cluster + 1 /\ cluster + 1 \in Clusters
      BY <1>1, <2>1, LinkIsNext
    <2> HIDE DEF next
    <2>3. First' = First
      BY <1>2, <2>1, <2>2 DEF First
    <2>4. cluster + 1 \in 0..(Word16 - 1)
      BY <1>2, Geometry DEF WithinArea, Numbered
    <2>5. fat_buffer' \in Table
      BY <1>1, <2>1, <2>2, <2>4 DEF TypeOK, Table
    <2>6. TypeOK'
      BY <1>1, <1>2, <1>3, <1>6, <2>1, <2>2, <2>5 DEF TypeOK
    <2>7. fat_buffer'[cluster] = cluster + 1
          /\ \A c \in Clusters : c # cluster => fat_buffer'[c] = fat_buffer[c]
      BY <1>1, <2>1, <2>2 DEF TypeOK, Table
    <2>8. \A c \in Clusters :
           /\ c >= 2 /\ c < First => fat_buffer'[c] = fat["fat0"][c] /\ fat_buffer'[c] # 0
           /\ c >= First /\ c < cluster + 1 => fat_buffer'[c] = c + 1
           /\ c > cluster + 1 => fat_buffer'[c] = 0
      BY <1>1, <1>2, <2>7, Geometry DEF Chained
    <2>9. \A k \in 0..i : data'[First + k] = SectorOf(input, k)
      <3> SUFFICES ASSUME NEW k \in 0..i PROVE data'[First + k] = SectorOf(input, k)
        OBVIOUS
      <3>1. CASE k = i
        BY <1>1, <1>2, <1>3, <3>1 DEF TypeOK
      <3>2. CASE k # i
        <4>1. k \in 0..(i - 1) /\ First + k # cluster
          BY <1>2, <3>2
        <4>2. First + k \in Clusters
          <5>1. cluster \in Clusters /\ First + k \in Nat /\ First + k < cluster
            BY <1>1, <1>2, <4>1 DEF TypeOK
          <5> QED BY <5>1, Geometry DEF Clusters
        <4>3. data'[First + k] = data[First + k]
          BY <1>1, <1>3, <4>1, <4>2 DEF TypeOK
        <4> QED BY <1>1, <4>1, <4>3 DEF Chained
      <3> QED BY <3>1, <3>2
    <2>10. Chained'
      <3>1. i' <= DataCount(input') /\ i' - 1 = i
        BY <1>1, <1>2, <1>3, <2>1
      <3>2. \A n \in Listed' : \A c \in Extent(rootdir'[n]) : c < First'
        BY <1>1, <1>3, <1>7, <2>3 DEF Chained
      <3>3. input' \in Files /\ First' \in Clusters /\ First' >= 2
        BY <1>1, <1>3, <2>3 DEF Chained
      <3> QED BY <1>3, <2>1, <2>2, <2>3, <2>8, <2>9, <3>1, <3>2, <3>3 DEF Chained
    <2>11. EntryMade'
      BY <1>1, <1>3, <2>1, <2>3 DEF EntryMade
    <2>12. fat_buffer'[cluster'] = 0
      BY <1>1, <1>2, <2>1, <2>2, <2>7, Geometry DEF Chained
    <2>13. Writing'
      BY <1>1, <1>3, <2>1, <2>3, <2>10, <2>11, <2>12 DEF Writing
    <2>14. ListedIntact'
      <3>1. \A n \in Listed : Stored(rootdir[n], fat, data')
        <4> SUFFICES ASSUME NEW n \in Listed PROVE Stored(rootdir[n], fat, data')
          OBVIOUS
        <4>1. rootdir[n] \in Entry /\ rootdir[n] # NoEntry
          BY <1>1 DEF TypeOK, Listed
        <4>2. Stored(rootdir[n], fat, data)
          BY IntactIsStored DEF FatInv
        <4> QED BY <1>4, <4>1, <4>2, StoredElsewhere
      <3> QED BY <1>3, <1>7, <3>1 DEF ListedIntact, Stored
    <2>15. UsedFirst' /\ ListedAbove' /\ ExtentsDisjoint'
      BY <1>3, <1>7 DEF FatInv, UsedFirst, ListedAbove, ExtentsDisjoint
    <2> QED BY <1>1, <2>1, <2>6, <2>13, <2>14, <2>15
         DEF FatInv, Quiet, Closing, CopiesAgree
  <1> QED BY <1>8, <1>9

LEMMA EndChainKeeps ==
    ASSUME FatInv, EndChain
    PROVE  FatInv'
  <1>1. /\ pc = "data" /\ Chained /\ EntryMade /\ i = DataCount(input)
        /\ area = 1 /\ sector = 0
        /\ \A c \in Clusters : c >= First => fat["fat0"][c] = 0
        /\ TypeOK
    BY DEF EndChain, FatInv, Writing
  <1>2. /\ fat_buffer' = [fat_buffer EXCEPT ![cluster] = EndMark]
        /\ pc' = "write"
        /\ UNCHANGED <<fat, rootdir, data, area, sector, input, result, killed,
                       rootdir_buffer, cluster, i>>
    BY DEF EndChain, disk
  <1>3. /\ cluster \in Nat /\ i \in Nat /\ First \in Nat /\ cluster = First + i
        /\ DataCount(input) \in Nat \ {0}
    BY <1>1, ChainNumbers
  <1>4. fat_buffer' \in Table
    BY <1>1, <1>2, Geometry DEF TypeOK, Table
  <1>5. TypeOK'
    BY <1>1, <1>2, <1>4 DEF TypeOK
  <1>6. /\ fat_buffer'[cluster] = EndMark
        /\ \A c \in Clusters : c # cluster => fat_buffer'[c] = fat_buffer[c]
    BY <1>1, <1>2 DEF TypeOK, Table
  <1>7. First' = First /\ Listed' = Listed
    BY <1>2 DEF First, Listed
  <1>8. Chained'
    <2>1. \A c \in Clusters :
           /\ c >= 2 /\ c < First => fat_buffer'[c] = fat["fat0"][c] /\ fat_buffer'[c] # 0
           /\ c >= First /\ c < cluster => fat_buffer'[c] = c + 1
           /\ c > cluster => fat_buffer'[c] = 0
      <3> SUFFICES ASSUME NEW c \in Clusters
                   PROVE  /\ c >= 2 /\ c < First => fat_buffer'[c] = fat["fat0"][c]
                                                   /\ fat_buffer'[c] # 0
                          /\ c >= First /\ c < cluster => fat_buffer'[c] = c + 1
                          /\ c > cluster => fat_buffer'[c] = 0
        OBVIOUS
      <3>1. c \in Nat
        BY Geometry
      <3>2. CASE c = cluster
        BY <1>3, <3>2
      <3>3. CASE c # cluster
        BY <1>1, <1>6, <3>3 DEF Chained
      <3> QED BY <3>2, <3>3
    <2>2. \A n \in Listed' : \A c \in Extent(rootdir'[n]) : c < First'
      BY <1>1, <1>2, <1>7 DEF Chained
    <2> QED BY <1>1, <1>2, <1>7, <2>1, <2>2 DEF Chained
  <1>9. EntryMade'
    BY <1>1, <1>2, <1>7 DEF EntryMade
  <1>10. Closing'
    <2>1. \A c \in Clusters : ~ InFat0(c)' /\ ~ InFat1(c)'
      BY <1>1, <1>2, SectorsInOrder DEF InFat0, InFat1
    <2> QED BY <1>1, <1>2, <1>6, <1>7, <1>8, <1>9, <2>1 DEF Closing
  <1>11. UsedFirst' /\ ListedAbove' /\ ListedIntact' /\ ExtentsDisjoint'
    BY <1>2, <1>7 DEF FatInv, UsedFirst, ListedAbove, ListedIntact, ExtentsDisjoint
  <1> QED BY <1>2, <1>5, <1>10, <1>11 DEF FatInv, Quiet, Writing, CopiesAgree

\* What a sector of the FAT brings to the disk.
LEMMA WriteFatEffect ==
    ASSUME FatInv, WriteFat
    PROVE  /\ area \in {1, 2} /\ pc = "write"
           /\ UNCHANGED <<rootdir, data, input, killed, pc, result, fat_buffer,
                          rootdir_buffer, cluster, i>>
           /\ area = 1 => /\ fat'["fat1"] = fat["fat1"]
                          /\ fat'["fat0"] = Overlay(fat["fat0"], fat_buffer, sector)
           /\ area = 2 => /\ fat'["fat0"] = fat["fat0"]
                          /\ fat'["fat1"] = Overlay(fat["fat1"], fat_buffer, sector)
           /\ area' \in 1..3 /\ sector' \in 0..(FatSectors - 1)
           /\ \A c \in Clusters :
                /\ area = 1 => /\ InFat0(c)' <=> c \div SectorEntries <= sector
                               /\ ~ InFat1(c)'
                /\ area = 2 => /\ InFat0(c)'
                               /\ InFat1(c)' <=> c \div SectorEntries <= sector
           /\ fat' \in [Copies -> Table]
  <1>1. /\ pc = "write" /\ WriteOrder[area] \in Copies
        /\ fat' = [fat EXCEPT ![WriteOrder[area]] = Overlay(@, fat_buffer, sector)]
        /\ IF sector + 1 < FatSectors
           THEN sector' = sector + 1 /\ UNCHANGED <<pc, area, result, buffers>>
           ELSE AreaDone
        /\ UNCHANGED <<rootdir, data, input, killed>>
    BY DEF WriteFat
  <1>2. TypeOK
    BY DEF FatInv
  <1>3. area \in {1, 2} /\ WriteOrder[1] = "fat0" /\ WriteOrder[2] = "fat1"
    BY <1>1, <1>2 DEF TypeOK, WriteOrder, Copies
  <1>4. \/ /\ sector + 1 < FatSectors /\ sector' = sector + 1 /\ area' = area
           /\ UNCHANGED <<pc, result, fat_buffer, rootdir_buffer, cluster, i>>
        \/ /\ sector = FatSectors - 1 /\ sector' = 0 /\ area' = area + 1
           /\ UNCHANGED <<pc, result, fat_buffer, rootdir_buffer, cluster, i>>
    <2>1. sector \in 0..(FatSectors - 1) /\ area # Len(WriteOrder)
      BY <1>2, <1>3 DEF TypeOK, WriteOrder
    <2>2. CASE sector + 1 < FatSectors
      BY <1>1, <2>2 DEF buffers
    <2>3. CASE ~ (sector + 1 < FatSectors)
      BY <1>1, <2>1, <2>3, Geometry DEF AreaDone, buffers
    <2> QED BY <2>2, <2>3
  <1>5. \A c \in Clusters :
          /\ area = 1 => /\ InFat0(c)' <=> c \div SectorEntries <= sector
                         /\ ~ InFat1(c)'
          /\ area = 2 => /\ InFat0(c)'
                         /\ InFat1(c)' <=> c \div SectorEntries <= sector
    <2> SUFFICES ASSUME NEW c \in Clusters
                 PROVE  /\ area = 1 => /\ InFat0(c)' <=> c \div SectorEntries <= sector
                                       /\ ~ InFat1(c)'
                        /\ area = 2 => /\ InFat0(c)'
                                       /\ InFat1(c)' <=> c \div SectorEntries <= sector
      OBVIOUS
    <2> DEFINE q == c \div SectorEntries
    <2>1. q \in 0..(FatSectors - 1)
      BY SectorsInOrder
    <2>2. InFat0(c)' <=> (area' > 1 \/ q < sector')
      BY DEF InFat0
    <2>3. InFat1(c)' <=> (area' = 3 \/ (area' = 2 /\ q < sector'))
      BY DEF InFat1
    <2> HIDE DEF q
    <2>4. sector \in 0..(FatSectors - 1)
      BY <1>2 DEF TypeOK
    <2>5. /\ area = 1 => /\ InFat0(c)' <=> q <= sector
                         /\ ~ InFat1(c)'
          /\ area = 2 => /\ InFat0(c)'
                         /\ InFat1(c)' <=> q <= sector
      BY <1>3, <1>4, <2>1, <2>2, <2>3, <2>4, Geometry
    <2> QED BY <2>5 DEF q
  <1>6. Overlay(fat["fat0"], fat_buffer, sector) \in Table
        /\ Overlay(fat["fat1"], fat_buffer, sector) \in Table
    BY <1>2 DEF Overlay, Table, TypeOK, Copies
  <1>7. fat' \in [Copies -> Table]
    BY <1>1, <1>2, <1>3, <1>6 DEF TypeOK, Copies
  <1>8. /\ area = 1 => /\ fat'["fat1"] = fat["fat1"]
                       /\ fat'["fat0"] = Overlay(fat["fat0"], fat_buffer, sector)
        /\ area = 2 => /\ fat'["fat0"] = fat["fat0"]
                       /\ fat'["fat1"] = Overlay(fat["fat1"], fat_buffer, sector)
    BY <1>1, <1>2, <1>3 DEF TypeOK, Copies
  <1>9. area' \in 1..3 /\ sector' \in 0..(FatSectors - 1)
    BY <1>2, <1>3, <1>4, Geometry DEF TypeOK
  <1>10. UNCHANGED <<pc, result, fat_buffer, rootdir_buffer, cluster, i>>
    BY <1>4
  <1> QED BY <1>1, <1>3, <1>5, <1>7, <1>8, <1>9, <1>10

\* Sectors of the FAT that reach the disk extend the part in use at its end.
LEMMA WriteFatKeeps ==
    ASSUME Numbered, WithinArea, FatInv, WriteFat
    PROVE  FatInv'
  <1> DEFINE S(c) == c \div SectorEntries
  <1>1. /\ pc = "write" /\ Chained /\ EntryMade
        /\ i = DataCount(input) /\ fat_buffer[cluster] = EndMark
        /\ \A c \in Clusters :
             /\ InFat0(c) => fat["fat0"][c] = fat_buffer[c]
             /\ ~ InFat0(c) /\ c >= First => fat["fat0"][c] = 0
             /\ InFat1(c) => fat["fat1"][c] = fat_buffer[c]
        /\ TypeOK
    BY WriteFatEffect DEF FatInv, Closing
  <1>2. /\ cluster \in Nat /\ i \in Nat /\ First \in Nat /\ cluster = First + i
        /\ DataCount(input) \in Nat \ {0}
    BY <1>1, ChainNumbers
  <1>3. /\ area \in {1, 2}
        /\ UNCHANGED <<rootdir, data, input, killed, pc, result, fat_buffer,
                       rootdir_buffer, cluster, i>>
    BY WriteFatEffect
  <1>4. First' = First /\ Listed' = Listed
    BY <1>3 DEF First, Listed
  <1>5. TypeOK'
    BY <1>1, <1>3, WriteFatEffect DEF TypeOK
  <1>6. \A c \in Clusters : S(c) \in Nat
    BY SectorsInOrder
  <1>7. sector \in Nat
    BY <1>1 DEF TypeOK
  <1>8. \A c \in Clusters :
          /\ area = 1 => /\ fat'["fat0"][c] = IF S(c) = sector THEN fat_buffer[c]
                                              ELSE fat["fat0"][c]
                         /\ fat'["fat1"][c] = fat["fat1"][c]
          /\ area = 2 => /\ fat'["fat1"][c] = IF S(c) = sector THEN fat_buffer[c]
                                              ELSE fat["fat1"][c]
                         /\ fat'["fat0"][c] = fat["fat0"][c]
    BY WriteFatEffect DEF Overlay
  <1> HIDE DEF S
  <1>9. \A c \in Clusters : /\ InFat0(c) <=> (area > 1 \/ S(c) < sector)
                            /\ InFat1(c) <=> (area = 3 \/ (area = 2 /\ S(c) < sector))
    BY DEF InFat0, InFat1, S
  <1>10. \A c \in Clusters :
           /\ area = 1 => /\ InFat0(c)' <=> S(c) <= sector
                          /\ ~ InFat1(c)'
           /\ area = 2 => /\ InFat0(c)'
                          /\ InFat1(c)' <=> S(c) <= sector
    BY WriteFatEffect DEF S
  <1>11. \A c, d \in Clusters : c <= d => S(c) <= S(d)
    BY SectorsInOrder DEF S
  <1>12. \A c \in Clusters : c >= 2 /\ c < First => fat'["fat0"][c] = fat_buffer[c]
    BY <1>1, <1>3, <1>8 DEF Chained
  <1>13. \A c \in Clusters :
           /\ InFat0(c)' => fat'["fat0"][c] = fat_buffer[c]
           /\ ~ InFat0(c)' /\ c >= First => fat'["fat0"][c] = 0
           /\ InFat1(c)' => fat'["fat1"][c] = fat_buffer[c]
    <2> SUFFICES ASSUME NEW c \in Clusters
                 PROVE  /\ InFat0(c)' => fat'["fat0"][c] = fat_buffer[c]
                        /\ ~ InFat0(c)' /\ c >= First => fat'["fat0"][c] = 0
                        /\ InFat1(c)' => fat'["fat1"][c] = fat_buffer[c]
      OBVIOUS
    <2>1. S(c) \in Nat /\ sector \in Nat
      BY <1>6, <1>7
    <2>2. CASE area = 1
      BY <1>1, <1>8, <1>9, <1>10, <2>1, <2>2
    <2>3. CASE area = 2
      BY <1>1, <1>8, <1>9, <1>10, <2>1, <2>3
    <2> QED BY <1>3, <2>2, <2>3
  <1>14. \A c \in Clusters : c >= First /\ c <= cluster => fat_buffer[c] # 0
    <2> SUFFICES ASSUME NEW c \in Clusters, c >= First, c <= cluster PROVE fat_buffer[c] # 0
      OBVIOUS
    <2>1. c \in Nat
      BY Geometry
    <2>2. CASE c = cluster
      BY <1>1, <2>2, Geometry
    <2>3. CASE c < cluster
      BY <1>1, <2>1, <2>3 DEF Chained
    <2> QED BY <1>2, <2>1, <2>2, <2>3
  <1>15. UsedFirst'
    <2>1. ASSUME NEW c \in Clusters, c >= 2, fat'["fat0"][c] # 0
          PROVE  c <= cluster
      <3>1. c \in Nat
        BY Geometry
      <3>2. SUFFICES ASSUME c > cluster PROVE FALSE
        BY <1>2, <3>1
      <3>3. fat_buffer[c] = 0 /\ c >= First
        BY <1>1, <1>2, <3>1, <3>2 DEF Chained
      <3> QED BY <1>13, <2>1, <3>3
    <2>2. ASSUME NEW c \in Clusters, c >= 2, fat'["fat0"][c] # 0,
                 NEW d \in Clusters, d >= 2, d <= c
          PROVE  fat'["fat0"][d] # 0
      <3>1. c \in Nat /\ d \in Nat /\ c <= cluster
        BY <2>1, <2>2, Geometry
      <3>2. CASE d < First
        BY <1>1, <1>12, <2>2, <3>2 DEF Chained
      <3>3. CASE d >= First
        <4>1. c >= First /\ d <= cluster
          BY <1>2, <2>2, <3>1, <3>3
        <4>2. InFat0(c)'
          BY <1>13, <2>2, <4>1
        <4>3. InFat0(d)'
          <5>1. S(d) <= S(c) /\ S(c) \in Nat /\ S(d) \in Nat
            BY <1>6, <1>11, <2>2
          <5> QED BY <1>3, <1>7, <1>10, <4>2, <5>1
        <4> QED BY <1>13, <1>14, <3>3, <4>1, <4>3
      <3> QED BY <1>2, <3>1, <3>2, <3>3
    <2>3. \A c \in Clusters : c <= cluster => c < DataSectors + 2
      BY <1>2, Geometry DEF WithinArea, Numbered
    <2> QED BY <2>1, <2>2, <2>3 DEF UsedFirst
  <1>16. Chained'
    <2>1. \A c \in Clusters :
           /\ c >= 2 /\ c < First => fat_buffer[c] = fat'["fat0"][c] /\ fat_buffer[c] # 0
           /\ c >= First /\ c < cluster => fat_buffer[c] = c + 1
           /\ c > cluster => fat_buffer[c] = 0
      BY <1>1, <1>12 DEF Chained
    <2>2. \A n \in Listed' : \A c \in Extent(rootdir'[n]) : c < First'
      BY <1>1, <1>3, <1>4 DEF Chained
    <2> QED BY <1>1, <1>3, <1>4, <2>1, <2>2 DEF Chained
  <1>17. EntryMade'
    BY <1>1, <1>3, <1>4 DEF EntryMade
  <1>18. Closing'
    BY <1>1, <1>3, <1>4, <1>13, <1>16, <1>17 DEF Closing
  <1>19. ListedIntact'
    <2>1. ASSUME NEW n \in Listed PROVE Stored(rootdir[n], fat', data)
      <3>1. rootdir[n] \in Entry /\ rootdir[n] # NoEntry
        BY <1>1 DEF TypeOK, Listed
      <3>2. Stored(rootdir[n], fat, data)
        BY IntactIsStored DEF FatInv
      <3>3. ASSUME NEW c \in Extent(rootdir[n])
            PROVE  fat'["fat0"][c] = fat["fat0"][c] /\ fat'["fat1"][c] = fat["fat1"][c]
        <4>1. c \in Clusters /\ c >= 2 /\ c < First
          BY <1>1, ListedInUse DEF FatInv, Chained
        <4>2. fat["fat0"][c] = fat_buffer[c]
          BY <1>1, <4>1 DEF Chained
        <4>3. fat["fat1"][c] = fat["fat0"][c]
          BY <3>2, <3>3 DEF Stored, Copies
        <4> QED BY <1>3, <1>8, <4>1, <4>2, <4>3
      <3> QED BY <3>1, <3>2, <3>3, StoredElsewhere DEF Copies
    <2> QED BY <1>3, <1>4, <2>1 DEF ListedIntact, Stored
  <1>20. ListedAbove' /\ ExtentsDisjoint'
    BY <1>3, <1>4 DEF FatInv, ListedAbove, ExtentsDisjoint
  <1> QED BY <1>1, <1>3, <1>5, <1>15, <1>18, <1>19, <1>20
       DEF FatInv, Quiet, Writing, CopiesAgree

\* The entry reaches the disk when everything it stands for is there.
LEMMA WriteRootdirKeeps ==
    ASSUME FatInv, WriteRootdir
    PROVE  FatInv'
  <1>1. /\ pc = "write" /\ WriteOrder[area] = "rootdir" /\ rootdir' = rootdir_buffer
        /\ AreaDone /\ UNCHANGED <<fat, data, input, killed>>
    BY DEF WriteRootdir
  <1>2. TypeOK /\ Chained /\ EntryMade /\ i = DataCount(input)
        /\ fat_buffer[cluster] = EndMark
    BY <1>1 DEF FatInv, Closing
  <1>3. area = 3 /\ Exit("added")
    BY <1>1, <1>2 DEF TypeOK, WriteOrder, AreaDone
  <1>4. /\ cluster \in Nat /\ i \in Nat /\ First \in Nat /\ cluster = First + i
        /\ DataCount(input) \in Nat \ {0}
    BY <1>2, ChainNumbers
  <1>5. \A c \in Clusters : fat["fat0"][c] = fat_buffer[c] /\ fat["fat1"][c] = fat_buffer[c]
    BY <1>1, <1>3 DEF FatInv, Closing, InFat0, InFat1
  <1>6. TypeOK'
    <2>1. ZeroFat \in Table /\ NoDir \in [1..DirEntries -> Entry]
      BY Geometry DEF ZeroFat, Table, NoDir, Entry
    <2> QED BY <1>1, <1>2, <1>3, <2>1, Geometry DEF TypeOK, Exit
  <1> DEFINE e == [file |-> input, FstClus |-> First]
  <1>7. PICK m \in 1..DirEntries : rootdir[m] = NoEntry /\ rootdir' = [rootdir EXCEPT ![m] = e]
    BY <1>1, <1>2 DEF EntryMade
  <1>8. e \in Entry /\ e # NoEntry /\ e.file = input /\ e.FstClus = First
    BY <1>2, Geometry DEF Chained, Entry, NoEntry
  <1>9. Extent(e) = First..cluster
    BY <1>2, <1>4, <1>8 DEF Extent
  <1> HIDE DEF e
  <1>10. /\ rootdir'[m] = e
         /\ \A n \in 1..DirEntries : n # m => rootdir'[n] = rootdir[n]
    BY <1>2, <1>7 DEF TypeOK
  <1>11. Listed' = Listed \cup {m} /\ m \notin Listed
    BY <1>7, <1>8, <1>10 DEF Listed
  <1>12. \A n \in Listed : rootdir'[n] = rootdir[n]
    BY <1>10, <1>11 DEF Listed
  <1>13. Stored(e, fat, data)
    <2>1. Extent(e) \subseteq Clusters
      <3>1. cluster \in Clusters
        BY <1>2 DEF TypeOK
      <3> QED BY <1>4, <1>9, <3>1, Geometry DEF Clusters
    <2>2. ASSUME NEW c \in Extent(e)
          PROVE  fat_buffer[c] = IF c = e.FstClus + DataCount(e.file) THEN EndMark ELSE c + 1
      <3>1. c \in Clusters /\ c \in Nat /\ c >= First /\ c <= cluster
        BY <1>4, <1>9, <2>1, Geometry
      <3>2. e.FstClus + DataCount(e.file) = cluster
        BY <1>2, <1>4, <1>8
      <3>3. CASE c = cluster
        BY <1>2, <3>2, <3>3
      <3>4. CASE c # cluster
        <4>1. c < cluster
          BY <1>4, <3>1, <3>4
        <4>2. fat_buffer[c] = c + 1
          BY <1>2, <3>1, <4>1 DEF Chained
        <4> QED BY <3>2, <3>4, <4>2
      <3> QED BY <3>3, <3>4
    <2>3. \A k \in 0..(DataCount(e.file) - 1) : data[e.FstClus + k] = SectorOf(e.file, k)
      BY <1>2, <1>8 DEF Chained
    <2> QED BY <1>5, <2>1, <2>2, <2>3 DEF Stored, Copies
  <1>14. ListedIntact'
    <2>1. \A n \in Listed' : Stored(rootdir'[n], fat, data)
      BY <1>10, <1>11, <1>12, <1>13, IntactIsStored DEF FatInv
    <2> QED BY <1>1, <2>1 DEF ListedIntact, Stored
  <1>15. ExtentsDisjoint'
    <2>1. ASSUME NEW n \in Listed PROVE Extent(rootdir[n]) \cap Extent(e) = {}
      <3> SUFFICES ASSUME NEW c \in Extent(rootdir[n]), c \in Extent(e) PROVE FALSE
        OBVIOUS
      <3>1. c < First
        BY <1>2 DEF Chained
      <3>2. c \in Nat /\ c >= First
        BY <1>4, <1>9
      <3> QED BY <1>4, <3>1, <3>2
    <2>2. ASSUME NEW n \in Listed', NEW k \in Listed', n # k
          PROVE  Extent(rootdir'[n]) \cap Extent(rootdir'[k]) = {}
      <3>1. CASE n = m
        BY <1>10, <1>11, <1>12, <2>1, <2>2, <3>1
      <3>2. CASE k = m
        BY <1>10, <1>11, <1>12, <2>1, <2>2, <3>2
      <3>3. CASE n # m /\ k # m
        <4>1. n \in Listed /\ k \in Listed
          BY <1>11, <3>3
        <4>2. Extent(rootdir[n]) \cap Extent(rootdir[k]) = {}
          BY <2>2, <4>1 DEF FatInv, ExtentsDisjoint
        <4> QED BY <1>12, <4>1, <4>2
      <3> QED BY <3>1, <3>2, <3>3
    <2>3. \A n : Extent(rootdir[n])' = Extent(rootdir'[n])
      BY DEF Extent
    <2> QED BY <2>2, <2>3 DEF ExtentsDisjoint
  <1>16. ListedAbove'
    BY <1>2, <1>8, <1>10, <1>11, <1>12 DEF FatInv, ListedAbove, Chained
  <1>17. UsedFirst'
    BY <1>1 DEF FatInv, UsedFirst
  <1>18. CopiesAgree'
    <2>1. fat["fat0"] \in Table /\ fat["fat1"] \in Table
      BY <1>2 DEF TypeOK, Copies
    <2>2. fat["fat0"] = fat["fat1"]
      BY <1>5, <2>1 DEF Table
    <2> QED BY <1>1, <2>2 DEF CopiesAgree
  <1> QED BY <1>3, <1>6, <1>14, <1>15, <1>16, <1>17, <1>18
       DEF FatInv, Exit, Quiet, Writing, Closing

LEMMA KillKeeps ==
    ASSUME FatInv, Kill
    PROVE  FatInv'
  <1>1. /\ Exit("killed") /\ killed' = TRUE /\ UNCHANGED <<fat, rootdir, data, input>>
    BY DEF Kill, disk
  <1>2. killed' \in BOOLEAN
    BY <1>1, Zenon
  <1>3. data' \in [Clusters -> (Files \X Nat) \cup {<<Garbage, 0>>}]
        /\ input' \in Files \cup {Garbage}
    BY <1>1 DEF FatInv, TypeOK
  <1> QED BY <1>1, <1>2, <1>3, ExitKeeps

LEMMA FatStutter == FatInv /\ UNCHANGED vars => FatInv'
  <1> SUFFICES ASSUME FatInv, UNCHANGED vars PROVE FatInv'
    OBVIOUS
  <1>1. UNCHANGED <<fat, rootdir, data, pc, area, sector, input, result, killed,
                    fat_buffer, rootdir_buffer, cluster, i>>
    BY DEF vars, disk, buffers
  <1>2. Listed' = Listed /\ First' = First
    BY <1>1 DEF Listed, First
  <1>3. Chained <=> Chained'
    BY <1>1, <1>2 DEF Chained
  <1>4. EntryMade <=> EntryMade'
    BY <1>1, <1>2 DEF EntryMade
  <1>5. TypeOK' /\ Quiet' /\ UsedFirst' /\ CopiesAgree'
    BY <1>1 DEF FatInv, TypeOK, Quiet, UsedFirst, CopiesAgree
  <1>6. ListedAbove' /\ ListedIntact' /\ ExtentsDisjoint'
    BY <1>1, <1>2 DEF FatInv, ListedAbove, ListedIntact, ExtentsDisjoint
  <1>7. Writing'
    BY <1>1, <1>2, <1>3, <1>4 DEF FatInv, Writing
  <1>8. Closing'
    <2>1. \A c : (InFat0(c)' <=> InFat0(c)) /\ (InFat1(c)' <=> InFat1(c))
      BY <1>1 DEF InFat0, InFat1
    <2> QED BY <1>1, <1>2, <1>3, <1>4, <2>1 DEF FatInv, Closing
  <1> QED BY <1>5, <1>6, <1>7, <1>8 DEF FatInv

LEMMA FatStep == ASSUME Numbered PROVE FatInv /\ WithinArea /\ [Next]_vars => FatInv'
  <1> SUFFICES ASSUME FatInv, WithinArea, [Next]_vars PROVE FatInv'
    OBVIOUS
  <1>1. CASE \E f \in Files : Start(f)
    BY <1>1, StartKeeps
  <1>2. CASE WriteData
    BY <1>2, WriteDataKeeps
  <1>3. CASE EndChain
    BY <1>3, EndChainKeeps
  <1>4. CASE WriteFat
    BY <1>4, WriteFatKeeps
  <1>5. CASE WriteRootdir
    BY <1>5, WriteRootdirKeeps
  <1>6. CASE Kill
    BY <1>6, KillKeeps
  <1>7. CASE UNCHANGED vars
    BY <1>7, FatStutter
  <1> QED BY <1>1, <1>2, <1>3, <1>4, <1>5, <1>6, <1>7 DEF Next

LEMMA FatInvHolds == ASSUME Numbered PROVE Spec /\ []WithinArea => []FatInv
  <1>1. Init => FatInv
    BY FatInit
  <1>2. FatInv /\ WithinArea /\ [Next]_vars => FatInv'
    BY FatStep
  <1> QED BY <1>1, <1>2, PTL DEF Spec
-----------------------------------------------------------------------------
\* Every file fd has listed keeps its bytes and its chain, in one piece, in
\* both copies of the FAT: no later file, and no run that was killed in any
\* of its writes, touches it (fat16.c:262-317).
THEOREM FilesStayIntact == ASSUME Numbered PROVE Spec /\ []WithinArea => []ListedIntact
  <1>1. FatInv => ListedIntact
    BY DEF FatInv
  <1> QED BY <1>1, FatInvHolds, PTL

\* No two files share a cluster (fat16.c:166-189).
THEOREM FilesStayDisjoint == ASSUME Numbered PROVE Spec /\ []WithinArea => []ExtentsDisjoint
  <1>1. FatInv => ExtentsDisjoint
    BY DEF FatInv
  <1> QED BY <1>1, FatInvHolds, PTL

\* A run that ends leaves two equal copies of the FAT, whatever it found
\* (fat16.c:313-316).
THEOREM CopiesEndEqual == ASSUME Numbered PROVE Spec /\ []WithinArea => []CopiesAgree
  <1>1. FatInv => CopiesAgree
    BY DEF FatInv
  <1> QED BY <1>1, FatInvHolds, PTL
-----------------------------------------------------------------------------
(***************************************************************************)
(* What is in use is accounted for, and what is free is found.             *)
(***************************************************************************)

\* The clusters of all files.
Allotted == UNION {Extent(rootdir[n]) : n \in Listed}

\* While the chain of a new file reaches the first copy, those below it belong
\* to the files that are listed.
NothingLost ==
    ~ killed =>
      /\ pc # "write" => Used(fat["fat0"]) = Allotted
      /\ pc = "write" => \A c \in Clusters : c >= 2 /\ c < First => c \in Allotted

LEMMA NothingLostStep ==
    ASSUME FatInv, NothingLost, [Next]_vars
    PROVE  NothingLost'
  <1>1. ASSUME UNCHANGED <<fat, rootdir, killed>>,
               pc # "write", pc' # "write"
        PROVE  NothingLost'
    <2>1. Allotted' = Allotted
      BY <1>1 DEF Allotted, Listed
    <2>2. Used(fat["fat0"])' = Used(fat["fat0"])
      BY <1>1 DEF Used
    <2> QED BY <1>1, <2>1, <2>2 DEF NothingLost
  <1>2. ASSUME NEW f \in Files, Start(f)
        PROVE  NothingLost'
    BY <1>1, <1>2 DEF Start, Refuse, Exit, disk
  <1>3. CASE WriteData
    BY <1>1, <1>3 DEF WriteData, Exit
  <1>4. CASE EndChain
    <2>1. Chained /\ pc = "data" /\ pc' = "write" /\ TypeOK
      BY <1>4 DEF EndChain, FatInv, Writing
    <2>2. UNCHANGED <<fat, rootdir, killed, cluster, i>>
      BY <1>4 DEF EndChain, disk
    <2>3. First' = First /\ Allotted' = Allotted
      BY <2>2 DEF First, Allotted, Listed
    <2>4. \A c \in Clusters : c >= 2 /\ c < First => c \in Used(fat["fat0"])
      BY <2>1 DEF Chained, Used
    <2> QED BY <2>1, <2>2, <2>3, <2>4 DEF NothingLost
  <1>5. CASE WriteFat
    <2>1. pc = "write" /\ UNCHANGED <<rootdir, killed, pc, cluster, i>>
      BY <1>5, WriteFatEffect
    <2>2. First' = First /\ Allotted' = Allotted
      BY <2>1 DEF First, Allotted, Listed
    <2> QED BY <2>1, <2>2 DEF NothingLost
  <1>6. CASE WriteRootdir
    <2>1. /\ pc = "write" /\ WriteOrder[area] = "rootdir" /\ rootdir' = rootdir_buffer
          /\ AreaDone /\ UNCHANGED <<fat, killed>>
      BY <1>6 DEF WriteRootdir
    <2>2. TypeOK /\ Chained /\ EntryMade /\ i = DataCount(input)
          /\ fat_buffer[cluster] = EndMark
          /\ \A c \in Clusters : InFat0(c) => fat["fat0"][c] = fat_buffer[c]
      BY <2>1 DEF FatInv, Closing
    <2>3. area = 3 /\ pc' = "idle"
      BY <2>1, <2>2 DEF TypeOK, WriteOrder, AreaDone, Exit
    <2>4. /\ cluster \in Nat /\ i \in Nat /\ First \in Nat /\ cluster = First + i
          /\ cluster \in Clusters /\ input \in Files
      BY <2>2, ChainNumbers DEF Chained, TypeOK
    <2> DEFINE e == [file |-> input, FstClus |-> First]
    <2>5. PICK n \in 1..DirEntries : rootdir[n] = NoEntry /\ rootdir' = [rootdir EXCEPT ![n] = e]
      BY <2>1, <2>2 DEF EntryMade
    <2>6. e # NoEntry /\ Extent(e) = First..cluster
      BY <2>2, <2>4, Geometry DEF Extent, NoEntry
    <2>7. Listed' = Listed \cup {n} /\ rootdir'[n] = e
          /\ \A m \in Listed : m # n /\ rootdir'[m] = rootdir[m]
      <3> HIDE DEF e
      <3> QED BY <2>2, <2>5, <2>6 DEF Listed, TypeOK
    <2> HIDE DEF e
    <2>8. Allotted' = Allotted \cup (First..cluster)
      <3>1. Allotted' = UNION {Extent(rootdir'[m]) : m \in Listed \cup {n}}
        BY <2>7 DEF Allotted
      <3> QED BY <2>6, <2>7, <3>1 DEF Allotted
    <2>9. \A c \in Clusters : fat["fat0"][c] = fat_buffer[c]
      BY <2>2, <2>3 DEF InFat0
    <2>10. Allotted \subseteq Used(fat["fat0"])
      BY <2>2, ListedInUse DEF Allotted, Used, FatInv
    <2>11. First..cluster \subseteq Used(fat["fat0"])
      <3> SUFFICES ASSUME NEW c \in First..cluster
                   PROVE  c \in Used(fat["fat0"])
        OBVIOUS
      <3>1. c \in Clusters /\ c \in Nat /\ c >= 2
        BY <2>2, <2>4, Geometry DEF Clusters, Chained
      <3>2. fat_buffer[c] # 0
        <4>1. CASE c = cluster
          BY <2>2, <4>1, Geometry
        <4>2. CASE c # cluster
          BY <2>2, <2>4, <3>1, <4>2 DEF Chained
        <4> QED BY <4>1, <4>2
      <3> QED BY <2>9, <3>1, <3>2 DEF Used
    <2>12. ASSUME ~ killed, NEW c \in Used(fat["fat0"])
           PROVE  c \in Allotted \cup (First..cluster)
      <3>1. c \in Clusters /\ c >= 2 /\ c \in Nat /\ fat_buffer[c] # 0
        BY <2>9, Geometry DEF Used
      <3>2. c <= cluster
        BY <2>2, <2>4, <3>1 DEF Chained
      <3>3. c < First => c \in Allotted
        BY <2>1, <2>12, <3>1 DEF NothingLost
      <3> QED BY <2>4, <3>1, <3>2, <3>3
    <2>13. ~ killed => Used(fat["fat0"]) = Allotted'
      BY <2>8, <2>10, <2>11, <2>12
    <2>14. Used(fat["fat0"])' = Used(fat["fat0"])
      BY <2>1 DEF Used
    <2> QED BY <2>1, <2>3, <2>13, <2>14 DEF NothingLost
  <1>7. CASE Kill
    BY <1>7 DEF Kill, NothingLost
  <1>8. CASE UNCHANGED vars
    <2>1. UNCHANGED <<fat, rootdir, killed, pc, cluster, i>>
      BY <1>8 DEF vars, disk, buffers
    <2>2. First' = First /\ Allotted' = Allotted /\ Used(fat["fat0"])' = Used(fat["fat0"])
      BY <2>1 DEF First, Allotted, Listed, Used
    <2> QED BY <2>1, <2>2 DEF NothingLost
  <1> QED BY <1>2, <1>3, <1>4, <1>5, <1>6, <1>7, <1>8 DEF Next

LEMMA NothingLostInit == Init => NothingLost
  <1> SUFFICES ASSUME Init PROVE NothingLost
    OBVIOUS
  <1>1. Listed = {} /\ pc = "idle"
    BY DEF Init, NoDir, Listed
  <1>2. Used(fat["fat0"]) = {}
    BY DEF Init, Used, ZeroFat, Copies
  <1> QED BY <1>1, <1>2 DEF NothingLost, Allotted

\* A search that finds nothing leaves no cluster a u16 can name.
LEMMA NothingToFind ==
    ASSUME NEW table \in Table, NEW from \in Nat, from > 0, FreeCluster(table, from) = 0,
           NEW c \in Clusters, c >= from, c < Word16
    PROVE  table[c] # 0
  <1> DEFINE free == {n \in Clusters : n >= from /\ table[n] = 0}
  <1> SUFFICES ASSUME c \in free PROVE FALSE
    OBVIOUS
  <1>1. free \in SUBSET Nat
    BY Geometry
  <1>2. Min(free) \in free /\ Min(free) <= c
    <2> HIDE DEF free
    <2> QED BY <1>1, LeastOf
  <1>3. FreeCluster(table, from) = Min(free) % Word16
    BY DEF FreeCluster
  <1>4. Min(free) \in Nat /\ Min(free) >= from /\ Min(free) < Word16 /\ Word16 \in Nat
    BY <1>1, <1>2, Geometry
  <1> HIDE DEF free
  <1>5. Min(free) % Word16 = Min(free)
    BY <1>4, SMT
  <1> QED BY <1>3, <1>4, <1>5

LEMMA RefusedStep ==
    ASSUME Numbered, FatInv, WithinArea, RefusedOnlyWhenFull, [Next]_vars
    PROVE  RefusedOnlyWhenFull'
  <1>1. ASSUME NEW f \in Files, Start(f)
        PROVE  RefusedOnlyWhenFull'
    <2> DEFINE table == [fat["fat0"] EXCEPT ![0] = Media, ![1] = EndMark]
    <2>1. CASE ~ (get_cluster(table) = 0 \/ FreeEntries = {})
      BY <1>1, <2>1 DEF Start, RefusedOnlyWhenFull
    <2>2. CASE get_cluster(table) = 0 \/ FreeEntries = {}
      <3>1. Refuse(f)
        BY <1>1, <2>2 DEF Start
      <3>2. UNCHANGED <<fat, rootdir>> /\ input' = f
        BY <3>1 DEF Refuse, disk
      <3>3. CASE FreeEntries = {}
        BY <3>2, <3>3 DEF RefusedOnlyWhenFull, FreeEntries
      <3>4. CASE get_cluster(table) = 0
        <4>1. fat["fat0"] \in Table
          BY DEF FatInv, TypeOK, Copies
        <4>2. table \in Table /\ \A c \in Clusters : c >= 2 => table[c] = fat["fat0"][c]
          BY <4>1, Geometry DEF Table
        <4> HIDE DEF table
        <4>3. \A c \in Clusters : c >= 2 /\ c < Word16 => table[c] # 0
          BY <3>4, <4>2, NothingToFind DEF get_cluster
        <4>4. Free(fat["fat0"]) = {}
          BY <4>2, <4>3 DEF Free
        <4>5. Cardinality(Free(fat["fat0"])) <= DataCount(f)
          BY <4>4, FS_EmptySet, AtLeastOne
        <4>6. Free(fat["fat0"])' = Free(fat["fat0"])
          BY <3>2 DEF Free
        <4> QED BY <3>2, <4>5, <4>6 DEF RefusedOnlyWhenFull
      <3> QED BY <2>2, <3>3, <3>4
    <2> QED BY <2>1, <2>2
  <1>2. CASE WriteData
    <2>1. /\ pc = "data" /\ Chained /\ i < DataCount(input) /\ TypeOK
          /\ fat_buffer[cluster] = 0
          /\ \A c \in Clusters : c >= First => fat["fat0"][c] = 0
      BY <1>2 DEF WriteData, FatInv, Writing
    <2>2. UNCHANGED <<fat, rootdir, input>>
      BY <1>2 DEF WriteData
    <2>3. CASE link_cluster(fat_buffer, cluster) # 0
      BY <1>2, <2>1, <2>3 DEF WriteData, RefusedOnlyWhenFull
    <2>4. CASE link_cluster(fat_buffer, cluster) = 0
      <3>1. /\ cluster \in Nat /\ i \in Nat /\ First \in Nat /\ cluster = First + i
            /\ DataCount(input) \in Nat
        BY <2>1, ChainNumbers
      <3>2. (cluster + 1) % Word16 = cluster + 1
        <4>1. cluster + 1 < Word16 /\ Word16 \in Nat
          BY <3>1, Geometry DEF Numbered, WithinArea
        <4> QED BY <3>1, <4>1, SMT
      <3>3. FreeCluster(fat_buffer, cluster + 1) = 0
        BY <2>4, <3>2 DEF link_cluster
      <3>4. fat_buffer \in Table
        BY <2>1 DEF TypeOK
      <3>5. \A c \in Clusters : c >= cluster + 1 /\ c < Word16 => fat_buffer[c] # 0
        BY <3>1, <3>3, <3>4, NothingToFind
      <3>6. Free(fat["fat0"]) \subseteq First..cluster
        <4> SUFFICES ASSUME NEW c \in Free(fat["fat0"])
                     PROVE  c \in First..cluster
          OBVIOUS
        <4>1. c \in Clusters /\ c \in Nat /\ c >= 2 /\ c < Word16 /\ fat["fat0"][c] = 0
          BY Geometry DEF Free
        <4>2. c >= First
          BY <2>1, <3>1, <4>1 DEF Chained
        <4>3. c <= cluster
          BY <2>1, <3>1, <3>5, <4>1 DEF Chained
        <4> QED BY <3>1, <4>1, <4>2, <4>3
      <3>7. IsFiniteSet(First..cluster) /\ Cardinality(First..cluster) = i + 1
        BY <3>1, FS_Interval
      <3>8. Cardinality(Free(fat["fat0"])) <= i + 1
        BY <3>6, <3>7, FS_Subset
      <3>9. Cardinality(Free(fat["fat0"])) \in Nat
        BY <3>6, <3>7, FS_Subset, FS_CardinalityType
      <3>10. Cardinality(Free(fat["fat0"])) <= DataCount(input)
        BY <2>1, <3>1, <3>8, <3>9
      <3>11. Free(fat["fat0"])' = Free(fat["fat0"]) /\ DataCount(input)' = DataCount(input)
        BY <2>2 DEF Free, DataCount
      <3> QED BY <3>10, <3>11 DEF RefusedOnlyWhenFull
    <2> QED BY <2>3, <2>4
  <1>3. CASE EndChain
    BY <1>3 DEF EndChain, RefusedOnlyWhenFull
  <1>4. CASE WriteFat
    BY <1>4, WriteFatEffect DEF RefusedOnlyWhenFull
  <1>5. CASE WriteRootdir
    BY <1>5 DEF WriteRootdir, AreaDone, Exit, RefusedOnlyWhenFull
  <1>6. CASE Kill
    BY <1>6 DEF Kill, Exit, RefusedOnlyWhenFull
  <1>7. CASE UNCHANGED vars
    <2>1. UNCHANGED <<fat, rootdir, pc, result, input>>
      BY <1>7 DEF vars, disk
    <2> QED BY <2>1 DEF RefusedOnlyWhenFull, FreeEntries, Free, DataCount
  <1> QED BY <1>1, <1>2, <1>3, <1>4, <1>5, <1>6, <1>7 DEF Next

\* As long as fd is not killed every cluster in use belongs to a listed file:
\* refused files leave nothing behind (fat16.c:262-317).
THEOREM NothingLeaks == ASSUME Numbered PROVE Spec /\ []WithinArea => []NoClusterLost
  <1>1. NothingLost => NoClusterLost
    BY DEF NothingLost, NoClusterLost, Allotted
  <1>2. FatInv /\ NothingLost /\ [Next]_vars => NothingLost'
    BY NothingLostStep
  <1> QED BY <1>1, <1>2, NothingLostInit, FatInvHolds, PTL DEF Spec

\* fd refuses a file only for want of a directory entry or of clusters: the
\* forward search overlooks none (fat16.c:178-189).
THEOREM RefusalsJustified ==
    ASSUME Numbered PROVE Spec /\ []WithinArea => []RefusedOnlyWhenFull
  <1>1. Init => RefusedOnlyWhenFull
    BY DEF Init, RefusedOnlyWhenFull
  <1>2. FatInv /\ WithinArea /\ RefusedOnlyWhenFull /\ [Next]_vars => RefusedOnlyWhenFull'
    BY RefusedStep
  <1> QED BY <1>1, <1>2, FatInvHolds, PTL DEF Spec
-----------------------------------------------------------------------------
(***************************************************************************)
(* A reader that follows the chains finds the files of FileSystem.         *)
(***************************************************************************)

\* What a reader of a file is to find.
Contents(f) == [k \in 1..FileSectors(f) |-> <<f, k - 1>>]

\* Rounding up in another way: each sector of a file holds some of its bytes,
\* and fd has written it.
LEMMA SectorsOfFile ==
    ASSUME NEW f \in Files
    PROVE  /\ FileSectors(f) \in Nat /\ FileSectors(f) <= DataCount(f)
           /\ Size[f] > 0 => FileSectors(f) = DataCount(f)
           /\ \A k \in 1..FileSectors(f) : SectorOf(f, k - 1) = <<f, k - 1>>
  <1> DEFINE m == SECTOR_SIZE
             s == Size[f]
             q == FileSectors(f)
  <1>1. m \in Nat \ {0} /\ s \in Nat /\ s <= Word32 - 1 /\ Word32 \in Nat \ {0}
    BY FatWriterAssumption
  <1>2. q = (s + m - 1) \div m
    BY DEF FileSectors
  <1> HIDE DEF q, m, s
  <1>3. q \in Nat /\ m * q <= s + m - 1
    BY <1>1, <1>2, SMT
  <1>4. s + m - 1 < m * q + m
    BY <1>1, <1>2, SMT
  <1>5. ASSUME NEW k \in 1..q PROVE (k - 1) * m < s
    <2>1. m * k <= m * q
      BY <1>1, <1>3, SMT
    <2>2. (k - 1) * m = m * k - m
      BY <1>1, SMT
    <2> QED BY <1>1, <1>3, <2>1, <2>2, SMT
  <1>6. q <= DataCount(f) /\ (s > 0 => q = DataCount(f))
    <2>1. CASE s = 0
      <3>1. m * q < m
        BY <1>1, <1>3, <2>1, SMT
      <3>2. q < 1
        BY <1>1, <1>3, <3>1, SMT
      <3> QED BY <1>3, <2>1, <3>2, AtLeastOne
    <2>2. CASE s # 0
      <3> DEFINE p == (s - 1) \div m
      <3>1. (s - 1) % Word32 = s - 1
        BY <1>1, <2>2, SMT
      <3>2. DataCount(f) = p + 1
        BY <3>1 DEF DataCount, Ceil, s, m
      <3>3. p \in Nat /\ s - 1 < m * p + m /\ m * p <= s - 1
        BY <1>1, <2>2, SMT
      <3> HIDE DEF p
      <3>4. m * q < m * p + m + m
        BY <1>1, <1>3, <3>3, SMT
      <3>5. ASSUME q >= p + 2 PROVE FALSE
        <4>1. m * q >= m * (p + 2)
          BY <1>1, <1>3, <3>3, <3>5, SMT
        <4>2. m * (p + 2) = m * p + m + m
          BY <1>1, <3>3, SMT
        <4> QED BY <1>1, <1>3, <3>3, <3>4, <4>1, <4>2, SMT
      <3>6. ASSUME q <= p PROVE FALSE
        <4>1. m * q <= m * p
          BY <1>1, <1>3, <3>3, <3>6, SMT
        <4> QED BY <1>1, <1>3, <1>4, <3>3, <4>1, SMT
      <3> QED BY <1>3, <3>2, <3>3, <3>5, <3>6
    <2> QED BY <2>1, <2>2
  <1>7. \A k \in 1..q : SectorOf(f, k - 1) = <<f, k - 1>>
    BY <1>5 DEF SectorOf, m, s
  <1> QED BY <1>3, <1>6, <1>7 DEF q, s

\* A reader that follows the chain of a listed file finds its bytes.
LEMMA ReadBackIs ==
    ASSUME Numbered, FatInv, NEW n \in Listed
    PROVE  rootdir[n].file \in Files /\ ReadBack(rootdir[n]) = Contents(rootdir[n].file)
  <1> DEFINE e == rootdir[n]
             f == e.file
             F0 == e.FstClus
             z == FileSectors(f)
             Follows(next) == next \in Clusters /\ next \in 2..(Media - 1)
             Along(at) == [k \in 0..z |->
                             IF k = 0 THEN F0
                             ELSE LET next == fat["fat0"][at[k - 1]]
                                  IN  IF next \in Clusters /\ next \in 2..(Media - 1)
                                      THEN next ELSE at[k - 1]]
             walk == CHOOSE at : at = Along(at)
  <1>1. ReadBack(e) = [k \in 1..z |-> data[walk[k - 1]]]
    BY DEF ReadBack
  <1>2. /\ e \in Entry /\ f \in Files /\ F0 \in Nat /\ F0 >= 2
        /\ Stored(e, fat, data)
    <2>1. e \in Entry /\ e # NoEntry
      BY DEF FatInv, TypeOK, Listed
    <2> QED BY <2>1, IntactIsStored, Geometry DEF FatInv, Entry, ListedAbove
  <1>3. z \in Nat /\ z <= DataCount(f) /\ DataCount(f) \in Nat \ {0}
    BY <1>2, SectorsOfFile, AtLeastOne
  <1> HIDE DEF z
  <1>4. ASSUME NEW k \in 0..(z - 1)
        PROVE  /\ fat["fat0"][F0 + k] = F0 + k + 1
               /\ F0 + k + 1 \in Clusters /\ F0 + k + 1 \in 2..(Media - 1)
    <2>1. F0 + k \in Extent(e) /\ F0 + k + 1 \in Extent(e) /\ F0 + k # F0 + DataCount(f)
      BY <1>2, <1>3 DEF Extent
    <2>2. fat["fat0"][F0 + k] = F0 + k + 1
      BY <2>1, <1>2 DEF Stored, Copies
    <2>3. F0 + k + 1 \in Clusters /\ fat["fat0"][F0 + k + 1] # 0 /\ F0 + k + 1 >= 2
      BY <2>1, ListedInUse DEF FatInv
    <2>4. F0 + k + 1 < DataSectors + 2
      BY <2>3 DEF FatInv, UsedFirst
    <2> QED BY <1>2, <2>2, <2>3, <2>4, Geometry DEF Numbered
  <1> DEFINE straight == [k \in 0..z |-> F0 + k]
  <1>5. straight = Along(straight)
    <2>1. ASSUME NEW k \in 0..z PROVE straight[k] = Along(straight)[k]
      <3>1. CASE k = 0
        BY <1>2, <3>1
      <3>2. CASE k # 0
        <4>1. k - 1 \in 0..(z - 1) /\ k - 1 \in 0..z /\ F0 + (k - 1) + 1 = F0 + k
          BY <1>2, <1>3, <3>2
        <4>2. straight[k - 1] = F0 + (k - 1) /\ straight[k] = F0 + k
          BY <4>1
        <4>3. fat["fat0"][F0 + (k - 1)] = F0 + k /\ F0 + k \in Clusters
              /\ F0 + k \in 2..(Media - 1)
          BY <1>4, <4>1
        <4> HIDE DEF straight
        <4> QED BY <3>2, <4>2, <4>3
      <3> QED BY <3>1, <3>2
    <2> QED BY <2>1
  <1>6. walk = Along(walk)
    <2> HIDE DEF Along, straight
    <2> QED BY <1>5, Zenon
  <1> HIDE DEF walk
  <1>7. ASSUME NEW k \in 0..z PROVE walk[k] = F0 + k
    <2> DEFINE astray == {j \in 0..z : walk[j] # F0 + j}
    <2>1. SUFFICES ASSUME astray # {} PROVE FALSE
      BY <2>1
    <2>2. PICK j \in astray : \A y \in astray : j <= y
      <3>1. astray \in SUBSET Nat
        BY <1>3
      <3> HIDE DEF astray
      <3> QED BY <2>1, <3>1, LeastOf
    <2>3. j # 0
      <3>1. 0 \in 0..z
        BY <1>3
      <3>2. walk[0] = Along(walk)[0]
        <4> HIDE DEF Along
        <4> QED BY <1>6
      <3>3. Along(walk)[0] = F0
        BY <3>1
      <3> HIDE DEF Along
      <3> QED BY <1>2, <2>2, <3>2, <3>3
    <2>4. j \in 0..z /\ j - 1 \in 0..z /\ j - 1 \in 0..(z - 1) /\ j - 1 \notin astray
      BY <1>3, <2>2, <2>3
    <2>5. walk[j - 1] = F0 + (j - 1)
      BY <2>4
    <2>6. walk[j] = Along(walk)[j]
      BY <1>6
    <2>7. fat["fat0"][walk[j - 1]] = F0 + j /\ F0 + j \in Clusters /\ F0 + j \in 2..(Media - 1)
      <3>1. F0 + (j - 1) + 1 = F0 + j
        BY <1>2, <2>4
      <3> QED BY <1>4, <2>4, <2>5, <3>1
    <2>8. walk[j] = F0 + j
      BY <2>3, <2>4, <2>6, <2>7
    <2> QED BY <2>2, <2>8
  <1>8. ASSUME NEW k \in 1..z PROVE data[walk[k - 1]] = <<f, k - 1>>
    <2>1. k - 1 \in 0..z /\ k - 1 \in 0..(DataCount(f) - 1)
      BY <1>3
    <2>2. data[F0 + (k - 1)] = SectorOf(f, k - 1)
      BY <1>2, <2>1 DEF Stored
    <2>3. SectorOf(f, k - 1) = <<f, k - 1>>
      BY <1>2, SectorsOfFile DEF z
    <2> QED BY <1>7, <2>1, <2>2, <2>3
  <1> QED BY <1>1, <1>2, <1>8 DEF Contents, z
-----------------------------------------------------------------------------
\* The first k entries of the directory are listed; the one fd has made in
\* memory is the next.
InOrder(k) ==
    /\ k \in 0..DirEntries /\ Listed = 1..k
    /\ pc # "idle" =>
         /\ k + 1 \in 1..DirEntries
         /\ rootdir_buffer = [rootdir EXCEPT ![k + 1] = [file |-> input, FstClus |-> First]]

FilledInOrder == \E k \in 0..DirEntries : InOrder(k)

listing == [n \in 1..Cardinality(Listed) |-> <<rootdir[n].file, ReadBack(rootdir[n])>>]

\* The same, told from the entries alone.
Entered == [n \in 1..Cardinality(Listed) |-> <<rootdir[n].file, Contents(rootdir[n].file)>>]

LEMMA ListingIs ==
    ASSUME Numbered PROVE FatInv /\ FilledInOrder => listing = Entered
  <1> SUFFICES ASSUME FatInv, FilledInOrder PROVE listing = Entered
    OBVIOUS
  <1>1. PICK k \in Nat : Listed = 1..k /\ Cardinality(1..k) = k
    BY Geometry, FS_Interval DEF FilledInOrder, InOrder
  <1>2. \A n \in 1..k : ReadBack(rootdir[n]) = Contents(rootdir[n].file)
    BY <1>1, ReadBackIs
  <1> QED BY <1>1, <1>2 DEF listing, Entered

LEMMA OrderInit == Init => FilledInOrder
  <1> SUFFICES ASSUME Init PROVE FilledInOrder
    OBVIOUS
  <1>1. Listed = 1..0 /\ pc = "idle"
    BY DEF Init, NoDir, Listed
  <1> QED BY <1>1, Geometry DEF FilledInOrder, InOrder

\* A step leaves the directory on the disk alone, or it is the one that adds
\* the entry made in memory.
LEMMA OrderStep ==
    ASSUME Numbered, FatInv, WithinArea, NEW k \in 0..DirEntries, InOrder(k), [Next]_vars
    PROVE  \/ rootdir' = rootdir /\ InOrder(k)'
           \/ /\ k + 1 \in 1..DirEntries /\ InOrder(k + 1)' /\ input \in Files
              /\ rootdir' = [rootdir EXCEPT ![k + 1] = [file |-> input, FstClus |-> First]]
  <1>0. k \in Nat /\ DirEntries \in Nat /\ TypeOK
    BY Geometry DEF FatInv
  <1>1. ASSUME NEW outcome, Exit(outcome), rootdir' = rootdir PROVE InOrder(k)'
    BY <1>1 DEF Exit, InOrder, Listed
  <1>2. ASSUME pc # "idle", pc' # "idle",
               UNCHANGED <<rootdir, rootdir_buffer, input>>, First' = First
        PROVE  InOrder(k)'
    BY <1>2 DEF InOrder, Listed
  <1>3. CASE \E f \in Files : Start(f)
    <2>1. PICK f \in Files : Start(f)
      BY <1>3
    <2>2. CASE Refuse(f)
      BY <1>1, <2>2 DEF Refuse, disk
    <2>3. CASE ~ Refuse(f)
      <3> DEFINE table == [fat["fat0"] EXCEPT ![0] = Media, ![1] = EndMark]
                 start == get_cluster(table)
      <3>1. /\ FreeEntries # {} /\ pc = "idle"
            /\ rootdir_buffer' = [rootdir EXCEPT ![Min(FreeEntries)] =
                                    [file |-> f, FstClus |-> start]]
            /\ cluster' = start /\ input' = f
            /\ UNCHANGED <<rootdir, i>>
        BY <2>1, <2>3 DEF Start, disk
      <3> HIDE DEF start
      <3>2. start \in Nat /\ i = 0
        <4>1. cluster' \in Clusters
          BY <1>3, FatStep DEF FatInv, TypeOK, Next
        <4> QED BY <3>1, <4>1, Geometry DEF FatInv, Quiet
      <3>3. First' = start
        BY <3>1, <3>2 DEF First
      <3>4. FreeEntries = (k + 1)..DirEntries
        BY <1>0 DEF FreeEntries, InOrder, Listed
      <3>5. k + 1 \in FreeEntries /\ \A n \in FreeEntries : k + 1 <= n
        BY <1>0, <3>1, <3>4
      <3>6. Min(FreeEntries) = k + 1
        <4>1. FreeEntries \in SUBSET Nat
          BY <1>0, <3>4
        <4>2. Min(FreeEntries) \in FreeEntries /\ Min(FreeEntries) <= k + 1
          BY <3>5, <4>1, LeastOf
        <4> QED BY <1>0, <3>4, <4>2
      <3>7. k + 1 \in 1..DirEntries
        BY <1>0, <3>4, <3>5
      <3>8. Listed' = Listed
        BY <3>1 DEF Listed
      <3> QED BY <3>1, <3>3, <3>6, <3>7, <3>8 DEF InOrder
    <2> QED BY <2>2, <2>3
  <1>4. CASE WriteData
    <2> DEFINE next == link_cluster(fat_buffer, cluster)
    <2>1. pc = "data" /\ rootdir' = rootdir /\ input' = input /\ Chained
      BY <1>4 DEF WriteData, FatInv, Writing
    <2>2. CASE Exit("refused")
      BY <1>1, <2>1, <2>2
    <2>3. CASE ~ Exit("refused")
      <3>1. next # 0 /\ cluster' = next /\ i' = i + 1 /\ UNCHANGED <<pc, rootdir_buffer>>
        BY <1>4, <2>3 DEF WriteData
      <3>2. next = cluster + 1
        BY <1>0, <2>1, <3>1, LinkIsNext
      <3>3. cluster \in Nat /\ i \in Nat
        BY <1>0, <2>1, ChainNumbers
      <3> HIDE DEF next
      <3>4. First' = First
        BY <3>1, <3>2, <3>3 DEF First
      <3> QED BY <1>2, <2>1, <3>1, <3>4
    <2> QED BY <2>1, <2>2, <2>3
  <1>5. CASE EndChain
    <2>1. pc = "data" /\ pc' = "write" /\ UNCHANGED <<rootdir, rootdir_buffer, input, cluster, i>>
      BY <1>5 DEF EndChain, disk
    <2> QED BY <1>2, <2>1 DEF First
  <1>6. CASE WriteFat
    <2>1. pc = "write" /\ UNCHANGED <<rootdir, input>>
      BY <1>6 DEF WriteFat
    <2>2. \/ Exit("added")
          \/ UNCHANGED <<pc, rootdir_buffer, cluster, i>>
      BY <1>6 DEF WriteFat, AreaDone, buffers
    <2> QED BY <1>1, <1>2, <2>1, <2>2 DEF First
  <1>7. CASE WriteRootdir
    <2> DEFINE e == [file |-> input, FstClus |-> First]
    <2>1. pc = "write" /\ rootdir' = rootdir_buffer /\ pc' = "idle"
      <3>1. area = 3
        BY <1>0, <1>7 DEF WriteRootdir, TypeOK, WriteOrder
      <3> QED BY <1>7, <3>1 DEF WriteRootdir, AreaDone, WriteOrder, Exit
    <2>2. k + 1 \in 1..DirEntries /\ rootdir' = [rootdir EXCEPT ![k + 1] = e]
      BY <2>1 DEF InOrder
    <2>3. input \in Files /\ e # NoEntry
      <3>1. input \in Files
        BY <2>1 DEF FatInv, Closing, Chained
      <3> QED BY <3>1, Geometry DEF NoEntry
    <2> HIDE DEF e
    <2>4. \A n \in 1..DirEntries : rootdir'[n] = IF n = k + 1 THEN e ELSE rootdir[n]
      BY <1>0, <2>2 DEF TypeOK
    <2>5. Listed' = Listed \cup {k + 1}
      BY <2>2, <2>3, <2>4 DEF Listed
    <2>6. Listed' = 1..(k + 1)
      BY <1>0, <2>5 DEF InOrder
    <2>7. InOrder(k + 1)'
      BY <2>1, <2>2, <2>6 DEF InOrder
    <2> QED BY <2>2, <2>3, <2>7 DEF e
  <1>8. CASE Kill
    BY <1>1, <1>8 DEF Kill, disk
  <1>9. CASE UNCHANGED vars
    <2>1. UNCHANGED <<rootdir, pc, rootdir_buffer, input, cluster, i>>
      BY <1>9 DEF vars, disk, buffers
    <2> QED BY <2>1 DEF InOrder, Listed, First
  <1> QED BY <1>3, <1>4, <1>5, <1>6, <1>7, <1>8, <1>9 DEF Next

LEMMA OrderKept ==
    ASSUME Numbered PROVE FatInv /\ WithinArea /\ FilledInOrder /\ [Next]_vars => FilledInOrder'
  <1> SUFFICES ASSUME FatInv, WithinArea, FilledInOrder, [Next]_vars PROVE FilledInOrder'
    OBVIOUS
  <1>1. PICK k \in 0..DirEntries : InOrder(k)
    BY DEF FilledInOrder
  <1>2. InOrder(k)' \/ (k + 1 \in 1..DirEntries /\ InOrder(k + 1)')
    BY <1>1, OrderStep
  <1>3. k + 1 \in 1..DirEntries => k + 1 \in 0..DirEntries
    BY Geometry
  <1> QED BY <1>2, <1>3 DEF FilledInOrder

\* fd implements FileSystem: read back as any reader of FAT16 would, the disk
\* is a list of whole files that only grows, one file at a time, wherever a
\* run is killed (fat16.c:262-317).
THEOREM FatImplementsFileSystem ==
    ASSUME Numbered PROVE Spec /\ []WithinArea => ImplementsFileSystem
  <1>1. Init => F!Init
    <2> SUFFICES ASSUME Init PROVE F!Init
      OBVIOUS
    <2>1. Listed = {}
      BY DEF Init, NoDir, Listed
    <2>2. Cardinality({}) = 0
      BY FS_EmptySet
    <2> QED BY <2>1, <2>2 DEF F!Init
  <1>2. /\ FatInv /\ WithinArea /\ FilledInOrder /\ [Next]_vars
        /\ listing = Entered /\ (listing = Entered)'
        => [F!Next]_listing
    <2> SUFFICES ASSUME FatInv, WithinArea, FilledInOrder, [Next]_vars,
                        listing = Entered, listing' = Entered'
                 PROVE  [F!Next]_listing
      OBVIOUS
    <2>1. PICK k \in 0..DirEntries : InOrder(k)
      BY DEF FilledInOrder
    <2>2. k \in Nat /\ Listed = 1..k /\ Cardinality(1..k) = k
      BY <2>1, Geometry, FS_Interval DEF InOrder
    <2>3. listing = [n \in 1..k |-> <<rootdir[n].file, Contents(rootdir[n].file)>>]
      BY <2>2 DEF Entered
    <2>4. CASE rootdir' = rootdir /\ InOrder(k)'
      <3>1. Entered' = Entered
        BY <2>4 DEF Entered, Listed, Contents
      <3> QED BY <3>1
    <2>5. CASE /\ k + 1 \in 1..DirEntries /\ InOrder(k + 1)' /\ input \in Files
               /\ rootdir' = [rootdir EXCEPT ![k + 1] = [file |-> input, FstClus |-> First]]
      <3>1. listing' = [n \in 1..(k + 1) |-> <<rootdir'[n].file, Contents(rootdir'[n].file)>>]
        <4>1. Listed' = 1..(k + 1) /\ Cardinality(1..(k + 1)) = k + 1
          BY <2>2, <2>5, FS_Interval DEF InOrder
        <4>2. \A f : Contents(f)' = Contents(f)
          BY DEF Contents, FileSectors
        <4> QED BY <4>1, <4>2 DEF Entered
      <3>2. /\ rootdir'[k + 1].file = input
            /\ \A n \in 1..k : rootdir'[n] = rootdir[n]
        BY <2>2, <2>5, Geometry DEF FatInv, TypeOK
      <3>3. listing' = Append(listing, <<input, Contents(input)>>)
        BY <2>2, <2>3, <3>1, <3>2
      <3>4. PICK f \in Files : f = input
        BY <2>5
      <3>5. F!Add(f)
        <4> DEFINE all == [g \in Files |-> [n \in 1..FileSectors(g) |-> <<g, n - 1>>]]
        <4>1. all[f] = Contents(f)
          BY DEF Contents
        <4> HIDE DEF all
        <4>2. listing' = Append(listing, <<f, all[f]>>)
          BY <3>3, <3>4, <4>1
        <4> QED BY <4>2, Zenon DEF F!Add, listing, all
      <3>6. F!Next
        BY <3>5, Zenon DEF F!Next
      <3> QED BY <3>6
    <2> QED BY <2>1, <2>4, <2>5, OrderStep
  <1>3. FatInv /\ WithinArea /\ FilledInOrder /\ [Next]_vars => FilledInOrder'
    BY OrderKept
  <1>4. FatInv /\ FilledInOrder => listing = Entered
    BY ListingIs
  <1> QED BY <1>1, <1>2, <1>3, <1>4, OrderInit, FatInvHolds, PTL
          DEF Spec, ImplementsFileSystem, F!Spec, listing
-----------------------------------------------------------------------------
(***************************************************************************)
(* The loader reads the entries of the FAT in a row, and jumps when one of *)
(* them ends the chain.                                                    *)
(***************************************************************************)

\* The first file of the disk, its chain within the sector of the FAT read.
FirstNear == 1 \in Listed /\ Extent(rootdir[1]) \subseteq 0..(SectorEntries - 1)

FirstFile == rootdir[1].file

\* Its sectors are loaded in order, each with the cluster the FAT says; the
\* one the last cluster stands for holds nothing of the file.
LoadInv ==
    /\ lpc \in {"off", "name"} => loaded = <<>>
    /\ lpc \in {"file", "kernel"} /\ FirstNear =>
         /\ DOMAIN loaded = 1..Len(loaded) /\ Len(loaded) \in Nat
         /\ \A k \in 1..Len(loaded) :
              k <= DataCount(FirstFile) => loaded[k] = SectorOf(FirstFile, k - 1)
         /\ lpc = "file" => /\ Len(loaded) <= DataCount(FirstFile)
                            /\ dx = rootdir[1].FstClus + Len(loaded) /\ di = dx
         /\ lpc = "kernel" => Len(loaded) = DataCount(FirstFile) + 1

\* One turn of .ReadFile: the cluster read is the next of the chain.
LEMMA ReadFileLoads ==
    ASSUME Numbered, FatInv, LoadInv, ReadFile, UNCHANGED vars
    PROVE  LoadInv'
  <1>1. /\ lpc = "file" /\ loaded' = Append(loaded, DiskSector(dx))
        /\ dx' \in FatWords(di) /\ di' = di + 1
        /\ lpc' = IF dx' >= Media THEN "kernel" ELSE "file"
    BY DEF ReadFile
  <1>2. UNCHANGED <<fat, rootdir, data>>
    BY DEF vars, disk
  <1>3. (FirstNear' <=> FirstNear) /\ FirstFile' = FirstFile
    BY <1>2 DEF FirstNear, FirstFile, Listed, Extent
  <1> SUFFICES ASSUME FirstNear PROVE LoadInv'
    BY <1>1, <1>3 DEF LoadInv
  <1> DEFINE e == rootdir[1]
             n == DataCount(FirstFile)
             z == Len(loaded)
  <1>4. /\ e.file = FirstFile /\ FirstFile \in Files /\ e.FstClus \in Nat /\ e.FstClus >= 2
        /\ Stored(e, fat, data) /\ Extent(e) = e.FstClus..(e.FstClus + n)
    <2>1. 1 \in Listed /\ e \in Entry /\ e # NoEntry
      BY DEF FatInv, TypeOK, Listed, FirstNear
    <2> QED BY <2>1, IntactIsStored, Geometry
            DEF FatInv, Entry, ListedAbove, FirstFile, Extent
  <1>5. n \in Nat \ {0}
    BY <1>4, AtLeastOne
  <1>6. /\ DOMAIN loaded = 1..z /\ z \in Nat /\ z <= n
        /\ dx = e.FstClus + z /\ di = dx
        /\ \A k \in 1..z : k <= n => loaded[k] = SectorOf(FirstFile, k - 1)
    BY <1>1 DEF LoadInv
  <1> HIDE DEF n
  <1>7. dx \in Extent(e) /\ dx \in Nat /\ dx < SectorEntries /\ dx \in Clusters /\ dx >= 2
    <2>1. dx \in Extent(e) /\ dx \in Nat
      BY <1>4, <1>5, <1>6
    <2>2. dx \in 0..(SectorEntries - 1) /\ 1 \in Listed
      BY <2>1 DEF FirstNear
    <2> QED BY <2>1, <2>2, ListedInUse, Geometry DEF FatInv
  <1>8. dx' = IF dx = e.FstClus + n THEN EndMark ELSE dx + 1
    <2>1. dx' = fat["fat0"][dx]
      BY <1>1, <1>6, <1>7 DEF FatWords
    <2> QED BY <1>4, <1>7, <2>1 DEF Stored, Copies, n
  <1>9. loaded' = Append(loaded, data[dx])
    BY <1>1, <1>7 DEF DiskSector
  <1>10. /\ Len(loaded') = z + 1 /\ DOMAIN loaded' = 1..(z + 1) /\ loaded'[z + 1] = data[dx]
         /\ \A k \in 1..z : loaded'[k] = loaded[k]
    BY <1>6, <1>9
  <1>11. n' = n
    BY <1>3 DEF n, DataCount
  <1>12. ASSUME NEW k \in 1..(z + 1), k <= n
         PROVE  loaded'[k] = SectorOf(FirstFile, k - 1)
    <2>1. CASE k = z + 1
      <3>1. k - 1 \in 0..(n - 1) /\ dx = e.FstClus + (k - 1)
        BY <1>4, <1>5, <1>6, <1>12, <2>1
      <3> QED BY <1>4, <1>10, <2>1, <3>1 DEF Stored, n
    <2>2. CASE k # z + 1
      <3>1. k \in 1..z
        BY <1>6, <2>2
      <3> QED BY <1>6, <1>10, <1>12, <3>1
    <2> QED BY <2>1, <2>2
  <1>13. \A f, k : SectorOf(f, k)' = SectorOf(f, k)
    BY DEF SectorOf
  <1>14. CASE z < n
    <2>1. dx' = dx + 1
      BY <1>4, <1>5, <1>6, <1>8, <1>14
    <2>2. dx + 1 \in Extent(e) /\ 1 \in Listed
      BY <1>4, <1>5, <1>6, <1>14 DEF FirstNear
    <2>3. dx + 1 \in Clusters /\ dx + 1 >= 2 /\ fat["fat0"][dx + 1] # 0
      BY <2>2, ListedInUse DEF FatInv
    <2>4. dx + 1 < DataSectors + 2
      BY <2>3 DEF FatInv, UsedFirst
    <2>5. ~ (dx' >= Media)
      BY <1>7, <2>1, <2>4, Geometry DEF Numbered
    <2>6. lpc' = "file"
      BY <1>1, <2>5
    <2>7. di' = dx'
      BY <1>1, <1>6, <2>1
    <2>8. dx' = e.FstClus + (z + 1) /\ z + 1 <= n
      BY <1>4, <1>5, <1>6, <1>14, <2>1
    <2> QED BY <1>2, <1>3, <1>6, <1>10, <1>11, <1>12, <1>13, <2>6, <2>7, <2>8 DEF LoadInv, n
  <1>15. CASE z = n
    <2>1. dx' = EndMark
      BY <1>6, <1>8, <1>15
    <2>2. lpc' = "kernel"
      BY <1>1, <2>1, Geometry
    <2> QED BY <1>2, <1>3, <1>6, <1>10, <1>11, <1>12, <1>13, <1>15, <2>2 DEF LoadInv, n
  <1>16. z < n \/ z = n
    <2>1. z \in Nat /\ z <= n
      BY <1>6
    <2> HIDE DEF z
    <2> QED BY <1>5, <2>1
  <1> QED BY <1>14, <1>15, <1>16

LEMMA CheckNameLoads ==
    ASSUME FatInv, LoadInv, CheckName, UNCHANGED vars
    PROVE  LoadInv'
  <1>1. /\ lpc = "name" /\ loaded' = loaded /\ loaded = <<>>
        /\ lpc' = "file" => dx' = rootdir[1].FstClus /\ di' = dx'
        /\ lpc' \in {"file", "name", "stop"}
    BY DEF CheckName, LoadInv
  <1>2. UNCHANGED <<fat, rootdir, data>>
    BY DEF vars, disk
  <1> SUFFICES ASSUME lpc' = "file", FirstNear PROVE LoadInv'
    BY <1>1, <1>2 DEF LoadInv, FirstNear, Listed, Extent
  <1>3. rootdir[1] \in Entry /\ rootdir[1] # NoEntry
    BY DEF FatInv, TypeOK, Listed, FirstNear
  <1>4. FirstFile \in Files /\ rootdir[1].FstClus \in Nat
    BY <1>3, Geometry DEF Entry, FirstFile
  <1>5. DataCount(FirstFile) \in Nat /\ DataCount(FirstFile)' = DataCount(FirstFile)
    BY <1>2, <1>4, AtLeastOne DEF DataCount, FirstFile
  <1>6. loaded' = <<>> /\ Len(loaded') = 0 /\ DOMAIN loaded' = 1..0
    BY <1>1
  <1>7. dx' = rootdir[1].FstClus + 0
    BY <1>1, <1>4
  <1> QED BY <1>1, <1>2, <1>5, <1>6, <1>7 DEF LoadInv

\* A step of the loader, or of fd before it, keeps the invariant.
LEMMA LoadStep ==
    ASSUME Numbered, FatInv, LoadInv, [LNext]_<<vars, loader>> PROVE LoadInv'
  <1>1. CASE lpc = "off" /\ UNCHANGED loader
    BY <1>1 DEF LoadInv, loader
  <1>2. CASE Boot
    BY <1>2 DEF Boot, LoadInv
  <1>3. CASE CheckName /\ UNCHANGED vars
    BY <1>3, CheckNameLoads
  <1>4. CASE ReadFile /\ UNCHANGED vars
    BY <1>4, ReadFileLoads
  <1>5. CASE UNCHANGED <<vars, loader>>
    BY <1>5 DEF LoadInv, loader, vars, disk, FirstNear, FirstFile, Listed, Extent,
         DataCount, SectorOf
  <1> QED BY <1>1, <1>2, <1>3, <1>4, <1>5 DEF LNext, Load

\* What is jumped to is the kernel, whole and in order, if it is the first file
\* and not empty - whatever was added after it and wherever fd was killed
\* (loader.asm:289-305, fat16.c:178-189).
THEOREM KernelAlwaysLoaded ==
    ASSUME Numbered, Size[Kernel] > 0
    PROVE  LSpec /\ []WithinArea => []KernelLoaded
  <1>1. LInit => Init /\ LoadInv
    BY DEF LInit, LoadInv
  <1>2. [LNext]_<<vars, loader>> => [Next]_vars
    BY DEF LNext
  <1>3. FatInv /\ LoadInv /\ [LNext]_<<vars, loader>> => LoadInv'
    BY LoadStep
  <1>4. FatInv /\ LoadInv => KernelLoaded
    <2> SUFFICES ASSUME FatInv, LoadInv, lpc = "kernel", KernelFirst
                 PROVE  /\ Len(loaded) = DataCount(Kernel) + 1
                        /\ \A k \in 1..DataCount(Kernel) : loaded[k] = <<Kernel, k - 1>>
      BY DEF KernelLoaded
    <2>1. FirstNear /\ FirstFile = Kernel /\ Kernel \in Files
      <3>1. rootdir[1] \in Entry /\ rootdir[1] # NoEntry
        BY DEF FatInv, TypeOK, Listed, KernelFirst
      <3> QED BY <3>1 DEF KernelFirst, FirstNear, FirstFile, Entry
    <2>2. FileSectors(Kernel) = DataCount(Kernel) /\ DataCount(Kernel) \in Nat
      BY <2>1, SectorsOfFile
    <2>3. \A k \in 1..DataCount(Kernel) : SectorOf(Kernel, k - 1) = <<Kernel, k - 1>>
      BY <2>1, <2>2, SectorsOfFile
    <2> QED BY <2>1, <2>2, <2>3 DEF LoadInv
  <1>5. Init => FatInv
    BY FatInit
  <1>6. FatInv /\ WithinArea /\ [Next]_vars => FatInv'
    BY FatStep
  <1> QED BY <1>1, <1>2, <1>3, <1>4, <1>5, <1>6, PTL DEF LSpec

\* The steps the loader has left where the disk begins with the kernel.
LoadLeft ==
    CASE lpc = "name" -> DataCount(Kernel) + 2
      [] lpc = "file" -> DataCount(Kernel) + 1 - Len(loaded)
      [] OTHER        -> 0

\* The search is at the first entry, or over: it never comes to an end without
\* the kernel.
SearchInv ==
    /\ lpc = "off" => dx = 0 /\ entry = 0
    /\ KernelFirst => /\ lpc # "stop"
                      /\ lpc = "name" => dx = 0 /\ entry = 0

\* The first entry compared has the name of the kernel.
LEMMA KernelFound ==
    ASSUME FatInv, SearchInv, KernelFirst, CheckName
    PROVE  lpc' = "file" /\ loaded' = loaded
  <1>1. lpc = "name" /\ entry + dx = 0
    <2>1. lpc = "name"
      BY DEF CheckName
    <2>2. dx = 0 /\ entry = 0
      BY <2>1 DEF SearchInv
    <2> QED BY <2>1, <2>2
  <1>2. Name[Kernel] = Columns
    <2>1. rootdir[1] \in Entry /\ rootdir[1] # NoEntry
      BY DEF FatInv, TypeOK, Listed, KernelFirst
    <2>2. Kernel \in Files
      BY <2>1 DEF KernelFirst, Entry
    <2> QED BY <2>2, KernelLoaderAssumption
  <1>3. NamesAt(0) = {Columns}
    <2>1. ~ (0 >= SectorDir) /\ 0 + 1 = 1
      BY KernelLoaderAssumption
    <2>2. 0 + 1 \in Listed /\ rootdir[0 + 1].file = Kernel
      BY <2>1 DEF KernelFirst
    <2> QED BY <1>2, <2>1, <2>2 DEF NamesAt
  <1>4. {c \in Columns : c >= NameLen - cx /\ c \notin Columns} = {}
    OBVIOUS
  <1> QED BY <1>1, <1>3, <1>4 DEF CheckName

LEMMA SearchStep ==
    ASSUME FatInv, SearchInv, [LNext]_<<vars, loader>> PROVE SearchInv'
  <1>1. UNCHANGED vars => (KernelFirst' <=> KernelFirst)
    BY DEF KernelFirst, Listed, Extent, DataCount, vars, disk
  <1>2. CASE lpc = "off" /\ UNCHANGED loader
    BY <1>2 DEF SearchInv, loader
  <1>3. CASE Boot
    BY <1>3 DEF Boot, SearchInv
  <1>4. CASE CheckName /\ UNCHANGED vars
    BY <1>1, <1>4, KernelFound DEF SearchInv, CheckName
  <1>5. CASE ReadFile /\ UNCHANGED vars
    BY <1>1, <1>5 DEF SearchInv, ReadFile
  <1>6. CASE UNCHANGED <<vars, loader>>
    BY <1>1, <1>6 DEF SearchInv, loader
  <1> QED BY <1>2, <1>3, <1>4, <1>5, <1>6 DEF LNext, Load

\* Where the kernel is first, its sectors are counted down.
LEMMA LoadCounts ==
    ASSUME FatInv, LoadInv, KernelFirst
    PROVE  /\ DataCount(Kernel) \in Nat
           /\ lpc = "file" => Len(loaded) \in Nat /\ Len(loaded) <= DataCount(Kernel)
  <1>1. FirstNear /\ FirstFile = Kernel /\ Kernel \in Files
    <2>1. rootdir[1] \in Entry /\ rootdir[1] # NoEntry
      BY DEF FatInv, TypeOK, Listed, KernelFirst
    <2> QED BY <2>1 DEF KernelFirst, FirstNear, FirstFile, Entry
  <1> QED BY <1>1, AtLeastOne DEF LoadInv

\* Each step takes one from them.
LEMMA LoadLeftFalls ==
    ASSUME FatInv, LoadInv, SearchInv, KernelFirst, Load, UNCHANGED vars
    PROVE  LoadLeft' < LoadLeft
  <1> DEFINE n == DataCount(Kernel)
  <1>1. KernelFirst' /\ n' = n
    BY DEF KernelFirst, Listed, Extent, DataCount, vars, disk
  <1>2. n \in Nat /\ (lpc = "file" => Len(loaded) \in Nat /\ Len(loaded) <= n)
    BY LoadCounts
  <1>3. LoadLeft' = CASE lpc' = "name" -> n + 2
                      [] lpc' = "file" -> n + 1 - Len(loaded')
                      [] OTHER         -> 0
    BY <1>1 DEF LoadLeft
  <1>4. CASE CheckName
    <2>1. lpc = "name" /\ lpc' = "file" /\ loaded' = <<>>
      BY <1>4, KernelFound DEF CheckName, LoadInv
    <2>2. LoadLeft = n + 2 /\ LoadLeft' = n + 1
      BY <1>2, <1>3, <2>1 DEF LoadLeft
    <2> QED BY <1>2, <2>2
  <1>5. CASE ReadFile
    <2>1. /\ lpc = "file" /\ loaded' = Append(loaded, DiskSector(dx))
          /\ lpc' \in {"file", "kernel"}
      BY <1>5 DEF ReadFile
    <2>2. Len(loaded') = Len(loaded) + 1
      BY <1>2, <2>1
    <2>3. LoadLeft = n + 1 - Len(loaded)
      BY <2>1 DEF LoadLeft
    <2> DEFINE z == Len(loaded)
    <2>4. z \in Nat /\ z <= n /\ LoadLeft = n + 1 - z
      BY <1>2, <2>1, <2>3
    <2>5. LoadLeft' = IF lpc' = "file" THEN n + 1 - (z + 1) ELSE 0
      BY <1>3, <2>1, <2>2
    <2> HIDE DEF n, z
    <2> QED BY <1>2, <2>4, <2>5
  <1> QED BY <1>4, <1>5 DEF Load

\* The loader comes to the kernel a disk begins with: it never gives up, the
\* bound of the model is not met, and each step brings LoadLeft down, which is
\* no more than the sectors of the kernel and 2 (loader.asm:258-305).
THEOREM LoaderComesToEnd ==
    ASSUME Numbered
    PROVE  LSpec /\ []WithinArea =>
             /\ [](KernelFirst => /\ lpc # "stop" /\ LoadLeft \in Nat
                                  /\ lpc = "file" => Len(loaded) < LoadBound)
             /\ [][KernelFirst /\ lpc # "off" => LoadLeft' < LoadLeft]_<<vars, loader>>
  <1> DEFINE loop == <<vars, loader>>
             Goes == KernelFirst /\ lpc # "off"
             Safe == KernelFirst => /\ lpc # "stop" /\ LoadLeft \in Nat
                                    /\ lpc = "file" => Len(loaded) < LoadBound
  <1>1. LInit => Init /\ LoadInv /\ SearchInv
    BY DEF LInit, LoadInv, SearchInv
  <1>2. [LNext]_loop => [Next]_vars
    BY DEF LNext
  <1>3. FatInv /\ LoadInv /\ [LNext]_loop => LoadInv'
    BY LoadStep
  <1>4. FatInv /\ SearchInv /\ [LNext]_loop => SearchInv'
    BY SearchStep
  <1>5. FatInv /\ LoadInv /\ SearchInv => Safe
    <2> SUFFICES ASSUME FatInv, LoadInv, SearchInv, KernelFirst PROVE Safe
      OBVIOUS
    <2>1. LoadLeft \in Nat /\ (lpc = "file" => Len(loaded) < LoadBound)
      BY LoadCounts, KernelLoaderAssumption DEF LoadLeft, KernelFirst
    <2> QED BY <2>1 DEF SearchInv
  <1>6. FatInv /\ LoadInv /\ SearchInv /\ [LNext]_loop => [Goes => LoadLeft' < LoadLeft]_loop
    <2> SUFFICES ASSUME FatInv, LoadInv, SearchInv, LNext, Goes PROVE LoadLeft' < LoadLeft
      OBVIOUS
    <2>1. Load /\ UNCHANGED vars
      BY DEF LNext, Boot
    <2> QED BY <2>1, LoadLeftFalls
  <1> HIDE DEF Safe, Goes, loop
  <1>7. LSpec => LInit /\ [][LNext]_loop
    BY PTL DEF LSpec, loop
  <1>8. LSpec /\ []WithinArea => []Safe /\ [][Goes => LoadLeft' < LoadLeft]_loop
    BY <1>1, <1>2, <1>3, <1>4, <1>5, <1>6, <1>7, FatInit, FatStep, PTL
  <1> QED BY <1>8 DEF Safe, Goes, loop
=============================================================================
