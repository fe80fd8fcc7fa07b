-------------------------------- MODULE Fat32 --------------------------------
(***************************************************************************)
(* The FAT32 reader, src/fs/fat32.c, and its user, the file browser of     *)
(* src/kernel/desktop.c.  A disk that is damaged in any way is a value of  *)
(* the variable disk: sectors that cannot be read, chains that end in the  *)
(* marks for bad or free clusters, that join, run in a circle or leave the *)
(* volume.                                                                 *)
(*                                                                         *)
(* Sectors are named by their LBA; a sector's data stands for itself, and  *)
(* the disk says what each sector would be taken for, whatever it is: a    *)
(* boot sector, a table of partitions, part of the FAT or of a directory.  *)
(* The buffer "sector", which all functions share, matters in fat32_init   *)
(* only: everywhere else it is read again before it is looked at.  LBAs    *)
(* are computed modulo WORD, as the code's are modulo 2^32.                *)
(***************************************************************************)
EXTENDS Naturals, Sequences, FiniteSets

CONSTANTS
    Disks,             \* the disks considered; see Disk
    DiskSize, LbaLimit,\* sectors of a disk; 0x0fffffff
    WORD,              \* 2^32
    Partitions,        \* entries of the MBR (4)
    SectorSize,        \* bytes (512)
    EntriesPerSector,  \* directory entries (16)
    FatPerSector,      \* clusters described by a sector of the FAT (128)
    FatStart, FatLength, SectorsPerCluster, ClusterCount, \* geometry of the volume
    EndOfChain,        \* 0x0ffffff8
    MaxFatCluster,     \* 0x0fffffff / 4
    StepLimit,         \* clusters a walk visits at most (1024)
    PreviewSize,       \* bytes the browser reads at most
    None

ASSUME GeometryAssumption ==
    /\ {LbaLimit, FatStart, FatLength, EndOfChain, MaxFatCluster, PreviewSize} \subseteq Nat
    /\ {DiskSize, WORD, Partitions, SectorSize, EntriesPerSector, FatPerSector, SectorsPerCluster,
        ClusterCount, StepLimit} \subseteq Nat \ {0}
    /\ EndOfChain > 2 /\ MaxFatCluster < EndOfChain - 1
    /\ None \notin Nat \cup Seq(Nat)

\* A volume's clusters are within the code's limit, and their addresses are
\* numbers of 32 bits wherever on the disk the volume begins.
ASSUME VolumeAssumption ==
    /\ ClusterCount + 1 <= MaxFatCluster
    /\ DiskSize + FatStart + FatLength + ClusterCount * SectorsPerCluster <= WORD

RootCluster == 2
BAD         == EndOfChain - 1 \* 0x0ffffff7
Lbas        == 0..(DiskSize - 1)
Clusters    == RootCluster..(ClusterCount + 1)

\* What a disk is made of: whether the drive answers, the sectors it cannot
\* read, the sectors that are valid FAT32 boot sectors, whether sector 0 ends
\* like an MBR, and what each sector holds when it is read as a table of
\* partitions, as a part of the FAT or as a part of a directory.
DiskShape == {"present", "bad", "valid", "signature", "partitions", "fat", "dir"}
IsDisk(d) ==
    /\ DOMAIN d = DiskShape
    /\ d.partitions \in [Lbas -> [1..Partitions -> [fat32 : BOOLEAN, lba : Nat]]]
    /\ d.fat \in [Lbas -> [0..(FatPerSector - 1) -> Nat]]
    /\ \A lba \in Lbas, slot \in 1..EntriesPerSector :
          d.dir[lba][slot].kind = "file" => {d.dir[lba][slot].size, d.dir[lba][slot].first} \subseteq Nat
ASSUME DisksAssumption == \A d \in Disks : IsDisk(d)

VARIABLES
    disk,
    pc,            \* "boot", or "running" after fat32_init
    mounted, partition_lba,
    browser_index, \* file_browser_index
    read,          \* history: the last file read and what it gave
    listed,        \* history: the entries shown since the index was last reset
    complete       \* history: the entries shown before that

volume == <<mounted, partition_lba>>
vars   == <<disk, pc, volume, browser_index, read, listed, complete>>

Init == /\ disk \in Disks
        /\ pc = "boot"
        /\ mounted = FALSE /\ partition_lba = 0
        /\ browser_index = 0
        /\ read = None
        /\ listed = <<>> /\ complete = None

\* block_read succeeds.
readable(lba) == disk.present /\ lba <= LbaLimit /\ lba \in Lbas \ disk.bad

-----------------------------------------------------------------------------
(***************************************************************************)
(* fat32_init: a volume on the whole disk, or else in the first partition  *)
(* of an MBR.  The scan reads every entry from the buffer, in which        *)
(* load_volume has put another sector if it could read one.                *)
(***************************************************************************)
loads(lba) == readable(lba) /\ lba \in disk.valid

partition_entry(sector, k) == disk.partitions[sector][k]

\* The buffer and the volume found after the first k entries.
scan[k \in 0..Partitions] ==
    IF k = 0 THEN [sector |-> 0, found |-> None]
    ELSE LET before == scan[k - 1]
             e == partition_entry(before.sector, k)
         IN  IF before.found # None \/ ~e.fat32 \/ ~readable(e.lba) THEN before
             ELSE [sector |-> e.lba, found |-> IF loads(e.lba) THEN e.lba ELSE None]

volume_lba_unchecked == \* mutant: the first FAT32 partition, valid or not
    IF loads(0) THEN 0
    ELSE IF readable(0) /\ disk.signature /\ partition_entry(0, 1).fat32 THEN partition_entry(0, 1).lba
    ELSE None

volume_lba_last == \* mutant: the search goes on after the first volume
    LET good == { k \in 1..Partitions : /\ readable(0) /\ disk.signature
                                        /\ partition_entry(0, k).fat32 /\ loads(partition_entry(0, k).lba) }
    IN  IF loads(0) THEN 0
        ELSE IF good = {} THEN None
        ELSE partition_entry(0, CHOOSE k \in good : \A j \in good : j <= k).lba

volume_lba == IF loads(0) THEN 0
              ELSE IF readable(0) /\ disk.signature THEN scan[Partitions].found
              ELSE None

fat32_init == /\ pc = "boot"
              /\ pc' = "running"
              /\ mounted' = (volume_lba # None)
              /\ partition_lba' = IF volume_lba = None THEN partition_lba ELSE volume_lba
              /\ UNCHANGED <<disk, browser_index, read, listed, complete>>

-----------------------------------------------------------------------------
(***************************************************************************)
(* Chains                                                                  *)
(***************************************************************************)
first_data_lba == partition_lba + FatStart + FatLength

cluster_lba_absolute(cluster, sector_offset) == \* mutant: as if the volume began at 0
    (FatStart + FatLength + (cluster - 2) * SectorsPerCluster + sector_offset) % WORD

cluster_lba(cluster, sector_offset) ==
    (first_data_lba + (cluster - 2) * SectorsPerCluster + sector_offset) % WORD

fat_sector(cluster) == partition_lba + FatStart + (cluster \div FatPerSector)

\* The number in a cluster's place: in the FAT or, for a number that is no
\* cluster of the volume, in the sector that lies where its entry would be.
fat_entry(cluster) == disk.fat[fat_sector(cluster)][cluster % FatPerSector]

next_cluster_blind(cluster) == \* mutant: a failed read is not noticed
    IF fat_sector(cluster) \in Lbas THEN fat_entry(cluster) ELSE BAD
next_cluster(cluster) ==
    IF cluster > MaxFatCluster \/ ~readable(fat_sector(cluster)) THEN BAD ELSE fat_entry(cluster)

in_chain(cluster) == cluster >= 2 /\ cluster < EndOfChain

\* The cluster each step of a walk looks at.
walk(first) ==
    LET w[k \in 0..StepLimit] ==
            IF k = 0 THEN first
            ELSE LET cluster == w[k - 1]
                 IN  IF in_chain(cluster) THEN next_cluster(cluster) ELSE cluster
    IN  w

\* The n-th sector of a walk, and whether the walk gets it.
lba_of(w, n) == cluster_lba(w[n \div SectorsPerCluster], n % SectorsPerCluster)
got(w, n) == /\ n \div SectorsPerCluster < StepLimit
             /\ in_chain(w[n \div SectorsPerCluster])
             /\ readable(lba_of(w, n))

sectors_floor(size) == size \div SectorSize \* mutant: the last part of a sector is left out
sectors(size) == (size + SectorSize - 1) \div SectorSize

\* read_file_clusters: the sectors copied, or None.
read_file_clusters(first, size, capacity) ==
    LET w == walk(first)
    IN  IF size <= capacity /\ \A n \in 0..(sectors(size) - 1) : got(w, n)
           THEN [n \in 1..sectors(size) |-> lba_of(w, n - 1)]
           ELSE None

(***************************************************************************)
(* fat32_root_entry(index): the walk of the root directory looks at place  *)
(* after place; deleted entries, long names and labels are not visible.    *)
(***************************************************************************)
Places == 0..(StepLimit * SectorsPerCluster * EntriesPerSector - 1)

entry_place(w, m) == <<lba_of(w, m \div EntriesPerSector), (m % EntriesPerSector) + 1>>
entry_at(place)   == disk.dir[place[1]][place[2]]

visible_places(w) ==
    { m \in Places : /\ \A l \in 0..m : /\ got(w, l \div EntriesPerSector)
                                       /\ entry_at(entry_place(w, l)).kind # "end"
                     /\ entry_at(entry_place(w, m)).kind # "hidden" }

\* How many of a set of places are before one of them.
rank(places, m) == Cardinality({ l \in places : l < m })

fat32_root_entry(index) ==
    LET w == walk(RootCluster)
        visible == visible_places(w)
        found == { m \in visible : rank(visible, m) = index }
    IN  IF found = {} THEN None ELSE entry_place(w, CHOOSE m \in found : TRUE)

\* desktop_file_browser_loop: show the next entry, with its first bytes if it
\* is a short file; begin again after the last.
FileBrowser ==
    /\ pc = "running"
    /\ mounted
    /\ LET found == fat32_root_entry(browser_index)
           e == entry_at(found)
       IN  IF found = None
              THEN /\ browser_index' = 0
                   /\ complete' = listed
                   /\ listed' = <<>>
                   /\ UNCHANGED read
              ELSE /\ browser_index' = browser_index + 1
                   /\ listed' = Append(listed, found)
                   /\ read' = IF e.kind = "file" /\ e.size <= PreviewSize
                                 THEN [first |-> e.first, size |-> e.size,
                                       data |-> read_file_clusters(e.first, e.size, PreviewSize)]
                                 ELSE read
                   /\ UNCHANGED complete
    /\ UNCHANGED <<disk, pc, volume>>

\* "file browser offline -> no mounted filesystem"
BrowserOffline == pc = "running" /\ ~mounted /\ UNCHANGED vars

Next == fat32_init \/ FileBrowser \/ BrowserOffline

Spec == Init /\ [][Next]_vars

-----------------------------------------------------------------------------
(***************************************************************************)
(* Properties                                                              *)
(***************************************************************************)
TypeOK == /\ DOMAIN disk = DiskShape
          /\ pc \in {"boot", "running"}
          /\ mounted \in BOOLEAN /\ partition_lba \in Lbas
          /\ browser_index = Len(listed)
          /\ listed \in Seq(Lbas \X (1..EntriesPerSector))

\* What is mounted is a valid boot sector: that of sector 0 if it is one, and
\* else that of the first partition of the MBR that has one; nothing is mounted
\* if there is none.  This is promised up to the first entry whose sector can be
\* read and is no boot sector: from there on fat32_init takes that sector for
\* the table, and may mount a volume that the MBR does not name or miss one that
\* it names (see NoVolumeMeansNone).
MbrEntry(k)  == disk.partitions[0][k]
HasVolume(k) == MbrEntry(k).fat32 /\ loads(MbrEntry(k).lba)
Misleads(k)  == MbrEntry(k).fat32 /\ readable(MbrEntry(k).lba) /\ ~loads(MbrEntry(k).lba)
PassedOver(k) == \A j \in 1..k : ~HasVolume(j) /\ ~Misleads(j)
MountsFirstVolume ==
    pc = "running" =>
        /\ mounted => loads(partition_lba)
        /\ loads(0) => mounted /\ partition_lba = 0
        /\ ~loads(0) /\ ~(readable(0) /\ disk.signature) => ~mounted
        /\ ~loads(0) /\ readable(0) /\ disk.signature =>
              /\ \A k \in 1..Partitions :
                    HasVolume(k) /\ PassedOver(k - 1) => mounted /\ partition_lba = MbrEntry(k).lba
              /\ PassedOver(Partitions) => ~mounted

\* A file as the disk describes it: clusters each of which names the next, and
\* all sectors needed to read it, those of the FAT included, are sound.
IsChain(s) == \A i \in 1..(Len(s) - 1) : /\ readable(fat_sector(s[i]))
                                         /\ fat_entry(s[i]) = s[i + 1]
DataSector(cluster, k) == partition_lba + FatStart + FatLength + (cluster - 2) * SectorsPerCluster + k
ChainsOf(first, length) == { s \in [1..length -> Clusters] : (length > 0 => s[1] = first) /\ IsChain(s) }
DataOf(s, n) == [i \in 1..n |-> DataSector(s[((i - 1) \div SectorsPerCluster) + 1],
                                           (i - 1) % SectorsPerCluster)]

\* The code knows neither how many clusters the volume has nor the mark for a
\* bad one: a chain that leaves the volume is followed to whatever sectors the
\* number leads to.  The mark leads to sectors no drive has, past LBA28, while a
\* cluster has at most eight sectors; with more its address wraps round.
MarkIsPastTheDisk ==
    /\ FatStart + FatLength + (BAD - 2) * SectorsPerCluster > LbaLimit
    /\ DiskSize + FatStart + FatLength + (BAD - 1) * SectorsPerCluster <= WORD
Strays(first, length) ==
    \E k \in 0..(length - 1) : /\ k < StepLimit
                               /\ walk(first)[k] \notin Clusters
                               /\ walk(first)[k] = BAD => ~MarkIsPastTheDisk

\* What a read returns is the file's data, cluster after cluster, never that of
\* a free cluster, of a bad one or of the wrong place, unless the chain it
\* follows strays; and a sound file is read.
ReadsTheFile ==
    read # None =>
        LET n == sectors(read.size)
            length == (n + SectorsPerCluster - 1) \div SectorsPerCluster
            sound == { s \in ChainsOf(read.first, length) :
                          \A i \in 1..n : readable(DataOf(s, n)[i]) }
        IN  IF read.data = None THEN sound = {} \/ length > StepLimit
            ELSE /\ Len(read.data) * SectorSize >= read.size
                 /\ (\E s \in sound : read.data = DataOf(s, n)) \/ Strays(read.first, length)

\* Between two resets of its index the browser shows every visible entry of a
\* sound root directory once, in the order of the chain.
EntryPlaces(s) == [m \in 0..(Len(s) * SectorsPerCluster * EntriesPerSector - 1) |->
                      LET n == m \div EntriesPerSector
                      IN  <<DataSector(s[(n \div SectorsPerCluster) + 1], n % SectorsPerCluster),
                            (m % EntriesPerSector) + 1>>]
IsListing(list, s) ==
    LET p == EntryPlaces(s)
        visible == { m \in DOMAIN p : /\ \A l \in 0..m : entry_at(p[l]).kind # "end"
                                      /\ entry_at(p[m]).kind # "hidden" }
    IN  /\ Len(list) = Cardinality(visible)
        /\ \A m \in visible : list[rank(visible, m) + 1] = p[m]
Terminated(s) == readable(fat_sector(s[Len(s)])) /\ fat_entry(s[Len(s)]) >= EndOfChain
BrowserShowsAll ==
    complete # None =>
        \A length \in 1..StepLimit : \A s \in ChainsOf(RootCluster, length) :
            LET n == length * SectorsPerCluster
            IN  Terminated(s) /\ (\A i \in 1..n : readable(DataOf(s, n)[i])) => IsListing(complete, s)

\* "fat32: no valid FAT32 volume": when the kernel says so no partition of the
\* MBR is one.
NoVolumeMeansNone ==
    pc = "running" /\ ~mounted /\ readable(0) /\ disk.signature =>
        \A k \in 1..Partitions : ~HasVolume(k)
==============================================================================
