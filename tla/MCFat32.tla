------------------------------ MODULE MCFat32 --------------------------------
(* Numbers are scaled: 2^28 clusters become 128 and 2^32 becomes 2048, the    *)
(* marks at the end of the range stay.  Four clusters of two sectors, a FAT   *)
(* in two sectors, walks of three clusters, two partitions; cluster 6 is not  *)
(* one of the volume's, but has sectors on the disk.                          *)
EXTENDS Fat32

File(first, size) == [kind |-> "file", first |-> first, size |-> size]
End    == [kind |-> "end"]
Hidden == [kind |-> "hidden"]
Folder == [kind |-> "directory"]

\* Every sector as a directory would read it.  Sectors 3 and 4 are the root's.
Directories ==
    { [lba \in Lbas |-> CASE lba = 3 -> <<Hidden, File(3, 5)>>
                          [] lba = 4 -> <<File(4, 2), Folder>>
                          [] OTHER   -> <<File(3, 7), Hidden>>],
      [lba \in Lbas |-> CASE lba = 3 -> <<File(3, 6), File(0, 0)>>
                          [] lba = 4 -> <<Hidden, File(1, 1)>>
                          [] lba = 7 -> <<File(5, 4), File(3, 3)>>
                          [] OTHER   -> <<Folder, End>>] }

Fats == { <<2, a, b, c, d>> : a \in {2, 4, EndOfChain},
                              b \in {0, 3, 4, 5, 6, BAD},
                              c \in {3, 5, EndOfChain},
                              d \in {BAD, EndOfChain + 3} }
\* In sectors 1 and 2; what the others hold leads from cluster 6 to cluster 4.
AsFat(f) == [lba \in Lbas |-> [n \in 0..(FatPerSector - 1) |->
                LET cluster == (lba - FatStart) * FatPerSector + n
                IN  IF lba \in 1..2 /\ cluster >= 2 THEN f[cluster] ELSE 4]]

Table(there, where) == [k \in 1..Partitions |-> [fat32 |-> there, lba |-> where]]
NoPartitions == Table(FALSE, 0)

\* A volume on the whole disk, with damage.
VolumeDisks ==
    { [present |-> TRUE, bad |-> damaged, signature |-> TRUE,
       partitions |-> [lba \in Lbas |-> NoPartitions],
       valid |-> {0}, fat |-> AsFat(f), dir |-> directory] :
         damaged \in {{}} \cup { {lba} : lba \in {1, 2, 4, 6, 9} },
         f \in Fats, directory \in Directories }

\* Disks with an MBR, or neither MBR nor volume.  The other sectors name no
\* partition, one that the MBR may name too, or one that it does not name.
MbrDisks ==
    { [present |-> there, bad |-> damaged, signature |-> signature,
       partitions |-> [lba \in Lbas |-> IF lba = 0 THEN table ELSE other],
       valid |-> valid, fat |-> [lba \in Lbas |-> [n \in 0..(FatPerSector - 1) |-> EndOfChain]],
       dir |-> [lba \in Lbas |-> <<Folder, End>>]] :
         there \in BOOLEAN, damaged \in {{}, {0}, {4}, {8}}, signature \in BOOLEAN,
         table \in [1..Partitions -> [fat32 : BOOLEAN, lba : {4, 8, DiskSize + 1}]],
         other \in {NoPartitions, Table(TRUE, 8), Table(TRUE, 12)},
         valid \in SUBSET {4, 8, 12} }

MCDisks == VolumeDisks \cup MbrDisks
==============================================================================
