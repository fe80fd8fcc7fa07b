----------------------------- MODULE Fat32_proofs -----------------------------
(***************************************************************************)
(* Theorems about the FAT32 reader and the file browser, for every disk,   *)
(* every geometry and every damage: the first volume is mounted, unless a  *)
(* partition misleads the search; a read gives the file or says that it    *)
(* cannot, unless it follows a chain out of the volume; and the browser    *)
(* shows a sound root directory completely.                                *)
(***************************************************************************)
EXTENDS Fat32, FiniteSetTheorems, SequenceTheorems, WellFoundedInduction, TLAPS

\* A set of numbers has a least element.
LEMMA LeastElement ==
    ASSUME NEW S \in SUBSET Nat, S # {}
    PROVE  \E m \in S : \A n \in S : m <= n
<1> DEFINE Less == { p \in Nat \X Nat : p[1] < p[2] }
<1>1. IsWellFoundedOn(Less, Nat)
  BY NatLessThanWellFounded DEF OpToRel
<1>2. \A m, n \in S : <<n, m>> \in Less <=> n < m
  OBVIOUS
<1>3. PICK m \in S : \A n \in S : <<n, m>> \notin Less
  <2> HIDE DEF Less
  <2> QED
    BY <1>1, WFMin
<1>4. ASSUME NEW n \in S PROVE m <= n
  <2>1. ~(n < m)
    BY <1>2, <1>3
  <2> QED
    BY <2>1
<1> QED
  BY <1>4

\* Recursion over the numbers up to N is well defined: the function its
\* equation describes is there.
Recursion(f, N, start, next) == f = [n \in 0..N |-> IF n = 0 THEN start ELSE next[n][f[n - 1]]]

LEMMA RecursionExists ==
    ASSUME NEW S, NEW N \in Nat, NEW start \in S, NEW next \in [1..N -> [S -> S]]
    PROVE  \E f \in [0..N -> S] : Recursion(f, N, start, next)
<1> DEFINE Value(f, n) == IF n = 0 THEN start ELSE next[n][f[n - 1]]
           Bad == { m \in 0..N : ~\E f \in [0..m -> S] : \A n \in 0..m : f[n] = Value(f, n) }
<1>1. Bad = {}
  <2>1. SUFFICES ASSUME Bad # {} PROVE FALSE
    OBVIOUS
  <2>2. Bad \in SUBSET Nat
    OBVIOUS
  <2>3. PICK m \in Bad : \A k \in Bad : m <= k
    <3> HIDE DEF Bad
    <3> QED
      BY <2>1, <2>2, LeastElement
  <2>4. m \in 0..N /\ ~\E f \in [0..m -> S] : \A n \in 0..m : f[n] = Value(f, n)
    BY <2>3
  <2>5. CASE m = 0
    <3> DEFINE f == [n \in 0..0 |-> start]
    <3>1. f \in [0..m -> S] /\ \A n \in 0..m : f[n] = Value(f, n)
      BY <2>5
    <3> QED
      BY <2>4, <3>1
  <2>6. CASE m # 0
    <3>1. m - 1 \in 0..N /\ m - 1 \notin Bad /\ m \in 1..N
      <4>1. m - 1 \in 0..N /\ m \in 1..N /\ ~(m <= m - 1)
        BY <2>4, <2>6
      <4> HIDE DEF Bad
      <4> QED
        BY <2>3, <4>1
    <3>2. PICK g \in [0..(m - 1) -> S] : \A n \in 0..(m - 1) : g[n] = Value(g, n)
      BY <3>1
    <3> DEFINE f == [n \in 0..m |-> IF n = m THEN next[m][g[m - 1]] ELSE g[n]]
    <3>3. next[m][g[m - 1]] \in S
      BY <3>1, <3>2
    <3>4. f \in [0..m -> S] /\ f[m] = next[m][g[m - 1]]
      BY <2>4, <2>6, <3>2, <3>3
    <3>5. \A n \in 0..(m - 1) : f[n] = g[n]
      BY <3>1
    <3>6. ASSUME NEW n \in 0..m PROVE f[n] = Value(f, n)
      <4> HIDE DEF f
      <4>1. CASE n = m
        BY <2>6, <3>1, <3>4, <3>5, <4>1
      <4>2. CASE n # m /\ n = 0
        BY <3>1, <3>2, <3>5, <4>2
      <4>3. CASE n # m /\ n # 0
        <5>1. n \in 0..(m - 1) /\ n - 1 \in 0..(m - 1)
          BY <3>1, <4>3
        <5> QED
          BY <3>2, <3>5, <4>3, <5>1
      <4> QED
        BY <4>1, <4>2, <4>3
    <3> HIDE DEF f
    <3> QED
      BY <2>4, <3>4, <3>6
  <2> QED
    BY <2>5, <2>6
<1>2. PICK f \in [0..N -> S] : \A n \in 0..N : f[n] = Value(f, n)
  BY <1>1
<1>3. f = [n \in 0..N |-> Value(f, n)]
  <2> HIDE DEF Value
  <2> QED
    BY <1>2
<1> QED
  BY <1>3 DEF Recursion

-----------------------------------------------------------------------------
(***************************************************************************)
(* fat32_init.                                                             *)
(***************************************************************************)

\* The disk has the shape all disks have.
LEMMA DiskFacts ==
    ASSUME disk \in Disks
    PROVE  /\ DOMAIN disk = DiskShape
           /\ disk.partitions \in [Lbas -> [1..Partitions -> [fat32 : BOOLEAN, lba : Nat]]]
           /\ disk.fat \in [Lbas -> [0..(FatPerSector - 1) -> Nat]]
           /\ \A lba \in Lbas, slot \in 1..EntriesPerSector :
                 disk.dir[lba][slot].kind = "file" =>
                    /\ disk.dir[lba][slot].size \in Nat
                    /\ disk.dir[lba][slot].first \in Nat
BY DisksAssumption DEF IsDisk

\* What one entry of the partition table makes of the scan.
ScanStep(k, x) ==
    IF x.found # None \/ ~partition_entry(x.sector, k).fat32
       \/ ~readable(partition_entry(x.sector, k).lba)
       THEN x
       ELSE [sector |-> partition_entry(x.sector, k).lba,
             found |-> IF loads(partition_entry(x.sector, k).lba)
                       THEN partition_entry(x.sector, k).lba ELSE None]

ScanStates == [sector : Lbas, found : Nat \cup {None}]

LEMMA ScanStepStates ==
    ASSUME disk \in Disks, NEW k \in 1..Partitions, NEW x \in ScanStates
    PROVE  ScanStep(k, x) \in ScanStates
<1>1. disk.partitions[x.sector] \in [1..Partitions -> [fat32 : BOOLEAN, lba : Nat]]
  BY DiskFacts DEF ScanStates
<1>2. partition_entry(x.sector, k).lba \in Nat
  BY <1>1 DEF partition_entry
<1>3. readable(partition_entry(x.sector, k).lba) => partition_entry(x.sector, k).lba \in Lbas
  BY DEF readable
<1> QED
  BY <1>2, <1>3 DEF ScanStep, ScanStates

LEMMA ScanUnfolds ==
    ASSUME disk \in Disks
    PROVE  /\ scan[0] = [sector |-> 0, found |-> None]
           /\ \A k \in 1..Partitions : scan[k] = ScanStep(k, scan[k - 1])
<1> DEFINE S == ScanStates
           start == [sector |-> 0, found |-> None]
           next == [k \in 1..Partitions |-> [x \in S |-> ScanStep(k, x)]]
<1>1. Partitions \in Nat /\ start \in S
  BY GeometryAssumption DEF ScanStates, Lbas
<1>2. ASSUME NEW k \in 1..Partitions, NEW x \in S PROVE ScanStep(k, x) \in S
  BY ScanStepStates
<1>3. next \in [1..Partitions -> [S -> S]]
  <2> HIDE DEF S
  <2> QED
    BY <1>2
<1>4. PICK f \in [0..Partitions -> S] : Recursion(f, Partitions, start, next)
  <2> HIDE DEF S, start, next
  <2> QED
    BY <1>1, <1>3, RecursionExists
<1>5. \A k \in 0..Partitions : f[k] = IF k = 0 THEN start ELSE ScanStep(k, f[k - 1])
  <2> SUFFICES ASSUME NEW k \in 0..Partitions
               PROVE  f[k] = IF k = 0 THEN start ELSE ScanStep(k, f[k - 1])
    OBVIOUS
  <2>1. f[k] = IF k = 0 THEN start ELSE next[k][f[k - 1]]
    <3> HIDE DEF S, start, next
    <3> QED
      BY <1>4 DEF Recursion
  <2>2. k # 0 => k \in 1..Partitions /\ k - 1 \in 0..Partitions
    BY <1>1
  <2>3. k # 0 => f[k - 1] \in S
    <3> HIDE DEF S
    <3> QED
      BY <1>4, <2>2
  <2> HIDE DEF S, start
  <2> QED
    BY <2>1, <2>2, <2>3
<1>6. \A k \in 0..Partitions :
         ScanStep(k, f[k - 1]) = LET before == f[k - 1]
                                     e == partition_entry(before.sector, k)
                                 IN  IF before.found # None \/ ~e.fat32 \/ ~readable(e.lba) THEN before
                                     ELSE [sector |-> e.lba,
                                           found |-> IF loads(e.lba) THEN e.lba ELSE None]
  BY DEF ScanStep
<1>7. f = [k \in 0..Partitions |->
             IF k = 0 THEN [sector |-> 0, found |-> None]
             ELSE LET before == f[k - 1]
                      e == partition_entry(before.sector, k)
                  IN  IF before.found # None \/ ~e.fat32 \/ ~readable(e.lba) THEN before
                      ELSE [sector |-> e.lba, found |-> IF loads(e.lba) THEN e.lba ELSE None]]
  <2> HIDE DEF S
  <2> QED
    BY <1>4, <1>5, <1>6
<1>8. scan = [k \in 0..Partitions |->
             IF k = 0 THEN [sector |-> 0, found |-> None]
             ELSE LET before == scan[k - 1]
                      e == partition_entry(before.sector, k)
                  IN  IF before.found # None \/ ~e.fat32 \/ ~readable(e.lba) THEN before
                      ELSE [sector |-> e.lba, found |-> IF loads(e.lba) THEN e.lba ELSE None]]
  BY <1>7 DEF scan
<1>9. \A k \in 0..Partitions : scan[k] = IF k = 0 THEN start ELSE ScanStep(k, scan[k - 1])
  BY <1>8 DEF ScanStep
<1>10. 0 \in 0..Partitions /\ \A k \in 1..Partitions : k \in 0..Partitions /\ k # 0
  BY <1>1
<1> QED
  BY <1>9, <1>10

\* What the scan holds after k entries: the sector it read last and, if it has
\* found a volume, its place; and, up to the first entry that misleads it, what
\* the entries of the MBR say.
ScanHolds(k) ==
    /\ scan[k] \in ScanStates
    /\ scan[k].found # None => loads(scan[k].found)
    /\ PassedOver(k) => scan[k] = [sector |-> 0, found |-> None]
    /\ \A j \in 1..k : HasVolume(j) /\ PassedOver(j - 1) => scan[k].found = MbrEntry(j).lba

LEMMA ScanHoldsNext ==
    ASSUME disk \in Disks, NEW k \in 1..Partitions, ScanHolds(k - 1)
    PROVE  ScanHolds(k)
<1> DEFINE x == scan[k - 1]
           e == partition_entry(x.sector, k)
           m == MbrEntry(k)
<1>1. Partitions \in Nat /\ k \in Nat /\ k - 1 \in Nat /\ k \notin 1..(k - 1)
  BY GeometryAssumption
<1>2. scan[k] = ScanStep(k, x)
  BY ScanUnfolds
<1>3. x \in ScanStates
  BY DEF ScanHolds
<1>4. scan[k] \in ScanStates
  BY <1>2, <1>3, ScanStepStates
<1>5. scan[k] = x \/ (x.found = None /\ scan[k] = [sector |-> e.lba, found |-> IF loads(e.lba) THEN e.lba ELSE None])
  BY <1>2 DEF ScanStep
<1>6. scan[k].found # None => loads(scan[k].found)
  <2>1. CASE scan[k] = x
    BY <2>1 DEF ScanHolds
  <2>2. CASE scan[k] # x
    BY <1>5, <2>2
  <2> QED
    BY <2>1, <2>2
<1>7. \A j \in 1..k : j # k => j \in 1..(k - 1)
  BY <1>1
<1>8. PassedOver(k) => PassedOver(k - 1) /\ ~HasVolume(k) /\ ~Misleads(k)
  <2>1. \A j \in 1..(k - 1) : j \in 1..k
    BY <1>1
  <2>2. k \in 1..k
    BY <1>1
  <2> QED
    BY <2>1, <2>2 DEF PassedOver
<1>9. PassedOver(k - 1) => /\ x.sector = 0 /\ x.found = None
                           /\ scan[k] = IF ~m.fat32 \/ ~readable(m.lba) THEN x
                                        ELSE [sector |-> m.lba, found |-> IF loads(m.lba) THEN m.lba ELSE None]
  <2> SUFFICES ASSUME PassedOver(k - 1)
               PROVE  /\ x.sector = 0 /\ x.found = None
                      /\ scan[k] = IF ~m.fat32 \/ ~readable(m.lba) THEN x
                                   ELSE [sector |-> m.lba, found |-> IF loads(m.lba) THEN m.lba ELSE None]
    OBVIOUS
  <2>1. x = [sector |-> 0, found |-> None]
    BY DEF ScanHolds
  <2>2. x.sector = 0 /\ x.found = None
    BY <2>1
  <2>3. e = m
    BY <2>2 DEF partition_entry, MbrEntry
  <2> HIDE DEF x, e, m
  <2>4. ScanStep(k, x) = IF ~m.fat32 \/ ~readable(m.lba) THEN x
                         ELSE [sector |-> m.lba, found |-> IF loads(m.lba) THEN m.lba ELSE None]
    BY <2>2, <2>3 DEF ScanStep, e
  <2> QED
    BY <1>2, <2>2, <2>4
<1>10. PassedOver(k) => scan[k] = [sector |-> 0, found |-> None]
  <2> SUFFICES ASSUME PassedOver(k) PROVE scan[k] = [sector |-> 0, found |-> None]
    OBVIOUS
  <2>1. PassedOver(k - 1) /\ ~HasVolume(k) /\ ~Misleads(k)
    BY <1>8
  <2>2. ~m.fat32 \/ ~readable(m.lba)
    BY <2>1 DEF HasVolume, Misleads
  <2>3. scan[k] = x
    <3> HIDE DEF x, m
    <3> QED
      BY <1>9, <2>1, <2>2
  <2> QED
    BY <2>1, <2>3 DEF ScanHolds
<1>11. ASSUME NEW j \in 1..k, HasVolume(j), PassedOver(j - 1)
       PROVE  scan[k].found = MbrEntry(j).lba
  <2>1. CASE j = k
    <3>1. m.fat32 /\ readable(m.lba) /\ loads(m.lba)
      BY <1>11, <2>1 DEF HasVolume, loads
    <3>2. scan[k] = [sector |-> m.lba, found |-> m.lba]
      <4> HIDE DEF x, m
      <4> QED
        BY <1>9, <1>11, <2>1, <3>1
    <3> QED
      BY <2>1, <3>2
  <2>2. CASE j # k
    <3>1. x.found = MbrEntry(j).lba
      BY <1>7, <1>11, <2>2 DEF ScanHolds
    <3>2. x.found # None
      <4>1. MbrEntry(j).lba \in Nat
        BY <1>11 DEF HasVolume, loads, readable, Lbas
      <4> QED
        BY <3>1, <4>1, GeometryAssumption
    <3> QED
      BY <1>5, <3>1, <3>2
  <2> QED
    BY <2>1, <2>2
<1> QED
  BY <1>4, <1>6, <1>10, <1>11 DEF ScanHolds

LEMMA ScanFinds ==
    ASSUME disk \in Disks
    PROVE  \A k \in 0..Partitions : ScanHolds(k)
<1> DEFINE Bad == { k \in 0..Partitions : ~ScanHolds(k) }
<1>1. SUFFICES ASSUME Bad # {} PROVE FALSE
  OBVIOUS
<1>2. Partitions \in Nat /\ Bad \in SUBSET Nat
  BY GeometryAssumption
<1>3. PICK k \in Bad : \A n \in Bad : k <= n
  <2> HIDE DEF Bad
  <2> QED
    BY <1>1, <1>2, LeastElement
<1>4. k \in 0..Partitions /\ ~ScanHolds(k)
  BY <1>3
<1>5. k # 0
  <2>1. scan[0] = [sector |-> 0, found |-> None]
    BY ScanUnfolds
  <2>2. 0 \in Lbas
    BY GeometryAssumption DEF Lbas
  <2>3. ScanHolds(0)
    BY <2>1, <2>2 DEF ScanHolds, ScanStates
  <2> QED
    BY <1>4, <2>3
<1>6. k \in 1..Partitions /\ k - 1 \in 0..Partitions /\ ~(k <= k - 1)
  BY <1>2, <1>4, <1>5
<1>7. ScanHolds(k - 1)
  <2>1. k - 1 \notin Bad
    <3> HIDE DEF Bad
    <3> QED
      BY <1>3, <1>6
  <2> QED
    BY <1>6, <2>1
<1> QED
  BY <1>4, <1>6, <1>7, ScanHoldsNext

\* What fat32_init mounts.
LEMMA VolumeIsFirst ==
    ASSUME disk \in Disks
    PROVE  /\ volume_lba # None => loads(volume_lba) /\ volume_lba \in Lbas
           /\ loads(0) => volume_lba = 0
           /\ ~loads(0) /\ ~(readable(0) /\ disk.signature) => volume_lba = None
           /\ ~loads(0) /\ readable(0) /\ disk.signature =>
                 /\ \A k \in 1..Partitions :
                       HasVolume(k) /\ PassedOver(k - 1) => volume_lba = MbrEntry(k).lba /\ volume_lba # None
                 /\ PassedOver(Partitions) => volume_lba = None
<1>1. ScanHolds(Partitions)
  BY GeometryAssumption, ScanFinds
<1>2. \A k \in 1..Partitions : HasVolume(k) => MbrEntry(k).lba # None
  <2>1. \A k \in 1..Partitions : HasVolume(k) => MbrEntry(k).lba \in Nat
    BY DEF HasVolume, loads, readable, Lbas
  <2> QED
    BY <2>1, GeometryAssumption
<1>3. CASE loads(0)
  BY <1>3 DEF volume_lba, loads, readable
<1>4. CASE ~loads(0) /\ ~(readable(0) /\ disk.signature)
  BY <1>4 DEF volume_lba
<1>5. CASE ~loads(0) /\ readable(0) /\ disk.signature
  <2>1. volume_lba = scan[Partitions].found
    BY <1>5 DEF volume_lba
  <2>2. volume_lba # None => loads(volume_lba) /\ volume_lba \in Lbas
    BY <1>1, <2>1 DEF ScanHolds, loads, readable
  <2>3. PassedOver(Partitions) => volume_lba = None
    BY <1>1, <2>1 DEF ScanHolds
  <2>4. \A k \in 1..Partitions : HasVolume(k) /\ PassedOver(k - 1) => volume_lba = MbrEntry(k).lba
    BY <1>1, <2>1 DEF ScanHolds
  <2> QED
    BY <1>2, <1>5, <2>2, <2>3, <2>4
<1> QED
  BY <1>3, <1>4, <1>5

-----------------------------------------------------------------------------
(***************************************************************************)
(* Chains and files.                                                       *)
(***************************************************************************)

\* Sizes as numbers of parts: x parts of d elements hold the elements below
\* x * d, and the smallest number of parts for n elements.
LEMMA Parts ==
    ASSUME NEW d \in Nat \ {0}, NEW n \in Nat
    PROVE  /\ n \div d \in Nat /\ n % d \in 0..(d - 1) /\ n = (n \div d) * d + (n % d)
           /\ \A x \in Nat : n < x * d <=> n \div d < x
           /\ \A x \in Nat : (x * d) \div d = x /\ (x * d) % d = 0
<1>1. n \div d \in Nat /\ n % d \in 0..(d - 1) /\ n = (n \div d) * d + (n % d)
  OBVIOUS
<1> DEFINE q == n \div d
           r == n % d
<1>2. q \in Nat /\ r \in Nat /\ r < d /\ n = q * d + r
  BY <1>1
<1> HIDE DEF q, r
<1>3. ASSUME NEW x \in Nat PROVE n < x * d <=> q < x
  <2>1. CASE q < x
    <3>1. (q + 1) * d <= x * d
      BY <1>2, <2>1
    <3>2. (q + 1) * d = q * d + d
      BY <1>2
    <3> QED
      BY <1>2, <2>1, <3>1, <3>2
  <2>2. CASE ~(q < x)
    <3>1. x * d <= q * d
      BY <1>2, <2>2
    <3> QED
      BY <1>2, <2>2, <3>1
  <2> QED
    BY <2>1, <2>2
<1>4. \A x \in Nat : (x * d) \div d = x /\ (x * d) % d = 0
  OBVIOUS
<1> QED
  BY <1>1, <1>3, <1>4 DEF q

LEMMA PartsNeeded ==
    ASSUME NEW d \in Nat \ {0}, NEW n \in Nat
    PROVE  /\ (n + d - 1) \div d \in Nat
           /\ n <= ((n + d - 1) \div d) * d
           /\ \A x \in Nat : x < (n + d - 1) \div d <=> x * d < n
<1> DEFINE m == n + d - 1
           q == m \div d
<1>1. m \in Nat /\ m = n + d - 1
  OBVIOUS
<1> HIDE DEF m
<1>2. q \in Nat /\ m % d \in 0..(d - 1) /\ m = q * d + (m % d)
  BY <1>1, Parts
<1>3. \A x \in Nat : m < x * d <=> q < x
  BY <1>1, Parts
<1> HIDE DEF q
<1>4. n <= q * d
  BY <1>1, <1>2
<1>5. ASSUME NEW x \in Nat PROVE x < q <=> x * d < n
  <2>1. m < (x + 1) * d <=> q < x + 1
    BY <1>3
  <2>2. (x + 1) * d = x * d + d /\ x * d \in Nat
    OBVIOUS
  <2>3. m < (x + 1) * d <=> n - 1 < x * d
    BY <1>1, <2>2
  <2> QED
    BY <1>2, <2>1, <2>2, <2>3
<1> QED
  BY <1>2, <1>4, <1>5 DEF m, q

\* The state the reader works in.
MountedDisk == disk \in Disks /\ partition_lba \in Lbas

\* One step of a walk.
Follow(cluster) == IF in_chain(cluster) THEN next_cluster(cluster) ELSE cluster

LEMMA FollowNumber ==
    ASSUME MountedDisk, NEW n \in Nat
    PROVE  Follow(n) \in Nat
<1>1. BAD \in Nat
  BY GeometryAssumption DEF BAD
<1>2. ASSUME readable(fat_sector(n)) PROVE fat_entry(n) \in Nat
  <2>1. fat_sector(n) \in Lbas
    BY <1>2 DEF readable
  <2>2. n % FatPerSector \in 0..(FatPerSector - 1)
    <3>1. FatPerSector \in Nat \ {0}
      BY GeometryAssumption
    <3> QED
      BY <3>1, Parts
  <2>3. disk.fat[fat_sector(n)] \in [0..(FatPerSector - 1) -> Nat]
    BY <2>1, DiskFacts DEF MountedDisk
  <2> QED
    BY <2>2, <2>3 DEF fat_entry
<1> QED
  BY <1>1, <1>2 DEF Follow, next_cluster

LEMMA WalkUnfolds ==
    ASSUME MountedDisk, NEW first \in Nat
    PROVE  /\ walk(first)[0] = first
           /\ \A k \in 1..StepLimit : walk(first)[k] = Follow(walk(first)[k - 1])
           /\ \A k \in 0..StepLimit : walk(first)[k] \in Nat
<1> DEFINE S == Nat
           next == [k \in 1..StepLimit |-> [x \in S |-> Follow(x)]]
           w == walk(first)
<1>1. StepLimit \in Nat /\ first \in S
  BY GeometryAssumption
<1>2. \A x \in S : Follow(x) \in S
  BY FollowNumber
<1>3. next \in [1..StepLimit -> [S -> S]]
  <2> HIDE DEF S
  <2> QED
    BY <1>2
<1>4. PICK f \in [0..StepLimit -> S] : Recursion(f, StepLimit, first, next)
  <2> HIDE DEF S, next
  <2> QED
    BY <1>1, <1>3, RecursionExists
<1>5. ASSUME NEW k \in 0..StepLimit
      PROVE  f[k] = IF k = 0 THEN first ELSE Follow(f[k - 1])
  <2>1. f[k] = IF k = 0 THEN first ELSE next[k][f[k - 1]]
    <3> HIDE DEF S, next
    <3> QED
      BY <1>4 DEF Recursion
  <2>2. k # 0 => k \in 1..StepLimit /\ k - 1 \in 0..StepLimit
    BY <1>1
  <2>3. k # 0 => f[k - 1] \in S
    <3> HIDE DEF S
    <3> QED
      BY <1>4, <2>2
  <2> HIDE DEF S
  <2> QED
    BY <2>1, <2>2, <2>3
<1>6. f = [k \in 0..StepLimit |->
             IF k = 0 THEN first
             ELSE LET cluster == f[k - 1]
                  IN  IF in_chain(cluster) THEN next_cluster(cluster) ELSE cluster]
  <2> HIDE DEF S
  <2> QED
    BY <1>4, <1>5 DEF Follow
<1>7. w = [k \in 0..StepLimit |->
             IF k = 0 THEN first
             ELSE LET cluster == w[k - 1]
                  IN  IF in_chain(cluster) THEN next_cluster(cluster) ELSE cluster]
  BY <1>6 DEF walk
<1> HIDE DEF w
<1>8. \A k \in 0..StepLimit : w[k] = IF k = 0 THEN first ELSE Follow(w[k - 1])
  BY <1>7 DEF Follow
<1>9. 0 \in 0..StepLimit /\ \A k \in 1..StepLimit : k \in 0..StepLimit /\ k # 0
  BY <1>1
<1>10. \A k \in 0..StepLimit : w[k] \in Nat
  <2> DEFINE Bad == { k \in 0..StepLimit : w[k] \notin Nat }
  <2>1. SUFFICES ASSUME Bad # {} PROVE FALSE
    OBVIOUS
  <2>2. Bad \in SUBSET Nat
    BY <1>1
  <2>3. PICK k \in Bad : \A n \in Bad : k <= n
    <3> HIDE DEF Bad
    <3> QED
      BY <2>1, <2>2, LeastElement
  <2>4. k \in 0..StepLimit /\ w[k] \notin Nat
    BY <2>3
  <2>5. k # 0
    BY <1>8, <2>4
  <2>6. k - 1 \in 0..StepLimit /\ ~(k <= k - 1)
    BY <1>1, <2>4, <2>5
  <2>7. w[k - 1] \in Nat
    <3>1. k - 1 \notin Bad
      <4> HIDE DEF Bad
      <4> QED
        BY <2>3, <2>6
    <3> QED
      BY <2>6, <3>1
  <2> QED
    BY <1>8, <2>4, <2>5, <2>7, FollowNumber
<1> QED
  BY <1>8, <1>9, <1>10 DEF w

\* The clusters of a volume are neither the marks nor out of the FAT's reach.
LEMMA VolumeClusters ==
    ASSUME MountedDisk
    PROVE  \A c \in Clusters : /\ c \in Nat /\ 2 <= c /\ c <= ClusterCount + 1
                               /\ in_chain(c) /\ ~(c > MaxFatCluster) /\ c # BAD
<1>1. /\ MaxFatCluster \in Nat /\ EndOfChain \in Nat /\ MaxFatCluster < EndOfChain - 1
      /\ ClusterCount \in Nat /\ ClusterCount + 1 <= MaxFatCluster
  BY GeometryAssumption, VolumeAssumption
<1> QED
  BY <1>1 DEF Clusters, RootCluster, in_chain, BAD

\* The address of a sector does not wrap for a cluster of the volume, nor, with
\* up to eight sectors in a cluster, for the bad mark, whose sectors nothing can
\* read.
LEMMA Sizes ==
    ASSUME MountedDisk
    PROVE  /\ SectorsPerCluster \in Nat \ {0} /\ FatStart \in Nat /\ FatLength \in Nat
           /\ WORD \in Nat /\ DiskSize \in Nat /\ LbaLimit \in Nat
           /\ partition_lba \in Nat /\ partition_lba < DiskSize
           /\ BAD \in Nat /\ BAD >= 2
           /\ ClusterCount \in Nat
<1>1. /\ SectorsPerCluster \in Nat \ {0} /\ FatStart \in Nat /\ FatLength \in Nat
      /\ WORD \in Nat /\ DiskSize \in Nat /\ LbaLimit \in Nat /\ ClusterCount \in Nat
      /\ EndOfChain \in Nat /\ EndOfChain > 2
  BY GeometryAssumption
<1> QED
  BY <1>1 DEF MountedDisk, Lbas, BAD

LEMMA Address ==
    ASSUME MountedDisk, NEW k \in 0..(SectorsPerCluster - 1), NEW c \in Nat, NEW last \in Nat,
           2 <= c, c <= last,
           DiskSize + FatStart + FatLength + (last - 1) * SectorsPerCluster <= WORD
    PROVE  /\ (c - 2) * SectorsPerCluster \in Nat
           /\ cluster_lba(c, k) = partition_lba + FatStart + FatLength + (c - 2) * SectorsPerCluster + k
<1> DEFINE P == SectorsPerCluster
           x == (c - 2) * P
           y == (last - 2) * P
           z == (last - 1) * P
<1>1. /\ P \in Nat \ {0} /\ FatStart \in Nat /\ FatLength \in Nat /\ WORD \in Nat /\ DiskSize \in Nat
      /\ partition_lba \in Nat /\ partition_lba < DiskSize /\ k \in Nat /\ k < P
  <2>1. P \in Nat \ {0}
    BY Sizes
  <2> HIDE DEF P, x, y, z
  <2>2. k \in 0..(P - 1)
    BY DEF P
  <2> QED
    BY <2>1, <2>2, Sizes
<1>2. c - 2 \in Nat /\ last - 2 \in Nat /\ last - 1 \in Nat /\ c - 2 <= last - 2 /\ last - 1 = last - 2 + 1
  OBVIOUS
<1>3. DiskSize + FatStart + FatLength + z <= WORD
  OBVIOUS
<1>4. x \in Nat /\ y \in Nat /\ z \in Nat /\ x <= y /\ z = y + P
  <2> HIDE DEF P
  <2> QED
    BY <1>1, <1>2
<1>5. cluster_lba(c, k) = (partition_lba + FatStart + FatLength + x + k) % WORD
  BY DEF cluster_lba, first_data_lba
<1> HIDE DEF P, x, y, z
<1>6. /\ partition_lba + FatStart + FatLength + x + k \in Nat
      /\ partition_lba + FatStart + FatLength + x + k < WORD
  BY <1>1, <1>3, <1>4
<1>7. (partition_lba + FatStart + FatLength + x + k) % WORD = partition_lba + FatStart + FatLength + x + k
  BY <1>1, <1>6
<1> QED
  BY <1>4, <1>5, <1>7 DEF x, P

LEMMA Addresses ==
    ASSUME MountedDisk, NEW k \in 0..(SectorsPerCluster - 1)
    PROVE  /\ \A cluster \in Clusters : cluster_lba(cluster, k) = DataSector(cluster, k)
           /\ MarkIsPastTheDisk => ~readable(cluster_lba(BAD, k))
<1>1. ASSUME NEW c \in Clusters PROVE cluster_lba(c, k) = DataSector(c, k)
  <2> DEFINE last == ClusterCount + 1
  <2>1. last \in Nat /\ last - 1 = ClusterCount
    BY Sizes
  <2>2. DiskSize + FatStart + FatLength + (last - 1) * SectorsPerCluster <= WORD
    BY <2>1, VolumeAssumption
  <2>3. c \in Nat /\ 2 <= c /\ c <= last
    BY VolumeClusters
  <2> HIDE DEF last
  <2> QED
    BY <2>1, <2>2, <2>3, Address DEF DataSector
<1>2. ASSUME MarkIsPastTheDisk PROVE ~readable(cluster_lba(BAD, k))
  <2>1. BAD \in Nat /\ 2 <= BAD /\ BAD <= BAD
    BY Sizes
  <2>2. DiskSize + FatStart + FatLength + (BAD - 1) * SectorsPerCluster <= WORD
    BY <1>2 DEF MarkIsPastTheDisk
  <2>3. /\ (BAD - 2) * SectorsPerCluster \in Nat
        /\ cluster_lba(BAD, k) = partition_lba + FatStart + FatLength + (BAD - 2) * SectorsPerCluster + k
    BY <2>1, <2>2, Address
  <2> DEFINE y == (BAD - 2) * SectorsPerCluster
  <2>4. FatStart + FatLength + y > LbaLimit
    BY <1>2 DEF MarkIsPastTheDisk
  <2>5. /\ FatStart \in Nat /\ FatLength \in Nat /\ LbaLimit \in Nat /\ partition_lba \in Nat /\ k \in Nat
        /\ y \in Nat /\ cluster_lba(BAD, k) = partition_lba + FatStart + FatLength + y + k
    BY <2>3, Sizes
  <2> HIDE DEF y
  <2>6. ~(cluster_lba(BAD, k) <= LbaLimit)
    BY <2>4, <2>5
  <2> QED
    BY <2>6 DEF readable
<1> QED
  BY <1>1, <1>2

\* What a walk gets is a sector of a cluster of the volume, or of a number that
\* is none.
LEMMA WhatIsGot ==
    ASSUME MountedDisk, NEW first \in Nat, NEW n \in Nat, got(walk(first), n)
    PROVE  LET k == n \div SectorsPerCluster
           IN  /\ k \in 0..(StepLimit - 1)
               /\ walk(first)[k] = BAD => ~MarkIsPastTheDisk
               /\ readable(lba_of(walk(first), n))
<1> DEFINE k == n \div SectorsPerCluster
           r == n % SectorsPerCluster
           w == walk(first)
<1>0. SectorsPerCluster \in Nat \ {0} /\ StepLimit \in Nat
  BY GeometryAssumption
<1>1. k \in Nat /\ r \in 0..(SectorsPerCluster - 1)
  BY <1>0, Parts
<1>2. k < StepLimit /\ in_chain(w[k]) /\ readable(cluster_lba(w[k], r))
  BY DEF got, lba_of
<1>3. lba_of(w, n) = cluster_lba(w[k], r)
  BY DEF lba_of
<1> HIDE DEF k, r, w
<1>4. w[k] = BAD => ~MarkIsPastTheDisk
  BY <1>1, <1>2, Addresses
<1> QED
  BY <1>0, <1>1, <1>2, <1>3, <1>4 DEF k, r, w

\* A walk that begins where a chain does follows it.
LEMMA WalkFollows ==
    ASSUME MountedDisk, NEW first \in Nat,
           NEW length \in Nat, length <= StepLimit, NEW s \in ChainsOf(first, length)
    PROVE  \A k \in Nat : k < length => walk(first)[k] = s[k + 1] /\ s[k + 1] \in Clusters
<1> DEFINE w == walk(first)
           Bad == { k \in Nat : k < length /\ w[k] # s[k + 1] }
<1>0. StepLimit \in Nat
  BY GeometryAssumption
<1>1. s \in [1..length -> Clusters] /\ (length > 0 => s[1] = first) /\ IsChain(s)
  BY DEF ChainsOf
<1>2. Len(s) = length
  BY <1>1
<1>3. \A k \in Nat : k < length => s[k + 1] \in Clusters
  <2>1. \A k \in Nat : k < length => k + 1 \in 1..length
    OBVIOUS
  <2> QED
    BY <1>1, <2>1
<1>4. SUFFICES ASSUME Bad # {} PROVE FALSE
  BY <1>3
<1>5. Bad \in SUBSET Nat
  OBVIOUS
<1>6. PICK k \in Bad : \A n \in Bad : k <= n
  <2> HIDE DEF Bad
  <2> QED
    BY <1>4, <1>5, LeastElement
<1>7. k \in Nat /\ k < length /\ w[k] # s[k + 1]
  BY <1>6
<1>8. k # 0
  BY <1>1, <1>7, WalkUnfolds
<1>9. k - 1 \in Nat /\ k - 1 < length /\ ~(k <= k - 1) /\ k \in 1..StepLimit /\ k \in 1..(Len(s) - 1)
  BY <1>0, <1>2, <1>7, <1>8
<1>10. w[k - 1] = s[k]
  <2>1. k - 1 \notin Bad
    <3> HIDE DEF Bad
    <3> QED
      BY <1>6, <1>9
  <2>2. k - 1 + 1 = k
    BY <1>7
  <2> HIDE DEF w
  <2> QED
    BY <1>9, <2>1, <2>2
<1>11. w[k] = Follow(s[k])
  BY <1>9, <1>10, WalkUnfolds
<1>12. s[k] \in Clusters
  <2>1. k \in 1..length
    BY <1>2, <1>9
  <2> QED
    BY <1>1, <2>1
<1>13. readable(fat_sector(s[k])) /\ fat_entry(s[k]) = s[k + 1]
  BY <1>1, <1>9 DEF IsChain
<1>14. in_chain(s[k]) /\ ~(s[k] > MaxFatCluster)
  BY <1>12, VolumeClusters
<1> QED
  BY <1>7, <1>11, <1>13, <1>14 DEF Follow, next_cluster

\* What a file's read gives, when it gives anything, is the file; and it gives
\* the file when there is one the walk can reach.
FileAt(first, length, n) == { s \in ChainsOf(first, length) :
                                 \A i \in 1..n : readable(DataOf(s, n)[i]) }

LEMMA SectorsHold ==
    ASSUME NEW size \in Nat
    PROVE  /\ sectors(size) \in Nat
           /\ sectors(size) * SectorSize >= size
<1>1. SectorSize \in Nat \ {0}
  BY GeometryAssumption
<1> QED
  BY <1>1, PartsNeeded DEF sectors

\* The data of a chain that a walk follows is what the walk gets.
LEMMA DataOfWalk ==
    ASSUME MountedDisk, NEW first, first \in Nat, NEW n \in Nat, NEW length \in Nat,
           \A k \in Nat : k * SectorsPerCluster < n => k < length,
           NEW s \in [1..length -> Clusters],
           \A k \in Nat : k < length => walk(first)[k] = s[k + 1]
    PROVE  \A i \in 1..n : DataOf(s, n)[i] = lba_of(walk(first), i - 1)
<1> DEFINE w == walk(first)
<1>0. SectorsPerCluster \in Nat \ {0}
  BY GeometryAssumption
<1>1. ASSUME NEW i \in 1..n
      PROVE  DataSector(s[((i - 1) \div SectorsPerCluster) + 1], (i - 1) % SectorsPerCluster)
             = lba_of(w, i - 1)
  <2> DEFINE k == (i - 1) \div SectorsPerCluster
             r == (i - 1) % SectorsPerCluster
  <2>1. i - 1 \in Nat /\ i - 1 < n
    OBVIOUS
  <2>2. k \in Nat /\ r \in 0..(SectorsPerCluster - 1) /\ i - 1 = k * SectorsPerCluster + r
    BY <1>0, <2>1, Parts
  <2>3. k * SectorsPerCluster < n
    <3>1. k * SectorsPerCluster \in Nat
      BY <1>0, <2>2
    <3> DEFINE y == k * SectorsPerCluster
    <3>2. y \in Nat /\ i - 1 = y + r /\ r \in Nat
      BY <2>2, <3>1
    <3> HIDE DEF k, r, y
    <3>3. y < n
      BY <2>1, <3>2
    <3> QED
      BY <3>3 DEF y
  <2>4. k < length
    <3> HIDE DEF k
    <3> QED
      BY <2>2, <2>3
  <2>5. k + 1 \in 1..length
    <3> HIDE DEF k
    <3> QED
      BY <2>2, <2>4
  <2>6. s[k + 1] \in Clusters /\ w[k] = s[k + 1]
    <3> HIDE DEF k, w
    <3>1. w[k] = s[k + 1]
      BY <2>2, <2>4 DEF w
    <3> QED
      BY <2>5, <3>1
  <2>7. lba_of(w, i - 1) = cluster_lba(w[k], r)
    BY DEF lba_of
  <2> HIDE DEF k, r, w
  <2>8. cluster_lba(s[k + 1], r) = DataSector(s[k + 1], r)
    BY <2>2, <2>6, Addresses
  <2> QED
    BY <2>6, <2>7, <2>8 DEF k, r
<1> HIDE DEF w
<1>2. \A i \in 1..n : DataOf(s, n)[i] = lba_of(w, i - 1)
  BY <1>1 DEF DataOf
<1> QED
  BY <1>2 DEF w

LEMMA ReadGivesFile ==
    ASSUME MountedDisk, NEW first, first \in Nat, NEW size \in Nat,
           NEW capacity, size <= capacity,
           NEW n, n = sectors(size),
           NEW length, length = (n + SectorsPerCluster - 1) \div SectorsPerCluster,
           NEW data, data = read_file_clusters(first, size, capacity)
    PROVE  IF data = None THEN FileAt(first, length, n) = {} \/ length > StepLimit
           ELSE /\ Len(data) * SectorSize >= size
                /\ (\E s \in FileAt(first, length, n) : data = DataOf(s, n)) \/ Strays(first, length)
<1> DEFINE w == walk(first)
           P == SectorsPerCluster
<1>0. P \in Nat \ {0} /\ StepLimit \in Nat \ {0}
  BY GeometryAssumption
<1>1. n \in Nat /\ n * SectorSize >= size
  BY SectorsHold
<1>2. length \in Nat /\ n <= length * P /\ \A x \in Nat : x < length <=> x * P < n
  BY <1>0, <1>1, PartsNeeded
<1>7. \A k \in Nat : k * SectorsPerCluster < n => k < length
  BY <1>2
<1>3. ASSUME NEW x \in Nat, x < n PROVE x \div P \in Nat /\ x \div P < length
  <2>1. x \div P \in Nat /\ x % P \in 0..(P - 1) /\ x = (x \div P) * P + (x % P)
    BY <1>0, <1>3, Parts
  <2> DEFINE k == x \div P
  <2>2. k * P <= x
    <3>1. k * P \in Nat /\ x % P \in Nat /\ x = k * P + (x % P)
      BY <1>0, <2>1
    <3> DEFINE y == k * P
               r == x % P
    <3>2. y \in Nat /\ r \in Nat /\ x = y + r
      BY <3>1
    <3> HIDE DEF y, r
    <3>3. y <= x
      BY <3>2
    <3> QED
      BY <3>3 DEF y
  <2>3. k * P \in Nat
    BY <1>0, <2>1
  <2> HIDE DEF k
  <2>4. k * P < n
    BY <1>1, <1>3, <2>2, <2>3
  <2> QED
    BY <1>2, <2>1, <2>4 DEF k
<1> HIDE DEF P
<1>4. data = IF \A x \in 0..(n - 1) : got(w, x) THEN [i \in 1..n |-> lba_of(w, i - 1)] ELSE None
  BY DEF read_file_clusters
<1>8. ASSUME NEW x \in 0..(n - 1), got(w, x)
      PROVE  readable(lba_of(w, x)) /\ lba_of(w, x) \in Nat
  BY <1>8 DEF got, readable, Lbas
<1>9. ASSUME \A x \in 0..(n - 1) : got(w, x)
      PROVE  data \in [1..n -> Nat] /\ Len(data) = n /\ data # None
  <2>1. data = [i \in 1..n |-> lba_of(w, i - 1)]
    BY <1>4, <1>9
  <2>2. \A i \in 1..n : i - 1 \in 0..(n - 1)
    BY <1>1
  <2> HIDE DEF w
  <2>3. data \in [1..n -> Nat]
    BY <1>8, <1>9, <2>1, <2>2
  <2>4. data \in Seq(Nat) /\ Len(data) = n
    BY <1>1, <2>3
  <2> QED
    BY <2>3, <2>4, GeometryAssumption
<1>10. CASE (\A x \in 0..(n - 1) : got(w, x)) /\ Strays(first, length)
  BY <1>1, <1>9, <1>10
<1>5. CASE (\A x \in 0..(n - 1) : got(w, x)) /\ ~Strays(first, length)
  <2> DEFINE s == [i \in 1..length |-> w[i - 1]]
  <2>1. \A k \in Nat : k < length =>
           /\ k < StepLimit /\ w[k] \in Clusters
    <3> SUFFICES ASSUME NEW k \in Nat, k < length PROVE k < StepLimit /\ w[k] \in Clusters
      OBVIOUS
    <3>1. k * P \in Nat /\ k * P < n
      BY <1>0, <1>2
    <3>2. k * P \in 0..(n - 1)
      BY <1>1, <3>1
    <3>3. (k * P) \div P = k
      BY <1>0, Parts
    <3>4. got(w, k * P)
      BY <1>5, <3>2
    <3>5. k \in 0..(StepLimit - 1) /\ (w[k] = BAD => ~MarkIsPastTheDisk)
      BY <3>1, <3>3, <3>4, WhatIsGot DEF P
    <3>6. k \in 0..(length - 1) /\ k < StepLimit
      BY <1>0, <1>2, <3>5
    <3> QED
      BY <1>5, <3>5, <3>6 DEF Strays
  <2>2. s \in [1..length -> Clusters]
    <3>1. \A i \in 1..length : i - 1 \in Nat /\ i - 1 < length
      BY <1>2
    <3> HIDE DEF w
    <3> QED
      BY <2>1, <3>1
  <2>3. \A k \in Nat : k < length => w[k] = s[k + 1]
    <3>1. \A k \in Nat : k < length => k + 1 \in 1..length /\ (k + 1) - 1 = k
      BY <1>2
    <3> HIDE DEF w
    <3> QED
      BY <3>1
  <2>4. length > 0 => s[1] = first
    <3>1. w[0] = first
      BY WalkUnfolds
    <3>2. length > 0 => 0 \in Nat /\ 0 < length /\ 0 + 1 = 1
      BY <1>2
    <3> HIDE DEF s, w
    <3> QED
      BY <2>3, <3>1, <3>2
  <2>5. IsChain(s)
    <3> SUFFICES ASSUME NEW i \in 1..(Len(s) - 1)
                 PROVE  readable(fat_sector(s[i])) /\ fat_entry(s[i]) = s[i + 1]
      BY DEF IsChain
    <3>1. Len(s) = length
      BY <1>2, <2>2
    <3>2. /\ i \in Nat /\ i < length /\ i - 1 \in Nat /\ i - 1 < length
          /\ i \in 1..length /\ i + 1 \in 1..length /\ i + 1 - 1 = i /\ i - 1 + 1 = i
      BY <1>2, <3>1
    <3>3. s[i] = w[i - 1] /\ s[i + 1] = w[i]
      BY <3>2
    <3>4. w[i] = Follow(w[i - 1])
      <4>1. i \in 1..StepLimit
        BY <1>0, <2>1, <3>2
      <4> QED
        BY <4>1, WalkUnfolds
    <3>5. w[i - 1] \in Clusters /\ w[i] \in Clusters
      BY <2>1, <3>2
    <3> HIDE DEF w, s
    <3>6. \A c \in Clusters : in_chain(c) /\ ~(c > MaxFatCluster) /\ c # BAD
      BY VolumeClusters
    <3>7. w[i] = IF ~readable(fat_sector(w[i - 1])) THEN BAD ELSE fat_entry(w[i - 1])
      BY <3>4, <3>5, <3>6 DEF Follow, next_cluster
    <3> QED
      BY <3>3, <3>5, <3>6, <3>7
  <2>6. s \in ChainsOf(first, length)
    <3> HIDE DEF s
    <3> QED
      BY <2>2, <2>4, <2>5 DEF ChainsOf
  <2>7. \A i \in 1..n : DataOf(s, n)[i] = lba_of(w, i - 1)
    <3> HIDE DEF s
    <3>1. length \in Nat
      BY <1>2
    <3> QED
      BY <1>1, <1>7, <2>2, <2>3, <3>1, DataOfWalk
  <2>8. data = DataOf(s, n)
    <3> HIDE DEF s, w
    <3> QED
      BY <1>4, <1>5, <2>7 DEF DataOf
  <2>9. \A i \in 1..n : readable(lba_of(w, i - 1))
    <3>1. \A i \in 1..n : i - 1 \in 0..(n - 1)
      BY <1>1
    <3> HIDE DEF w, s
    <3> QED
      BY <1>5, <1>8, <3>1
  <2>10. s \in FileAt(first, length, n)
    <3>1. \A i \in 1..n : readable(DataOf(s, n)[i])
      <4> HIDE DEF s, w
      <4> QED
        BY <2>7, <2>9
    <3> HIDE DEF s
    <3> QED
      BY <2>6, <3>1 DEF FileAt
  <2> HIDE DEF s
  <2> QED
    BY <1>1, <1>5, <1>9, <2>8, <2>10
<1>6. CASE ~(\A x \in 0..(n - 1) : got(w, x))
  <2>1. data = None
    BY <1>4, <1>6
  <2>2. PICK x \in 0..(n - 1) : ~got(w, x)
    BY <1>6
  <2>3. ASSUME NEW s \in FileAt(first, length, n), length <= StepLimit PROVE FALSE
    <3>1. s \in ChainsOf(first, length) /\ \A i \in 1..n : readable(DataOf(s, n)[i])
      BY <2>3 DEF FileAt
    <3>2. \A k \in Nat : k < length => w[k] = s[k + 1] /\ s[k + 1] \in Clusters
      BY <1>2, <2>3, <3>1, WalkFollows
    <3>3. s \in [1..length -> Clusters]
      BY <3>1 DEF ChainsOf
    <3>4. \A i \in 1..n : DataOf(s, n)[i] = lba_of(w, i - 1)
      <4>1. length \in Nat
        BY <1>2
      <4>2. \A k \in Nat : k < length => w[k] = s[k + 1]
        BY <3>2
      <4>3. n \in Nat
        BY <1>1
      <4> QED
        BY <1>7, <3>3, <4>1, <4>2, <4>3, DataOfWalk
    <3>5. x \in Nat /\ x < n /\ x + 1 \in 1..n /\ (x + 1) - 1 = x
      BY <1>1
    <3>6. readable(lba_of(w, x))
      <4> HIDE DEF w
      <4> QED
        BY <3>1, <3>4, <3>5
    <3>7. x \div P \in Nat /\ x \div P < length
      BY <1>3, <3>5
    <3>8. x \div P < StepLimit
      BY <1>0, <1>2, <2>3, <3>7
    <3>9. w[x \div P] \in Clusters
      <4> HIDE DEF w
      <4> QED
        BY <3>2, <3>7
    <3>10. in_chain(w[x \div P])
      BY <3>9, VolumeClusters
    <3> QED
      BY <2>2, <3>6, <3>8, <3>10 DEF got, P
  <2>4. length \in Nat /\ StepLimit \in Nat
    BY <1>0, <1>2
  <2> QED
    BY <2>1, <2>3, <2>4
<1> QED
  BY <1>5, <1>6, <1>10

-----------------------------------------------------------------------------
(***************************************************************************)
(* What a step that leaves the disk and the volume alone does not change.  *)
(***************************************************************************)
LEMMA SameVolume ==
    ASSUME disk' = disk, partition_lba' = partition_lba
    PROVE  /\ walk(RootCluster)' = walk(RootCluster)
           /\ \A w : visible_places(w)' = visible_places(w)
           /\ \A w, m : entry_place(w, m)' = entry_place(w, m)
           /\ \A n : sectors(n)' = sectors(n)
           /\ \A first, length, n : FileAt(first, length, n)' = FileAt(first, length, n)
           /\ \A s, n : DataOf(s, n)' = DataOf(s, n)
           /\ \A first, length : Strays(first, length)' <=> Strays(first, length)
<1>1. \A lba : readable(lba)' <=> readable(lba)
  BY DEF readable
<1>2. \A c : next_cluster(c)' = next_cluster(c)
  BY <1>1 DEF next_cluster, fat_sector, fat_entry
<1>3. walk(RootCluster)' = walk(RootCluster)
  BY <1>2 DEF walk, in_chain, RootCluster
<1>4. \A w, n : lba_of(w, n)' = lba_of(w, n) /\ (got(w, n)' <=> got(w, n))
  BY <1>1 DEF got, lba_of, cluster_lba, first_data_lba, in_chain
<1>5. \A w, m : entry_place(w, m)' = entry_place(w, m)
  BY <1>4 DEF entry_place
<1>6. \A p : entry_at(p)' = entry_at(p)
  BY DEF entry_at
<1>7. ASSUME NEW w PROVE visible_places(w)' = visible_places(w)
  BY <1>4, <1>5, <1>6 DEF visible_places, Places
<1>8. \A s, n : DataOf(s, n)' = DataOf(s, n)
  BY DEF DataOf, DataSector
<1>9. \A s : IsChain(s)' <=> IsChain(s)
  BY <1>1 DEF IsChain, fat_sector, fat_entry
<1>11. ASSUME NEW first, NEW length PROVE ChainsOf(first, length)' = ChainsOf(first, length)
  BY <1>9 DEF ChainsOf, Clusters
<1>12. ASSUME NEW first, NEW length, NEW n
       PROVE FileAt(first, length, n)' = FileAt(first, length, n)
  BY <1>1, <1>8, <1>11 DEF FileAt
<1>13. \A first : walk(first)' = walk(first)
  BY <1>2 DEF walk, in_chain
<1>14. ASSUME NEW first, NEW length PROVE Strays(first, length)' <=> Strays(first, length)
  BY <1>13 DEF Strays, Clusters, MarkIsPastTheDisk, RootCluster, BAD
<1> QED
  BY <1>3, <1>5, <1>7, <1>8, <1>12, <1>14 DEF sectors

-----------------------------------------------------------------------------
(***************************************************************************)
(* The browser's listing.                                                  *)
(***************************************************************************)

\* The ranks of a finite set's members are the numbers below its size, in the
\* members' order.
LEMMA Ranks ==
    ASSUME NEW S \in SUBSET Nat, IsFiniteSet(S)
    PROVE  /\ Cardinality(S) \in Nat
           /\ \A m \in S : rank(S, m) \in Nat /\ rank(S, m) < Cardinality(S)
           /\ \A l, m \in S : rank(S, l) = rank(S, m) => l = m
           /\ \A n \in Nat : n < Cardinality(S) => \E m \in S : rank(S, m) = n
<1> DEFINE Under(m) == { l \in S : l < m }
<1>1. Cardinality(S) \in Nat
  BY FS_CardinalityType
<1>2. \A m : rank(S, m) = Cardinality(Under(m)) /\ IsFiniteSet(Under(m)) /\ rank(S, m) \in Nat
  <2> SUFFICES ASSUME NEW m
               PROVE  rank(S, m) = Cardinality(Under(m)) /\ IsFiniteSet(Under(m)) /\ rank(S, m) \in Nat
    OBVIOUS
  <2>1. IsFiniteSet(Under(m))
    <3>1. Under(m) \subseteq S
      OBVIOUS
    <3> HIDE DEF Under
    <3> QED
      BY <3>1, FS_Subset
  <2>2. rank(S, m) = Cardinality(Under(m))
    BY DEF rank
  <2> HIDE DEF Under
  <2> QED
    BY <2>1, <2>2, FS_CardinalityType
<1>3. ASSUME NEW l \in S, NEW m \in S, l < m PROVE rank(S, l) < rank(S, m)
  <2>1. Under(l) \subseteq Under(m) /\ l \in Under(m) /\ l \notin Under(l)
    <3>1. l \in Nat /\ m \in Nat /\ ~(l < l)
      OBVIOUS
    <3>2. \A x \in S : x < l => x < m
      <4>1. \A x \in Nat : x < l => x < m
        BY <1>3, <3>1
      <4> QED
        BY <4>1
    <3> QED
      BY <1>3, <3>1, <3>2
  <2> HIDE DEF Under
  <2>2. Cardinality(Under(l)) <= Cardinality(Under(m)) /\ Cardinality(Under(l)) # Cardinality(Under(m))
    BY <1>2, <2>1, FS_Subset
  <2> QED
    BY <1>2, <2>2
<1>4. ASSUME NEW l \in S, NEW m \in S, rank(S, l) = rank(S, m) PROVE l = m
  <2>1. l \in Nat /\ m \in Nat
    OBVIOUS
  <2>2. rank(S, l) \in Nat /\ ~(l < m) /\ ~(m < l)
    <3>1. rank(S, l) \in Nat /\ rank(S, m) \in Nat
      BY <1>2
    <3>2. ~(rank(S, l) < rank(S, m)) /\ ~(rank(S, m) < rank(S, l))
      BY <1>4, <3>1
    <3> HIDE DEF Under
    <3> QED
      BY <1>3, <3>1, <3>2
  <2> QED
    BY <2>1, <2>2
<1>5. ASSUME NEW m \in S PROVE rank(S, m) < Cardinality(S)
  <2>1. Under(m) \subseteq S /\ m \in S /\ m \notin Under(m)
    OBVIOUS
  <2> HIDE DEF Under
  <2>2. Cardinality(Under(m)) <= Cardinality(S) /\ Cardinality(Under(m)) # Cardinality(S)
    BY <2>1, FS_Subset
  <2> QED
    BY <1>1, <1>2, <2>2
<1>6. \A n \in Nat : n < Cardinality(S) => \E m \in S : rank(S, m) = n
  <2> DEFINE Bad == { n \in Nat : n < Cardinality(S) /\ ~\E m \in S : rank(S, m) = n }
  <2>1. SUFFICES ASSUME Bad # {} PROVE FALSE
    OBVIOUS
  <2>2. PICK n \in Bad : \A k \in Bad : n <= k
    <3>1. Bad \in SUBSET Nat
      OBVIOUS
    <3> HIDE DEF Bad
    <3> QED
      BY <2>1, <3>1, LeastElement
  <2>3. n \in Nat /\ n < Cardinality(S) /\ ~\E m \in S : rank(S, m) = n
    BY <2>2
  <2>4. \E T \in SUBSET S : Cardinality(T) = n /\ \A l \in T, m \in S \ T : l < m
    <3>1. CASE n = 0
      <4>1. Cardinality({}) = 0
        BY FS_EmptySet
      <4> QED
        BY <3>1, <4>1
    <3>2. CASE n # 0
      <4>1. n - 1 \in Nat /\ n - 1 < Cardinality(S) /\ ~(n <= n - 1)
        BY <1>1, <2>3, <3>2
      <4>2. n - 1 \notin Bad
        <5> HIDE DEF Bad
        <5> QED
          BY <2>2, <4>1
      <4>3. PICK m \in S : rank(S, m) = n - 1
        BY <4>1, <4>2
      <4>4. Under(m) \cup {m} \in SUBSET S /\ m \notin Under(m)
        OBVIOUS
      <4>5. \A l \in Under(m) \cup {m}, k \in S \ (Under(m) \cup {m}) : l < k
        OBVIOUS
      <4> HIDE DEF Under
      <4>6. Cardinality(Under(m) \cup {m}) = n
        <5>1. IsFiniteSet(Under(m)) /\ Cardinality(Under(m)) = n - 1
          BY <1>2, <4>3
        <5>2. Cardinality(Under(m) \cup {m}) = n - 1 + 1
          BY <4>4, <5>1, FS_AddElement
        <5> QED
          BY <2>3, <5>2
      <4> QED
        BY <4>4, <4>5, <4>6
    <3> QED
      BY <3>1, <3>2
  <2>5. PICK T \in SUBSET S : Cardinality(T) = n /\ \A l \in T, m \in S \ T : l < m
    BY <2>4
  <2>6. S \ T # {}
    <3>1. T # S
      BY <1>1, <2>3, <2>5
    <3> QED
      BY <3>1
  <2>7. PICK m \in S \ T : \A k \in S \ T : m <= k
    <3>1. S \ T \in SUBSET Nat
      OBVIOUS
    <3> QED
      BY <2>6, <3>1, LeastElement
  <2>8. Under(m) = T
    <3>1. \A l \in T : l < m
      BY <2>5, <2>7
    <3>2. \A l \in S : l < m => l \in T
      <4> SUFFICES ASSUME NEW l \in S, l < m, l \notin T PROVE FALSE
        OBVIOUS
      <4>1. l \in Nat /\ m \in Nat /\ m <= l
        BY <2>7
      <4> QED
        BY <4>1
    <3> QED
      BY <3>1, <3>2
  <2> HIDE DEF Under
  <2> QED
    BY <1>2, <2>3, <2>5, <2>7, <2>8
<1> QED
  BY <1>1, <1>2, <1>4, <1>5, <1>6

\* The entries the browser has to show, and what a listing of the first of
\* them, or of all of them, looks like.
root == walk(RootCluster)
Seen == visible_places(root)

Shows(list) == \A m \in Seen : rank(Seen, m) < Len(list) =>
                                  list[rank(Seen, m) + 1] = entry_place(root, m)
SoFar(list) == Len(list) <= Cardinality(Seen) /\ Shows(list)
Full(list)  == Len(list) = Cardinality(Seen) /\ Shows(list)

LEMMA SeenPlaces ==
    ASSUME MountedDisk
    PROVE  /\ Seen \in SUBSET Nat /\ IsFiniteSet(Seen) /\ Seen \subseteq Places
           /\ \A m \in Seen : /\ entry_place(root, m) \in Lbas \X (1..EntriesPerSector)
                              /\ entry_place(root, m)[1] \in Lbas
                              /\ entry_place(root, m)[2] \in 1..EntriesPerSector
<1>0. StepLimit \in Nat /\ SectorsPerCluster \in Nat /\ EntriesPerSector \in Nat \ {0}
  BY GeometryAssumption
<1> DEFINE limit == StepLimit * SectorsPerCluster * EntriesPerSector
<1>1. limit \in Nat
  BY <1>0
<1>2. Places = 0..(limit - 1) /\ Places \in SUBSET Nat
  BY <1>1 DEF Places
<1>3. IsFiniteSet(Places)
  <2> HIDE DEF limit
  <2>1. limit - 1 \in Int
    BY <1>1
  <2> QED
    BY <1>2, <2>1, FS_Interval
<1>4. Seen \subseteq Places
  BY DEF Seen, visible_places
<1>5. IsFiniteSet(Seen)
  BY <1>3, <1>4, FS_Subset
<1>6. ASSUME NEW m \in Seen
      PROVE  /\ entry_place(root, m) \in Lbas \X (1..EntriesPerSector)
             /\ entry_place(root, m)[1] \in Lbas
             /\ entry_place(root, m)[2] \in 1..EntriesPerSector
  <2>1. m \in Nat /\ m \in 0..m
    BY <1>2, <1>4
  <2>2. got(root, m \div EntriesPerSector)
    BY <2>1 DEF Seen, visible_places
  <2>3. lba_of(root, m \div EntriesPerSector) \in Lbas
    BY <2>2 DEF got, readable
  <2>4. m % EntriesPerSector \in 0..(EntriesPerSector - 1)
    BY <1>0, <2>1, Parts
  <2>5. (m % EntriesPerSector) + 1 \in 1..EntriesPerSector
    BY <1>0, <2>4
  <2> QED
    BY <2>3, <2>5 DEF entry_place
<1> QED
  BY <1>2, <1>4, <1>5, <1>6

\* What fat32_root_entry gives.
LEMMA RootEntry ==
    ASSUME MountedDisk, NEW index \in Nat, NEW found, found = fat32_root_entry(index)
    PROVE  IF found = None THEN index >= Cardinality(Seen)
           ELSE \E m \in Seen : rank(Seen, m) = index /\ found = entry_place(root, m)
<1> DEFINE F == { m \in Seen : rank(Seen, m) = index }
<1>1. found = IF F = {} THEN None ELSE entry_place(root, CHOOSE m \in F : TRUE)
  BY DEF fat32_root_entry, Seen, root
<1>2. CASE F = {}
  <2>1. Cardinality(Seen) \in Nat /\ ~(index < Cardinality(Seen))
    BY <1>2, SeenPlaces, Ranks
  <2> QED
    BY <1>1, <1>2, <2>1
<1>3. CASE F # {}
  <2>1. PICK m \in F : found = entry_place(root, m)
    BY <1>1, <1>3
  <2>2. m \in Seen /\ rank(Seen, m) = index
    BY <2>1
  <2>3. found \in Seq(Nat)
    <3>1. found \in Lbas \X (1..EntriesPerSector)
      BY <2>1, <2>2, SeenPlaces
    <3>2. PICK a \in Lbas, b \in 1..EntriesPerSector : found = <<a, b>>
      BY <3>1
    <3>3. a \in Nat /\ b \in Nat
      BY DEF Lbas
    <3> QED
      BY <3>2, <3>3
  <2>4. found # None
    BY <2>3, GeometryAssumption
  <2> QED
    BY <2>1, <2>2, <2>4
<1> QED
  BY <1>2, <1>3

\* One more entry, the next one.
LEMMA ShowsNext ==
    ASSUME MountedDisk, NEW list \in Seq(Lbas \X (1..EntriesPerSector)), SoFar(list),
           NEW m \in Seen, rank(Seen, m) = Len(list)
    PROVE  SoFar(Append(list, entry_place(root, m)))
<1> DEFINE p == entry_place(root, m)
           more == Append(list, p)
<1>1. p \in Lbas \X (1..EntriesPerSector)
  BY SeenPlaces
<1> HIDE DEF p
<1>2. /\ Len(list) \in Nat /\ Len(more) = Len(list) + 1 /\ more[Len(list) + 1] = p
      /\ \A i \in 1..Len(list) : more[i] = list[i]
  BY <1>1
<1>3. Cardinality(Seen) \in Nat /\ Len(list) < Cardinality(Seen)
  BY SeenPlaces, Ranks
<1> HIDE DEF more
<1>4. Len(more) <= Cardinality(Seen)
  BY <1>2, <1>3
<1>5. ASSUME NEW l \in Seen, rank(Seen, l) < Len(more)
      PROVE  more[rank(Seen, l) + 1] = entry_place(root, l)
  <2>1. rank(Seen, l) \in Nat
    BY SeenPlaces, Ranks
  <2>2. CASE rank(Seen, l) = Len(list)
    <3>1. l = m
      BY <2>2, SeenPlaces, Ranks
    <3> QED
      BY <1>2, <2>2, <3>1 DEF p
  <2>3. CASE rank(Seen, l) # Len(list)
    <3>1. rank(Seen, l) < Len(list) /\ rank(Seen, l) + 1 \in 1..Len(list)
      BY <1>2, <1>5, <2>1, <2>3
    <3> QED
      BY <1>2, <3>1 DEF SoFar, Shows
  <2> QED
    BY <2>2, <2>3
<1> QED
  BY <1>4, <1>5 DEF SoFar, Shows, more, p

\* A chain that ends where the directory does: the walk gets its sectors and
\* nothing after them.
LEMMA SoundWalk ==
    ASSUME MountedDisk, NEW length \in 1..StepLimit, NEW s \in ChainsOf(RootCluster, length),
           Terminated(s),
           \A i \in 1..(length * SectorsPerCluster) : readable(DataOf(s, length * SectorsPerCluster)[i])
    PROVE  \A n \in Nat :
              /\ got(root, n) <=> n < length * SectorsPerCluster
              /\ n < length * SectorsPerCluster =>
                    lba_of(root, n) = DataSector(s[(n \div SectorsPerCluster) + 1], n % SectorsPerCluster)
<1> DEFINE P == SectorsPerCluster
           N == length * P
<1>0. P \in Nat \ {0} /\ StepLimit \in Nat /\ length \in Nat /\ length >= 1 /\ length <= StepLimit
  BY GeometryAssumption
<1>1. s \in [1..length -> Clusters] /\ Len(s) = length
  BY <1>0 DEF ChainsOf
<1>2. RootCluster \in Nat
  BY DEF RootCluster
<1>3. \A k \in Nat : k < length => root[k] = s[k + 1] /\ s[k + 1] \in Clusters
  BY <1>0, <1>2, WalkFollows DEF root
<1>4. root[length] = fat_entry(s[length]) /\ ~in_chain(root[length])
  <2>1. root[length] = Follow(root[length - 1]) /\ root[length] \in Nat
    <3>1. length \in 0..StepLimit
      BY <1>0
    <3> QED
      BY <1>2, <3>1, WalkUnfolds DEF root
  <2>2. length - 1 \in Nat /\ length - 1 < length /\ length - 1 + 1 = length
    BY <1>0
  <2>3. root[length - 1] = s[length] /\ s[length] \in Clusters
    BY <1>3, <2>2
  <2>4. readable(fat_sector(s[length])) /\ fat_entry(s[length]) >= EndOfChain
    BY <1>1 DEF Terminated
  <2>5. root[length] = fat_entry(s[length])
    BY <2>1, <2>3, <2>4, VolumeClusters DEF Follow, next_cluster
  <2>6. root[length] \in Nat /\ EndOfChain \in Nat
    BY <2>1, GeometryAssumption
  <2> QED
    BY <2>4, <2>5, <2>6 DEF in_chain
<1>5. N \in Nat
  BY <1>0
<1>6. ASSUME NEW n \in Nat PROVE n < N <=> n \div P < length
  BY <1>0, Parts
<1>7. ASSUME NEW n \in Nat PROVE n \div P \in Nat /\ n % P \in 0..(P - 1)
  BY <1>0, Parts
<1>8. ASSUME NEW n \in Nat, n < N
      PROVE  got(root, n) /\ lba_of(root, n) = DataSector(s[(n \div P) + 1], n % P)
  <2> DEFINE k == n \div P
             r == n % P
  <2>1. k \in Nat /\ k < length /\ r \in 0..(P - 1)
    BY <1>6, <1>7, <1>8
  <2>2. root[k] = s[k + 1] /\ s[k + 1] \in Clusters
    <3> HIDE DEF k
    <3> QED
      BY <1>3, <2>1
  <2>3. lba_of(root, n) = cluster_lba(root[k], r)
    BY DEF lba_of
  <2>4. cluster_lba(s[k + 1], r) = DataSector(s[k + 1], r)
    <3> HIDE DEF k, r
    <3> QED
      BY <2>1, <2>2, Addresses
  <2>5. DataOf(s, N)[n + 1] = DataSector(s[k + 1], r)
    <3>1. n + 1 \in 1..N /\ (n + 1) - 1 = n
      BY <1>5, <1>8
    <3> HIDE DEF N
    <3> QED
      BY <3>1 DEF DataOf
  <2>6. readable(DataOf(s, N)[n + 1])
    <3>1. n + 1 \in 1..N
      BY <1>5, <1>8
    <3> QED
      BY <3>1
  <2>7. in_chain(root[k])
    BY <2>2, VolumeClusters
  <2>8. k < StepLimit
    <3> HIDE DEF k
    <3> QED
      BY <1>0, <2>1
  <2>9. readable(lba_of(root, n))
    BY <2>2, <2>3, <2>4, <2>5, <2>6
  <2> QED
    BY <2>2, <2>3, <2>4, <2>7, <2>8, <2>9 DEF got
<1>9. ASSUME NEW n \in Nat, ~(n < N) PROVE ~got(root, n)
  <2> SUFFICES ASSUME got(root, n) PROVE FALSE
    OBVIOUS
  <2> DEFINE k == n \div P
  <2>1. k < StepLimit /\ in_chain(root[k])
    BY DEF got
  <2>2. k \in Nat /\ ~(k < length)
    BY <1>6, <1>7, <1>9
  <2> HIDE DEF k
  <2>3. \A j \in Nat : j >= length /\ j <= StepLimit => ~in_chain(root[j])
    <3> DEFINE Bad == { j \in Nat : j >= length /\ j <= StepLimit /\ in_chain(root[j]) }
    <3>1. SUFFICES ASSUME Bad # {} PROVE FALSE
      OBVIOUS
    <3>2. PICK j \in Bad : \A i \in Bad : j <= i
      <4>1. Bad \in SUBSET Nat
        OBVIOUS
      <4> HIDE DEF Bad
      <4> QED
        BY <3>1, <4>1, LeastElement
    <3>3. j \in Nat /\ j >= length /\ j <= StepLimit /\ in_chain(root[j])
      BY <3>2
    <3>4. j # length
      BY <1>4, <3>3
    <3>5. j - 1 \in Nat /\ j - 1 >= length /\ j - 1 <= StepLimit /\ ~(j <= j - 1) /\ j \in 1..StepLimit
      BY <1>0, <3>3, <3>4
    <3>6. ~in_chain(root[j - 1])
      <4>1. j - 1 \notin Bad
        <5> HIDE DEF Bad
        <5> QED
          BY <3>2, <3>5
      <4> QED
        BY <3>5, <4>1
    <3>7. root[j] = root[j - 1]
      BY <1>2, <3>5, <3>6, WalkUnfolds DEF root, Follow
    <3> QED
      BY <3>3, <3>6, <3>7
  <2>4. k >= length /\ k <= StepLimit
    BY <1>0, <2>1, <2>2
  <2> QED
    BY <2>1, <2>2, <2>3, <2>4
<1> QED
  BY <1>8, <1>9

\* A listing of all the walk sees is a listing of a sound directory's chain.
LEMMA FullIsListing ==
    ASSUME MountedDisk, NEW length \in 1..StepLimit, NEW s \in ChainsOf(RootCluster, length),
           Terminated(s),
           \A i \in 1..(length * SectorsPerCluster) : readable(DataOf(s, length * SectorsPerCluster)[i]),
           NEW list, Full(list)
    PROVE  IsListing(list, s)
<1> DEFINE E == EntriesPerSector
           N == length * SectorsPerCluster
           p == EntryPlaces(s)
           visible == { m \in DOMAIN p : /\ \A l \in 0..m : entry_at(p[l]).kind # "end"
                                         /\ entry_at(p[m]).kind # "hidden" }
<1>0. /\ E \in Nat \ {0} /\ N \in Nat /\ length \in Nat /\ length <= StepLimit
      /\ StepLimit \in Nat /\ SectorsPerCluster \in Nat
  BY GeometryAssumption
<1>1. Len(s) = length
  BY <1>0 DEF ChainsOf
<1>2. N * E \in Nat
  BY <1>0
<1>3. p = [m \in 0..(N * E - 1) |->
              <<DataSector(s[((m \div E) \div SectorsPerCluster) + 1], (m \div E) % SectorsPerCluster),
                (m % E) + 1>>]
  BY <1>1 DEF EntryPlaces
<1>4. DOMAIN p = 0..(N * E - 1)
  BY <1>3
<1>5. ASSUME NEW m \in Nat
      PROVE  m \div E \in Nat /\ (m < N * E <=> m \div E < N)
  BY <1>0, Parts
<1>6. \A n \in Nat : /\ got(root, n) <=> n < N
                     /\ n < N => lba_of(root, n) = DataSector(s[(n \div SectorsPerCluster) + 1],
                                                              n % SectorsPerCluster)
  BY SoundWalk
<1> HIDE DEF p, N
<1>7. ASSUME NEW m \in DOMAIN p
      PROVE  m \in Nat /\ got(root, m \div E) /\ p[m] = entry_place(root, m)
  <2>1. m \in Nat /\ m < N * E
    BY <1>2, <1>4
  <2>2. m \div E \in Nat /\ m \div E < N
    BY <1>5, <2>1
  <2> DEFINE n == m \div E
  <2>3. got(root, n) /\ lba_of(root, n) = DataSector(s[(n \div SectorsPerCluster) + 1],
                                                     n % SectorsPerCluster)
    <3> HIDE DEF n
    <3> QED
      BY <1>6, <2>2 DEF n
  <2>4. p[m] = <<DataSector(s[(n \div SectorsPerCluster) + 1], n % SectorsPerCluster), (m % E) + 1>>
    BY <1>3, <1>4
  <2> QED
    BY <2>1, <2>3, <2>4 DEF entry_place
<1>8. \A m \in DOMAIN p : \A l \in 0..m : l \in DOMAIN p
  <2> SUFFICES ASSUME NEW m \in DOMAIN p, NEW l \in 0..m PROVE l \in DOMAIN p
    OBVIOUS
  <2> DEFINE top == N * E
  <2>1. top \in Nat /\ m \in 0..(top - 1)
    BY <1>2, <1>4
  <2> HIDE DEF top
  <2>2. l \in 0..(top - 1)
    BY <2>1
  <2> QED
    BY <1>4, <2>2 DEF top
<1>9. DOMAIN p \subseteq Places
  <2>1. N <= StepLimit * SectorsPerCluster /\ StepLimit * SectorsPerCluster \in Nat
    BY <1>0 DEF N
  <2> DEFINE M == StepLimit * SectorsPerCluster
  <2>2. M \in Nat /\ N <= M
    BY <2>1
  <2>3. Places = 0..(M * E - 1)
    BY DEF Places
  <2> HIDE DEF M
  <2>4. N * E <= M * E /\ M * E \in Nat
    BY <1>0, <2>2
  <2> DEFINE a == N * E
             b == M * E
  <2>5. a \in Nat /\ b \in Nat /\ a <= b
    BY <1>2, <2>4
  <2> HIDE DEF a, b
  <2>6. 0..(a - 1) \subseteq 0..(b - 1)
    BY <2>5
  <2> QED
    BY <1>4, <2>3, <2>6 DEF a, b
<1>10. ASSUME NEW m \in Seen PROVE m \in DOMAIN p
  <2>1. m \in Nat /\ m \in 0..m
    BY SeenPlaces
  <2>2. got(root, m \div E)
    BY <2>1 DEF Seen, visible_places
  <2>3. m < N * E
    BY <1>5, <1>6, <2>1, <2>2
  <2> DEFINE top == N * E
  <2>4. top \in Nat /\ m < top
    BY <1>2, <2>3
  <2> HIDE DEF top
  <2>5. m \in 0..(top - 1)
    BY <2>1, <2>4
  <2> QED
    BY <1>4, <2>5 DEF top
<1>11. Seen = visible
  <2>1. ASSUME NEW m \in DOMAIN p PROVE m \in Seen <=> m \in visible
    <3>1. m \in Places /\ \A l \in 0..m : got(root, l \div E) /\ p[l] = entry_place(root, l)
      BY <1>7, <1>8, <1>9
    <3>2. p[m] = entry_place(root, m)
      BY <1>7
    <3> QED
      BY <3>1, <3>2 DEF Seen, visible_places
  <2> QED
    BY <1>10, <2>1
<1>12. Len(list) = Cardinality(visible) /\ \A m \in visible : list[rank(visible, m) + 1] = p[m]
  <2>1. ASSUME NEW m \in Seen PROVE list[rank(Seen, m) + 1] = p[m]
    <3>1. rank(Seen, m) < Len(list)
      BY SeenPlaces, Ranks DEF Full
    <3>2. list[rank(Seen, m) + 1] = entry_place(root, m)
      BY <3>1 DEF Full, Shows
    <3> QED
      BY <1>7, <1>10, <3>2
  <2> HIDE DEF visible
  <2> QED
    BY <1>11, <2>1 DEF Full
<1> QED
  BY <1>12 DEF IsListing, p

-----------------------------------------------------------------------------
(***************************************************************************)
(* The inductive invariant: the listing in progress holds the first of the *)
(* entries that are to be seen, in their order; the last complete one      *)
(* holds all of them.  Nothing is read and nothing listed before a volume  *)
(* is mounted, so that mounting disturbs neither.                          *)
(***************************************************************************)
FatIInv ==
    /\ disk \in Disks
    /\ TypeOK
    /\ MountsFirstVolume
    /\ pc = "boot" => ~mounted
    /\ ~mounted => read = None /\ listed = <<>> /\ complete = None
    /\ ReadsTheFile
    /\ listed # <<>> => SoFar(listed)
    /\ complete # None => Full(complete)

LEMMA FatInit == Init => FatIInv
<1> SUFFICES ASSUME Init PROVE FatIInv
  OBVIOUS
<1>1. DOMAIN disk = DiskShape
  BY DiskFacts DEF Init
<1>2. 0 \in Lbas
  BY GeometryAssumption DEF Lbas
<1>3. TypeOK
  <2>1. <<>> \in Seq(Lbas \X (1..EntriesPerSector)) /\ Len(<<>>) = 0
    OBVIOUS
  <2> QED
    BY <1>1, <1>2, <2>1 DEF Init, TypeOK
<1> QED
  BY <1>3 DEF Init, FatIInv, MountsFirstVolume, ReadsTheFile

\* What a read leaves in its history is right, in terms of the state it reads.
Gives(r) ==
    LET n == sectors(r.size)
        length == (n + SectorsPerCluster - 1) \div SectorsPerCluster
    IN  IF r.data = None THEN FileAt(r.first, length, n) = {} \/ length > StepLimit
        ELSE /\ Len(r.data) * SectorSize >= r.size
             /\ (\E s \in FileAt(r.first, length, n) : r.data = DataOf(s, n)) \/ Strays(r.first, length)

LEMMA GivesIsReadsTheFile == ReadsTheFile <=> (read # None => Gives(read))
BY DEF ReadsTheFile, Gives, FileAt

LEMMA MountStep ==
    ASSUME FatIInv, fat32_init
    PROVE  FatIInv'
<1> USE DEF FatIInv, fat32_init
<1>1. ~mounted /\ read = None /\ listed = <<>> /\ complete = None
  OBVIOUS
<1>2. TypeOK'
  BY VolumeIsFirst DEF TypeOK
<1>3. MountsFirstVolume'
  <2>1. /\ disk' = disk /\ mounted' = (volume_lba # None) /\ mounted' \in BOOLEAN
        /\ mounted' => partition_lba' = volume_lba
    OBVIOUS
  <2>2. /\ \A lba : loads(lba)' <=> loads(lba)
        /\ \A k : HasVolume(k)' <=> HasVolume(k)
        /\ \A k : PassedOver(k)' <=> PassedOver(k)
    BY <2>1 DEF loads, readable, HasVolume, PassedOver, Misleads, MbrEntry
  <2>3. ASSUME NEW p, p = partition_lba' PROVE mounted' => loads(p)'
    BY <2>1, <2>2, <2>3, VolumeIsFirst
  <2>4. mounted' => loads(partition_lba)'
    BY <2>3 DEF loads, readable
  <2>5. loads(0) => mounted' /\ partition_lba' = 0
    <3>1. 0 # None
      BY GeometryAssumption
    <3> QED
      BY <2>1, <3>1, VolumeIsFirst
  <2>6. ~loads(0) /\ ~(readable(0) /\ disk.signature) => ~mounted'
    BY <2>1, VolumeIsFirst
  <2>7. ASSUME ~loads(0), readable(0), disk.signature
        PROVE  /\ \A k \in 1..Partitions :
                     HasVolume(k) /\ PassedOver(k - 1) => mounted' /\ partition_lba' = MbrEntry(k).lba
               /\ PassedOver(Partitions) => ~mounted'
    BY <2>1, <2>7, VolumeIsFirst
  <2>8. /\ readable(0)' <=> readable(0)
        /\ \A k : MbrEntry(k)' = MbrEntry(k)
    BY <2>1 DEF readable, MbrEntry
  <2> QED
    BY <2>1, <2>2, <2>4, <2>5, <2>6, <2>7, <2>8 DEF MountsFirstVolume
<1>4. ReadsTheFile'
  BY <1>1 DEF ReadsTheFile
<1> QED
  BY <1>1, <1>2, <1>3, <1>4

LEMMA SameMount ==
    ASSUME MountsFirstVolume, disk' = disk, pc' = pc, mounted' = mounted, partition_lba' = partition_lba
    PROVE  MountsFirstVolume'
BY DEF MountsFirstVolume, loads, readable, HasVolume, PassedOver, Misleads, MbrEntry

LEMMA EmptySoFar == MountedDisk => SoFar(<<>>)
<1> SUFFICES ASSUME MountedDisk PROVE SoFar(<<>>)
  OBVIOUS
<1>1. Cardinality(Seen) \in Nat /\ \A m \in Seen : rank(Seen, m) \in Nat
  BY SeenPlaces, Ranks
<1>2. Len(<<>>) = 0 /\ \A n \in Nat : ~(n < 0) /\ 0 <= n
  OBVIOUS
<1> QED
  BY <1>1, <1>2 DEF SoFar, Shows

LEMMA BrowserStep ==
    ASSUME FatIInv, FileBrowser
    PROVE  FatIInv'
<1>1. /\ MountedDisk /\ mounted /\ pc = "running"
      /\ disk' = disk /\ pc' = pc /\ mounted' = mounted /\ partition_lba' = partition_lba
  BY DEF FatIInv, FileBrowser, MountedDisk, TypeOK, volume
<1>2. /\ listed \in Seq(Lbas \X (1..EntriesPerSector)) /\ browser_index = Len(listed)
      /\ browser_index \in Nat
  BY DEF FatIInv, TypeOK
<1>3. SoFar(listed)
  BY <1>1, EmptySoFar DEF FatIInv
<1>4. root' = root /\ Seen' = Seen
  BY <1>1, SameVolume DEF Seen, root
<1>9. MountsFirstVolume'
  BY <1>1, SameMount DEF FatIInv
<1>5. /\ \A list : SoFar(list)' <=> SoFar(list)
      /\ \A list : Full(list)' <=> Full(list)
  <2>1. \A list : Shows(list)' <=> Shows(list)
    BY <1>1, <1>4, SameVolume DEF Shows, rank
  <2> QED
    BY <1>4, <2>1 DEF SoFar, Full
<1>6. \A r : Gives(r)' <=> Gives(r)
  BY <1>1, SameVolume DEF Gives
<1> DEFINE found == fat32_root_entry(browser_index)
           e == entry_at(found)
<1>7. CASE found = None
  <2>1. browser_index' = 0 /\ complete' = listed /\ listed' = <<>> /\ read' = read
    BY <1>7 DEF FileBrowser
  <2>2. Full(listed)
    <3>1. browser_index >= Cardinality(Seen)
      BY <1>1, <1>2, <1>7, RootEntry
    <3>2. Cardinality(Seen) \in Nat
      BY <1>1, SeenPlaces, Ranks
    <3> QED
      BY <1>2, <1>3, <3>1, <3>2 DEF SoFar, Full
  <2>3. Full(complete)'
    <3>1. ASSUME NEW list, list = complete' PROVE Full(list)'
      BY <1>5, <2>1, <2>2, <3>1
    <3> QED
      BY <3>1 DEF Full, Shows
  <2>4. ReadsTheFile'
    <3>1. ASSUME NEW r, r = read', r # None PROVE Gives(r)'
      BY <1>6, <2>1, <3>1, GivesIsReadsTheFile DEF FatIInv
    <3> QED
      BY <1>1, <2>1, <3>1 DEF ReadsTheFile, Gives, FileAt
  <2>5. TypeOK'
    BY <1>1, <1>2, <2>1 DEF FatIInv, TypeOK
  <2> QED
    BY <1>1, <1>9, <2>1, <2>3, <2>4, <2>5 DEF FatIInv
<1>8. CASE found # None
  <2>1. /\ browser_index' = browser_index + 1 /\ listed' = Append(listed, found)
        /\ complete' = complete
        /\ read' = IF e.kind = "file" /\ e.size <= PreviewSize
                      THEN [first |-> e.first, size |-> e.size,
                            data |-> read_file_clusters(e.first, e.size, PreviewSize)]
                      ELSE read
    BY <1>8 DEF FileBrowser
  <2>2. PICK m \in Seen : rank(Seen, m) = Len(listed) /\ found = entry_place(root, m)
    BY <1>1, <1>2, <1>8, RootEntry
  <2>3. found \in Lbas \X (1..EntriesPerSector) /\ found[1] \in Lbas /\ found[2] \in 1..EntriesPerSector
    BY <1>1, <2>2, SeenPlaces
  <2>4. e.kind = "file" => e.size \in Nat /\ e.first \in Nat
    BY <1>1, <2>3, DiskFacts DEF MountedDisk, entry_at
  <2> HIDE DEF found, e
  <2>5. SoFar(Append(listed, found))
    BY <1>1, <1>2, <1>3, <2>2, ShowsNext
  <2>6. SoFar(listed)'
    <3>1. ASSUME NEW list, list = listed' PROVE SoFar(list)'
      BY <1>5, <2>1, <2>5, <3>1
    <3> QED
      BY <3>1 DEF SoFar, Shows
  <2>7. complete' # None => Full(complete)'
    <3>1. ASSUME NEW list, list = complete', list # None PROVE Full(list)'
      BY <1>5, <2>1, <3>1 DEF FatIInv
    <3> QED
      BY <3>1 DEF Full, Shows
  <2>8. ASSUME NEW r, r = read', r # None PROVE Gives(r)
    <3>1. CASE e.kind = "file" /\ e.size <= PreviewSize
      <4> DEFINE n == sectors(e.size)
                 length == (n + SectorsPerCluster - 1) \div SectorsPerCluster
                 data == read_file_clusters(e.first, e.size, PreviewSize)
      <4>1. r.first = e.first /\ r.size = e.size /\ r.data = data
        BY <2>1, <2>8, <3>1
      <4>2. e.size \in Nat /\ e.first \in Nat
        BY <2>4, <3>1
      <4>3. IF data = None THEN FileAt(e.first, length, n) = {} \/ length > StepLimit
            ELSE /\ Len(data) * SectorSize >= e.size
                 /\ (\E s \in FileAt(e.first, length, n) : data = DataOf(s, n)) \/ Strays(e.first, length)
        <5> HIDE DEF n, length, data
        <5> QED
          BY <1>1, <3>1, <4>2, ReadGivesFile DEF n, length, data
      <4> QED
        BY <4>1, <4>3 DEF Gives
    <3>2. CASE ~(e.kind = "file" /\ e.size <= PreviewSize)
      BY <2>1, <2>8, <3>2, GivesIsReadsTheFile DEF FatIInv
    <3> QED
      BY <3>1, <3>2
  <2>9. ReadsTheFile'
    <3>1. ASSUME NEW r, r = read', r # None PROVE Gives(r)'
      BY <1>6, <2>8, <3>1
    <3> QED
      BY <3>1 DEF ReadsTheFile, Gives, FileAt
  <2>10. TypeOK'
    <3>1. listed' \in Seq(Lbas \X (1..EntriesPerSector)) /\ browser_index' = Len(listed')
      BY <1>2, <2>1, <2>3
    <3> QED
      BY <1>1, <3>1 DEF FatIInv, TypeOK
  <2> QED
    BY <1>1, <1>9, <2>6, <2>7, <2>9, <2>10 DEF FatIInv
<1> QED
  BY <1>7, <1>8

LEMMA FatNext == FatIInv /\ [Next]_vars => FatIInv'
<1> SUFFICES ASSUME FatIInv, [Next]_vars PROVE FatIInv'
  OBVIOUS
<1>1. CASE fat32_init
  BY <1>1, MountStep
<1>2. CASE FileBrowser
  BY <1>2, BrowserStep
<1>3. CASE BrowserOffline \/ UNCHANGED vars
  <2>1. /\ disk' = disk /\ pc' = pc /\ mounted' = mounted /\ partition_lba' = partition_lba
        /\ browser_index' = browser_index /\ read' = read /\ listed' = listed /\ complete' = complete
    BY <1>3 DEF BrowserOffline, vars, volume
  <2>2. root' = root /\ Seen' = Seen /\ \A r : Gives(r)' <=> Gives(r)
    BY <2>1, SameVolume DEF Seen, root, Gives
  <2>3. (listed' # <<>> => SoFar(listed)') /\ (complete' # None => Full(complete)')
    BY <2>1, <2>2, SameVolume DEF FatIInv, SoFar, Full, Shows, rank
  <2>4. ReadsTheFile'
    <3>1. ASSUME NEW r, r = read', r # None PROVE Gives(r)'
      BY <2>1, <2>2, <3>1, GivesIsReadsTheFile DEF FatIInv
    <3> QED
      BY <3>1 DEF ReadsTheFile, Gives, FileAt
  <2> QED
    BY <2>1, <2>3, <2>4, SameMount DEF FatIInv, TypeOK
<1> QED
  BY <1>1, <1>2, <1>3 DEF Next

LEMMA FatInvariant == Spec => []FatIInv
BY FatInit, FatNext, PTL DEF Spec

-----------------------------------------------------------------------------
\* The volume's place and the browser's index are what their types say; the
\* index counts the entries shown (fat32.c's mounted_volume, desktop.c's
\* file_browser_index).
THEOREM TypeCorrect == Spec => []TypeOK
<1>1. FatIInv => TypeOK
  BY DEF FatIInv
<1> QED
  BY <1>1, FatInvariant, PTL

\* fat32_init mounts only what is a FAT32 volume: that of the whole disk if it
\* is one, and else the first of those the partition table names, as long as no
\* entry before it has put another sector than the table in the buffer that the
\* scan shares with load_volume.
THEOREM FirstVolumeIsMounted == Spec => []MountsFirstVolume
<1>1. FatIInv => MountsFirstVolume
  BY DEF FatIInv
<1> QED
  BY <1>1, FatInvariant, PTL

\* read_file_clusters gives a file's data or says that it cannot, on any disk,
\* unless the chain leads it to a number that is no cluster of the volume; and
\* it gives the file when its chain is sound and not too long.
THEOREM ReadsGiveTheFile == Spec => []ReadsTheFile
<1>1. FatIInv => ReadsTheFile
  BY DEF FatIInv
<1> QED
  BY <1>1, FatInvariant, PTL

\* Calling fat32_root_entry with index after index, as the file browser does,
\* shows every visible entry of a sound root directory once and in order.
THEOREM BrowserIsComplete == Spec => []BrowserShowsAll
<1>1. FatIInv => BrowserShowsAll
  <2> SUFFICES ASSUME FatIInv, complete # None,
                      NEW length \in 1..StepLimit, NEW s \in ChainsOf(RootCluster, length),
                      Terminated(s),
                      \A i \in 1..(length * SectorsPerCluster) :
                         readable(DataOf(s, length * SectorsPerCluster)[i])
               PROVE  IsListing(complete, s)
    BY DEF BrowserShowsAll
  <2>1. MountedDisk /\ Full(complete)
    BY DEF FatIInv, TypeOK, MountedDisk
  <2> QED
    BY <2>1, FullIsListing
<1> QED
  BY <1>1, FatInvariant, PTL

=============================================================================
