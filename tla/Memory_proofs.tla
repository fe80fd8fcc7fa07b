---------------------------- MODULE Memory_proofs ----------------------------
(***************************************************************************)
(* Proofs about Memory: for every page size, table size, limit and memory  *)
(* map, the pages handed out are those the map offers, or if it offers     *)
(* none those below the default limit (UsablePagesOnly), and the regions   *)
(* and cursors implement a set of free pages (MemoryImplementsAllocator).  *)
(***************************************************************************)
EXTENDS Memory, FiniteSetTheorems, TLAPS

(***************************************************************************)
(* Arithmetic of pages                                                     *)
(***************************************************************************)

\* The quotient is the number of whole pages below an address.
LEMMA DivFloor == ASSUME NEW a \in Nat, NEW p \in Nat \ {0}
                  PROVE  /\ a \div p \in Nat
                         /\ (a \div p) * p <= a
                         /\ a < (a \div p) * p + p
  BY Z3

\* A greater page has the greater address.
LEMMA MulMono == ASSUME NEW a \in Nat, NEW b \in Nat, NEW p \in Nat, a <= b
                 PROVE  a * p <= b * p
  BY Z3

\* A greater address in units of pages belongs to the greater page.
LEMMA MulCancel == ASSUME NEW a \in Nat, NEW b \in Nat, NEW p \in Nat \ {0}, a * p < b * p
                   PROVE  a < b
  <1>1. CASE a >= b
    BY <1>1, MulMono
  <1>2. QED BY <1>1, Z3

\* Where the page behind a page begins.
LEMMA NextPage == ASSUME NEW a \in Nat, NEW p \in Nat
                  PROVE  a * p \in Nat /\ (a + 1) * p = a * p + p
  BY Z3

\* Addresses computed modulo WORD are addresses.
LEMMA WrapRange == ASSUME NEW a \in Nat PROVE a % WORD \in 0..(WORD - 1)
  BY MemoryAssumption

\* frame_up gives a page at or behind an address.
LEMMA FrameUp == ASSUME NEW a \in Nat
                 PROVE  frame_up(a) \in Nat /\ a <= frame_up(a) * PAGE_SIZE
  <1>1. a + PAGE_SIZE - 1 \in Nat
    BY MemoryAssumption
  <1>2. QED BY <1>1, DivFloor, NextPage, MemoryAssumption DEF frame_up

\* frame_down gives the last page boundary at or below an address.
LEMMA FrameDown == ASSUME NEW a \in Nat
                   PROVE  frame_down(a) \in Nat /\ frame_down(a) * PAGE_SIZE <= a
  BY DivFloor, MemoryAssumption DEF frame_down

\* frame_up gives the first such page, and frame_down the last such boundary.
LEMMA WholePages ==
    ASSUME NEW a \in Nat, NEW f \in Nat
    PROVE  /\ a <= f * PAGE_SIZE => frame_up(a) <= f
           /\ f * PAGE_SIZE <= a => f <= frame_down(a)
  <1>0. PAGE_SIZE \in Nat \ {0} /\ f * PAGE_SIZE \in Nat
    BY NextPage, MemoryAssumption
  <1>1. ASSUME a <= f * PAGE_SIZE PROVE frame_up(a) <= f
    <2> DEFINE b == a + PAGE_SIZE - 1
    <2>1. b \in Nat /\ b < f * PAGE_SIZE + PAGE_SIZE
      BY <1>0, <1>1
    <2> HIDE DEF b
    <2>2. (b \div PAGE_SIZE) \in Nat /\ (b \div PAGE_SIZE) * PAGE_SIZE <= b
      BY <1>0, <2>1, DivFloor
    <2> DEFINE d == b \div PAGE_SIZE
               g == f + 1
    <2>3. d \in Nat /\ d * PAGE_SIZE <= b /\ d * PAGE_SIZE \in Nat /\ g \in Nat
      BY <1>0, <2>2, NextPage
    <2>4. g * PAGE_SIZE = f * PAGE_SIZE + PAGE_SIZE
      BY <1>0, NextPage
    <2> HIDE DEF d, g
    <2>5. d * PAGE_SIZE < g * PAGE_SIZE
      BY <1>0, <2>1, <2>3, <2>4
    <2>6. d < g
      BY <1>0, <2>3, <2>5, MulCancel
    <2>7. d <= f
      BY <2>3, <2>6 DEF g
    <2>8. QED BY <2>7 DEF d, b, frame_up
  <1>2. ASSUME f * PAGE_SIZE <= a PROVE f <= frame_down(a)
    <2> DEFINE d == frame_down(a)
               g == d + 1
    <2>1. d \in Nat /\ a < d * PAGE_SIZE + PAGE_SIZE /\ d * PAGE_SIZE \in Nat
      BY <1>0, DivFloor, NextPage DEF frame_down
    <2>2. g \in Nat /\ g * PAGE_SIZE = d * PAGE_SIZE + PAGE_SIZE
      BY <1>0, <2>1, NextPage
    <2> HIDE DEF d, g
    <2>3. f * PAGE_SIZE < g * PAGE_SIZE
      BY <1>0, <1>2, <2>1, <2>2
    <2>4. f < g
      BY <1>0, <2>2, <2>3, MulCancel
    <2>5. f <= d
      BY <2>1, <2>4 DEF g
    <2>6. QED BY <2>5 DEF d
  <1>3. QED BY <1>1, <1>2

\* The pages of the identity map.
Limit == IDENTITY_MAPPED_LIMIT \div PAGE_SIZE

\* Frames are the pages below Limit, and all of them are mapped.
LEMMA LimitIsPage == /\ Limit \in Nat /\ Limit * PAGE_SIZE <= IDENTITY_MAPPED_LIMIT
                     /\ Frames = { f \in Nat : f < Limit }
  <1>1. Limit \in Nat /\ Limit * PAGE_SIZE <= IDENTITY_MAPPED_LIMIT
    BY DivFloor, MemoryAssumption DEF Limit
  <1>2. QED BY <1>1 DEF Frames, Limit

\* A clipped region ends inside the identity map.
LEMMA BelowLimit == ASSUME NEW a \in Nat, a <= IDENTITY_MAPPED_LIMIT
                    PROVE  frame_down(a) <= Limit
  <1>1. frame_down(a) * PAGE_SIZE < (Limit + 1) * PAGE_SIZE
    BY FrameDown, LimitIsPage, DivFloor, NextPage, MemoryAssumption DEF Limit
  <1>2. frame_down(a) < Limit + 1
    BY <1>1, MulCancel, FrameDown, LimitIsPage, MemoryAssumption
  <1>3. QED BY <1>2, FrameDown, LimitIsPage

\* The first page behind the kernel.
LEMMA KernelEnd == /\ kernel_end \in Nat /\ kernel_end * PAGE_SIZE \in Nat
                   /\ kernel_image_end <= kernel_end * PAGE_SIZE
  BY FrameUp, NextPage, MemoryAssumption DEF kernel_end

-----------------------------------------------------------------------------
(***************************************************************************)
(* The inductive invariant                                                 *)
(***************************************************************************)
Regions == 1..Len(regions)

\* A page the map offers, or one of the default region when it offers none.
Trusted(f) == \/ f \in Offered
              \/ Offered = {} /\ (f + 1) * PAGE_SIZE <= DefaultEnd

RegionsSound == \A r \in Regions : /\ kernel_end <= regions[r].start
                                   /\ regions[r].start < regions[r].end
                                   /\ regions[r].end <= Limit
                                   /\ \A f \in Nat : regions[r].start <= f /\ f < regions[r].end
                                                    => Trusted(f)

RegionsDisjoint == \A q, r \in Regions :
    q # r => regions[q].end <= regions[r].start \/ regions[r].end <= regions[q].start

NothingGivenYet ==
    ~initialised => given = {} /\ current_region = 0 /\ next_page = kernel_end

\* Before the default region may be added, the table is empty as long as the map
\* has offered nothing.
TableTells == ~initialised => (regions = <<>> <=> Offered = {})

GivenSound == \A f \in given : kernel_end <= f /\ f < Limit /\ Trusted(f)

IInv == TypeOK /\ RegionsSound /\ RegionsDisjoint /\ TableTells /\ NothingGivenYet /\ GivenSound

\* The allocator before memory_init satisfies the invariant.
LEMMA InitIInv == Init => IInv
  <1> SUFFICES ASSUME Init PROVE IInv
    OBVIOUS
  <1>1. TypeOK
    <2>1. regions \in Seq([start : Nat, end : Nat]) /\ Len(regions) = 0
      BY DEF Init
    <2>2. 0 <= MAX_MEMORY_REGIONS /\ 0 \in 0..MaxEntries
      BY MemoryAssumption
    <2>3. current_region \in 0..Len(regions) /\ Len(regions) <= MAX_MEMORY_REGIONS
      BY <2>1, <2>2 DEF Init
    <2>4. /\ next_page \in Nat /\ pages_total \in Nat /\ pages_used \in Nat
          /\ entries \in 0..MaxEntries
      BY <2>2, KernelEnd DEF Init
    <2>5. QED BY <2>1, <2>3, <2>4, Zenon DEF Init, TypeOK
  <1>2. Regions = {}
    BY DEF Init, Regions
  <1>3. Offered = {}
    BY DEF Init, Offered
  <1>4. QED BY <1>1, <1>2, <1>3
            DEF Init, IInv, RegionsSound, RegionsDisjoint, TableTells, NothingGivenYet, GivenSound

\* An element of a sequence.
LEMMA ElementIn == ASSUME NEW S, NEW s, s \in Seq(S), NEW n \in 1..Len(s)
                   PROVE  s[n] \in S
  OBVIOUS

\* What the region table holds.
LEMMA RegionType == ASSUME TypeOK, NEW r \in Regions
                    PROVE  regions[r].start \in Nat /\ regions[r].end \in Nat
  <1>1. regions \in Seq([start : Nat, end : Nat]) /\ r \in 1..Len(regions)
    BY DEF TypeOK, Regions
  <1>2. regions[r] \in [start : Nat, end : Nat]
    BY <1>1, ElementIn, Zenon
  <1>3. QED BY <1>2

\* The pages that lie wholly in a range of bytes.
Within(f, start, end) == start <= f * PAGE_SIZE /\ (f + 1) * PAGE_SIZE <= end

\* What add_region does to a range of bytes whose pages are now trusted and of
\* which no page was offered before.
LEMMA AddRegion ==
    ASSUME IInv, ~initialised, NEW start \in Nat, NEW end \in Nat,
           kernel_end * PAGE_SIZE <= start,
           Offered \subseteq Offered',
           \A f \in Frames : kernel_end <= f /\ Within(f, start, end) => Trusted(f)',
           \A f \in Offered : ~Within(f, start, end),
           add_region(start, end)
    PROVE  /\ regions' \in Seq([start : Nat, end : Nat])
           /\ Len(regions') <= MAX_MEMORY_REGIONS
           /\ Len(regions) <= Len(regions')
           /\ \A r \in Regions : regions'[r] = regions[r]
           /\ pages_total' \in Nat
           /\ RegionsSound' /\ RegionsDisjoint'
  <1> USE DEF Regions
  <1>0. TypeOK /\ RegionsSound /\ RegionsDisjoint /\ (regions = <<>> <=> Offered = {})
    BY DEF IInv, TableTells
  <1>01. ASSUME NEW r \in Regions, NEW f \in Nat,
                regions[r].start <= f, f < regions[r].end
         PROVE  f \in Offered /\ Trusted(f)'
    <2>1. regions # <<>>
      BY <1>0 DEF TypeOK
    <2>2. Trusted(f)
      BY <1>0, <1>01 DEF RegionsSound
    <2>3. f \in Offered
      BY <1>0, <2>1, <2>2 DEF Trusted
    <2>4. QED BY <2>3 DEF Trusted
  <1>1. CASE ~kept(start, end)
    <2>1. UNCHANGED <<regions, pages_total>>
      BY <1>1 DEF add_region
    <2>2. RegionsSound'
      <3> SUFFICES ASSUME NEW r \in Regions'
                   PROVE  /\ kernel_end <= regions'[r].start
                          /\ regions'[r].start < regions'[r].end
                          /\ regions'[r].end <= Limit
                          /\ \A f \in Nat :
                                regions'[r].start <= f /\ f < regions'[r].end
                                => \/ f \in Offered'
                                   \/ Offered' = {} /\ (f + 1) * PAGE_SIZE <= DefaultEnd
        BY Zenon DEF RegionsSound, Trusted
      <3>1. r \in Regions /\ regions'[r] = regions[r]
        BY <2>1
      <3>2. QED BY <3>1, <1>0, <1>01 DEF RegionsSound, Trusted
    <2>3. QED BY <2>1, <2>2, <1>0 DEF TypeOK, RegionsDisjoint
  <1>2. CASE kept(start, end)
    <2> DEFINE s == frame_up(start)
               e == frame_down(clipped(end))
               n == Len(regions) + 1
    <2>1. clipped(end) \in Nat /\ clipped(end) <= end /\ clipped(end) <= IDENTITY_MAPPED_LIMIT
      BY MemoryAssumption DEF clipped
    <2>2. s \in Nat /\ e \in Nat /\ s < e /\ e <= Limit
      BY <1>2, <2>1, FrameUp, FrameDown, BelowLimit DEF kept
    <2>3. start <= s * PAGE_SIZE /\ e * PAGE_SIZE <= end /\ e * PAGE_SIZE <= IDENTITY_MAPPED_LIMIT
      <3>1. e * PAGE_SIZE <= clipped(end) /\ e * PAGE_SIZE \in Nat
        BY <2>1, <2>2, FrameDown, NextPage, MemoryAssumption
      <3>2. e * PAGE_SIZE <= end /\ e * PAGE_SIZE <= IDENTITY_MAPPED_LIMIT
        <4> HIDE DEF e
        <4>1. QED BY <3>1, <2>1, MemoryAssumption
      <3>3. start <= s * PAGE_SIZE
        BY FrameUp
      <3>4. QED BY <3>2, <3>3
    <2>4. kernel_end <= s
      <3>1. kernel_end * PAGE_SIZE < (s + 1) * PAGE_SIZE
        BY <2>2, <2>3, KernelEnd, NextPage, MemoryAssumption
      <3>2. kernel_end < s + 1
        BY <3>1, <2>2, KernelEnd, MulCancel, MemoryAssumption
      <3>3. QED BY <3>2, <2>2, KernelEnd
    <2>5. regions' = Append(regions, [start |-> s, end |-> e])
      BY <1>2 DEF add_region
    <2>6. pages_total' = pages_total + e - s
      BY <1>2 DEF add_region
    <2> HIDE DEF s, e
    <2>7. /\ regions' \in Seq([start : Nat, end : Nat])
          /\ Len(regions') = n /\ n \in Nat
          /\ \A r \in Regions : regions'[r] = regions[r]
          /\ regions'[n] = [start |-> s, end |-> e]
      BY <2>2, <2>5, <1>0 DEF TypeOK
    <2>8. Len(regions') <= MAX_MEMORY_REGIONS
      BY <1>2, <2>7, <1>0, MemoryAssumption DEF kept, TypeOK
    <2>9. pages_total' \in Nat
      BY <2>2, <2>6, <1>0 DEF TypeOK
    <2>10. Regions' = Regions \cup {n}
      BY <2>7, <1>0 DEF TypeOK
    <2>15. ASSUME NEW f \in Nat, s <= f, f < e PROVE Within(f, start, end)
      <3> DEFINE g == f + 1
      <3>1. g \in Nat /\ g <= e
        BY <2>2, <2>15
      <3> HIDE DEF g
      <3>2. s * PAGE_SIZE <= f * PAGE_SIZE /\ g * PAGE_SIZE <= e * PAGE_SIZE
        BY <2>2, <2>15, <3>1, MulMono, MemoryAssumption
      <3>3. /\ s * PAGE_SIZE \in Nat /\ f * PAGE_SIZE \in Nat
            /\ g * PAGE_SIZE \in Nat /\ e * PAGE_SIZE \in Nat
        BY <2>2, <3>1, NextPage, MemoryAssumption
      <3>4. start <= f * PAGE_SIZE /\ g * PAGE_SIZE <= end
        BY <2>3, <3>2, <3>3
      <3>5. QED BY <3>4 DEF Within, g
    <2>11. RegionsSound'
      <3> SUFFICES ASSUME NEW r \in Regions'
                   PROVE  /\ kernel_end <= regions'[r].start
                          /\ regions'[r].start < regions'[r].end
                          /\ regions'[r].end <= Limit
                          /\ \A f \in Nat :
                                regions'[r].start <= f /\ f < regions'[r].end
                                => \/ f \in Offered'
                                   \/ Offered' = {} /\ (f + 1) * PAGE_SIZE <= DefaultEnd
        BY Zenon DEF RegionsSound, Trusted
      <3>1. CASE r \in Regions
        <4>1. regions'[r] = regions[r]
          BY <3>1, <2>7
        <4>2. QED BY <3>1, <4>1, <1>0, <1>01 DEF RegionsSound, Trusted
      <3>2. CASE r = n
        <4>1. ASSUME NEW f \in Nat, s <= f, f < e PROVE Trusted(f)'
          <5>1. f \in Frames /\ kernel_end <= f
            BY <4>1, <2>2, <2>4, LimitIsPage, KernelEnd
          <5>2. Within(f, start, end)
            BY <4>1, <2>15
          <5>3. QED BY <5>1, <5>2
        <4>2. regions'[r].start = s /\ regions'[r].end = e
          BY <3>2, <2>7
        <4>3. QED BY <4>1, <4>2, <2>2, <2>4 DEF Trusted
      <3>3. QED BY <3>1, <3>2, <2>10
    <2>12. ASSUME NEW q \in Regions PROVE regions[q].end <= s \/ e <= regions[q].start
      <3> DEFINE m == IF s <= regions[q].start THEN regions[q].start ELSE s
      <3>0. regions[q].start \in Nat /\ regions[q].end \in Nat
        BY <1>0, RegionType
      <3> SUFFICES ASSUME s < regions[q].end, regions[q].start < e PROVE FALSE
        BY <2>2, <3>0
      <3>1. regions[q].start < regions[q].end
        BY <1>0 DEF RegionsSound
      <3>2. m \in Nat /\ s <= m /\ m < e /\ regions[q].start <= m /\ m < regions[q].end
        BY <2>2, <3>0, <3>1
      <3> HIDE DEF m
      <3>3. Within(m, start, end)
        BY <3>2, <2>15
      <3>4. m \in Offered
        BY <3>2, <1>01
      <3>5. QED BY <3>3, <3>4
    <2>13. RegionsDisjoint'
      <3> SUFFICES ASSUME NEW q \in Regions', NEW r \in Regions', q # r
                   PROVE  regions'[q].end <= regions'[r].start \/ regions'[r].end <= regions'[q].start
        BY DEF RegionsDisjoint
      <3>1. CASE q \in Regions /\ r \in Regions
        BY <3>1, <2>7, <1>0 DEF RegionsDisjoint
      <3>2. CASE q \in Regions /\ r = n
        <4>1. regions'[q] = regions[q] /\ regions'[r].start = s /\ regions'[r].end = e
          BY <3>2, <2>7
        <4>2. QED BY <3>2, <4>1, <2>12
      <3>3. CASE q = n /\ r \in Regions
        <4>1. regions'[r] = regions[r] /\ regions'[q].start = s /\ regions'[q].end = e
          BY <3>3, <2>7
        <4>2. QED BY <3>3, <4>1, <2>12
      <3>4. QED BY <3>1, <3>2, <3>3, <2>10
    <2>14. QED BY <2>7, <2>8, <2>9, <2>11, <2>13, <1>0 DEF TypeOK
  <1>3. QED BY <1>1, <1>2

-----------------------------------------------------------------------------
(***************************************************************************)
(* Steps that add memory                                                   *)
(***************************************************************************)

\* The memory that a step before the end of memory_init changes.
LEMMA GrowIInv ==
    ASSUME IInv, ~initialised,
           regions' \in Seq([start : Nat, end : Nat]), Len(regions') <= MAX_MEMORY_REGIONS,
           pages_total' \in Nat, RegionsSound', RegionsDisjoint',
           entries' \in 0..MaxEntries, initialised' \in BOOLEAN,
           usable' \subseteq Stretches, TableTells',
           UNCHANGED <<current_region, next_page, pages_used, page, given>>
    PROVE  IInv'
  <1>1. TypeOK /\ given = {} /\ current_region = 0 /\ next_page = kernel_end
    BY DEF IInv, NothingGivenYet
  <1>2. current_region' \in 0..Len(regions')
    BY <1>1
  <1>3. TypeOK'
    BY <1>1, <1>2 DEF TypeOK
  <1>4. NothingGivenYet' /\ GivenSound'
    BY <1>1, Zenon DEF NothingGivenYet, GivenSound
  <1>5. QED BY <1>3, <1>4 DEF IInv

\* The bytes a step before the end of memory_init adds, if it adds any.
Adds(start, end) ==
    /\ start \in Nat /\ end \in Nat
    /\ kernel_end * PAGE_SIZE <= start
    /\ usable' \subseteq Stretches
    /\ Offered \subseteq Offered'
    /\ \A f \in Frames : kernel_end <= f /\ Within(f, start, end) => Trusted(f)'
    /\ \A f \in Offered : ~Within(f, start, end)
    /\ add_region(start, end)

\* Where a page begins, and that it ends behind that.
LEMMA PageBytes == ASSUME NEW f \in Frames
                   PROVE  /\ f \in Nat /\ f * PAGE_SIZE \in Nat
                          /\ (f + 1) * PAGE_SIZE \in Nat
                          /\ f * PAGE_SIZE < (f + 1) * PAGE_SIZE
                          /\ (f + 1) * PAGE_SIZE <= IDENTITY_MAPPED_LIMIT
  <1>1. f \in Nat /\ f < Limit /\ Limit \in Nat /\ Limit * PAGE_SIZE <= IDENTITY_MAPPED_LIMIT
    BY LimitIsPage
  <1>2. /\ f * PAGE_SIZE \in Nat /\ (f + 1) * PAGE_SIZE = f * PAGE_SIZE + PAGE_SIZE
    BY <1>1, NextPage, MemoryAssumption
  <1>3. (f + 1) * PAGE_SIZE <= Limit * PAGE_SIZE
    <2> DEFINE g == f + 1
    <2>1. g \in Nat /\ g <= Limit
      BY <1>1
    <2> HIDE DEF g
    <2>2. g * PAGE_SIZE <= Limit * PAGE_SIZE
      BY <1>1, <2>1, MulMono, MemoryAssumption
    <2>3. QED BY <2>2 DEF g
  <1>4. Limit * PAGE_SIZE \in Nat
    BY <1>1, NextPage, MemoryAssumption
  <1>5. QED BY <1>1, <1>2, <1>3, <1>4, MemoryAssumption

\* What an entry of usable memory does to the pages the map offers.
LEMMA EntryOffers ==
    ASSUME IInv, NEW address \in Nat, NEW end \in Nat, NEW start \in Nat,
           start = IF address < kernel_end * PAGE_SIZE THEN kernel_end * PAGE_SIZE ELSE address,
           \A u \in usable : end <= u.start \/ u.end <= address,
           usable' = usable \cup {[start |-> address, end |-> end]}
    PROVE  /\ Offered' = Offered \cup { f \in Frames : kernel_end <= f /\ Within(f, start, end) }
           /\ \A f \in Offered : ~Within(f, start, end)
  <1>1. ASSUME NEW f \in Frames, kernel_end <= f
        PROVE  Within(f, start, end) <=> /\ address <= f * PAGE_SIZE
                                         /\ (f + 1) * PAGE_SIZE <= end
    <2>1. f \in Nat /\ f * PAGE_SIZE \in Nat
      BY PageBytes
    <2>2. kernel_end * PAGE_SIZE <= f * PAGE_SIZE /\ kernel_end * PAGE_SIZE \in Nat
      BY <1>1, <2>1, KernelEnd, MulMono, MemoryAssumption
    <2>3. QED BY <2>1, <2>2 DEF Within
  <1>2. ASSUME NEW f \in Frames
        PROVE  f \in Offered' <=> \/ f \in Offered
                                  \/ kernel_end <= f /\ Within(f, start, end)
    <2> DEFINE new == [start |-> address, end |-> end]
    <2>1. f \in Offered' <=> /\ kernel_end <= f
                             /\ \E u \in usable' : /\ u.start <= f * PAGE_SIZE
                                                   /\ (f + 1) * PAGE_SIZE <= u.end
      BY DEF Offered
    <2>2. f \in Offered <=> /\ kernel_end <= f
                            /\ \E u \in usable : /\ u.start <= f * PAGE_SIZE
                                                 /\ (f + 1) * PAGE_SIZE <= u.end
      BY DEF Offered
    <2>3. new.start = address /\ new.end = end /\ usable' = usable \cup {new}
      OBVIOUS
    <2> HIDE DEF new
    <2>4. QED BY <1>1, <2>1, <2>2, <2>3
  <1>3. ASSUME NEW f \in Offered PROVE ~Within(f, start, end)
    <2>1. f \in Frames /\ kernel_end <= f
      BY DEF Offered
    <2>2. PICK u \in usable : u.start <= f * PAGE_SIZE /\ (f + 1) * PAGE_SIZE <= u.end
      BY DEF Offered
    <2>3. u \in Stretches
      BY DEF IInv, TypeOK
    <2>4. u.start \in Nat /\ u.end \in Nat
      BY <2>3, MemoryAssumption DEF Stretches, Addresses
    <2>5. f * PAGE_SIZE \in Nat /\ (f + 1) * PAGE_SIZE \in Nat
          /\ f * PAGE_SIZE < (f + 1) * PAGE_SIZE
      BY <2>1, PageBytes
    <2>6. end <= u.start \/ u.end <= address
      OBVIOUS
    <2>7. ~(address <= f * PAGE_SIZE /\ (f + 1) * PAGE_SIZE <= end)
      BY <2>2, <2>4, <2>5, <2>6
    <2>8. QED BY <1>1, <2>1, <2>7
  <1>4. Offered \subseteq Frames /\ Offered' \subseteq Frames
    BY DEF Offered
  <1>5. QED BY <1>2, <1>3, <1>4

\* An entry of the map adds fresh bytes behind the kernel, or nothing.
LEMMA EntryAdds ==
    ASSUME IInv, NEW address \in Addresses, NEW length \in Addresses, NEW available \in BOOLEAN,
           map_entry(address, length, available)
    PROVE  \/ UNCHANGED <<regions, pages_total, usable>>
           \/ \E start, end \in Nat : Adds(start, end)
  <1> DEFINE end   == (address + length) % WORD
             start == IF address < kernel_end * PAGE_SIZE
                         THEN kernel_end * PAGE_SIZE ELSE address
  <1>1. CASE available /\ length # 0 /\ end > address
    <2>1. /\ \A u \in usable : end <= u.start \/ u.end <= address
          /\ usable' = usable \cup {[start |-> address, end |-> end]}
          /\ add_region(start, end)
      BY <1>1, Zenon DEF map_entry
    <2>2. address \in Nat /\ length \in Nat /\ address + length \in Nat
      BY MemoryAssumption DEF Addresses
    <2>3. end \in 0..(WORD - 1)
      BY <2>2, WrapRange
    <2>4. start \in Nat /\ kernel_end * PAGE_SIZE <= start
      BY <2>2, KernelEnd
    <2>5. start = IF address < kernel_end * PAGE_SIZE THEN kernel_end * PAGE_SIZE ELSE address
      OBVIOUS
    <2> HIDE DEF end, start
    <2>6. end \in Nat
      BY <2>3, MemoryAssumption
    <2>7. usable' \subseteq Stretches
      BY <2>1, <2>3 DEF IInv, TypeOK, Stretches, Addresses
    <2>8. /\ Offered' = Offered \cup { f \in Frames : kernel_end <= f /\ Within(f, start, end) }
          /\ \A f \in Offered : ~Within(f, start, end)
      BY <2>1, <2>2, <2>4, <2>5, <2>6, EntryOffers
    <2>9. /\ Offered \subseteq Offered'
          /\ \A f \in Frames : kernel_end <= f /\ Within(f, start, end) => Trusted(f)'
      BY <2>8 DEF Trusted
    <2>10. Adds(start, end)
      BY <2>1, <2>4, <2>6, <2>7, <2>8, <2>9, Zenon DEF Adds
    <2>11. QED BY <2>4, <2>6, <2>10
  <1>2. CASE ~(available /\ length # 0 /\ end > address)
    BY <1>2, Zenon DEF map_entry
  <1>3. QED BY <1>1, <1>2

\* So does the default region, which memory_init adds to an empty table only.
LEMMA DefaultAdds ==
    ASSUME IInv, init_done
    PROVE  \/ UNCHANGED <<regions, pages_total, usable>>
           \/ \E start, end \in Nat : Adds(start, end)
  <1>1. CASE regions = <<>>
    <2>1. usable' = usable /\ add_region(kernel_end * PAGE_SIZE, DefaultEnd) /\ ~initialised
      BY <1>1 DEF init_done
    <2>2. kernel_end * PAGE_SIZE \in Nat /\ DefaultEnd \in Nat
      BY KernelEnd, MemoryAssumption
    <2> DEFINE start == kernel_end * PAGE_SIZE
    <2>3. Offered = {} /\ Offered' = {}
      BY <1>1, <2>1 DEF IInv, TableTells, Offered
    <2>4. \A f \in Frames : Within(f, start, DefaultEnd) => Trusted(f)'
      BY <2>3 DEF Within, Trusted
    <2>5. usable' \subseteq Stretches
      BY <2>1 DEF IInv, TypeOK
    <2> HIDE DEF start
    <2>6. Adds(start, DefaultEnd)
      BY <2>1, <2>2, <2>3, <2>4, <2>5 DEF Adds, start
    <2>7. QED BY <2>2, <2>6 DEF start
  <1>2. CASE regions # <<>>
    BY <1>2 DEF init_done
  <1>3. QED BY <1>1, <1>2

\* After an entry the table is empty only if the map has offered nothing.
LEMMA EntryTells ==
    ASSUME IInv, NEW address \in Addresses, NEW length \in Addresses, NEW available \in BOOLEAN,
           map_entry(address, length, available)
    PROVE  TableTells'
  <1> DEFINE end   == (address + length) % WORD
             start == IF address < kernel_end * PAGE_SIZE
                         THEN kernel_end * PAGE_SIZE ELSE address
  <1>0. (regions = <<>> <=> Offered = {}) /\ regions \in Seq([start : Nat, end : Nat])
    BY DEF map_entry, IInv, TableTells, TypeOK
  <1>1. CASE available /\ length # 0 /\ end > address
    <2>1. /\ \A u \in usable : end <= u.start \/ u.end <= address
          /\ usable' = usable \cup {[start |-> address, end |-> end]}
          /\ add_region(start, end)
      BY <1>1, Zenon DEF map_entry
    <2>2. address \in Nat /\ address + length \in Nat
      BY MemoryAssumption DEF Addresses
    <2>3. start \in Nat /\ end \in Nat /\ kernel_end * PAGE_SIZE <= start
      BY <2>2, KernelEnd, WrapRange, MemoryAssumption
    <2>4. start = IF address < kernel_end * PAGE_SIZE THEN kernel_end * PAGE_SIZE ELSE address
      OBVIOUS
    <2> HIDE DEF end, start
    <2>5. Offered' = Offered \cup { f \in Frames : kernel_end <= f /\ Within(f, start, end) }
      BY <2>1, <2>2, <2>3, <2>4, EntryOffers
    <2>6. CASE kept(start, end)
      <3> DEFINE s == frame_up(start)
                 e == frame_down(clipped(end))
      <3>1. regions' = Append(regions, [start |-> s, end |-> e])
        BY <2>1, <2>6 DEF add_region
      <3>2. regions' # <<>>
        BY <1>0, <3>1
      <3>3. /\ clipped(end) \in Nat /\ clipped(end) <= end
            /\ clipped(end) <= IDENTITY_MAPPED_LIMIT
        BY <2>3, MemoryAssumption DEF clipped
      <3>4. s \in Nat /\ e \in Nat /\ s < e /\ start <= s * PAGE_SIZE /\ e <= Limit
            /\ e * PAGE_SIZE <= clipped(end)
        BY <2>3, <2>6, <3>3, FrameUp, FrameDown, BelowLimit DEF kept
      <3> HIDE DEF s, e
      <3> DEFINE g == s + 1
      <3>5. g \in Nat /\ g <= e
        BY <3>4
      <3> HIDE DEF g
      <3>6. g * PAGE_SIZE <= e * PAGE_SIZE /\ g * PAGE_SIZE \in Nat /\ e * PAGE_SIZE \in Nat
        BY <3>4, <3>5, MulMono, NextPage, MemoryAssumption
      <3>7. Within(s, start, end)
        <4>1. g * PAGE_SIZE <= end
          BY <2>3, <3>3, <3>4, <3>6
        <4>2. QED BY <3>4, <4>1 DEF Within, g
      <3>8. s \in Frames
        BY <3>4, LimitIsPage
      <3>9. kernel_end <= s
        <4>1. kernel_end * PAGE_SIZE < g * PAGE_SIZE
          BY <2>3, <3>4, KernelEnd, NextPage, MemoryAssumption DEF g
        <4>2. kernel_end < g
          BY <4>1, <3>5, KernelEnd, MulCancel, MemoryAssumption
        <4>3. QED BY <4>2, <3>4, KernelEnd DEF g
      <3>10. s \in Offered'
        BY <2>5, <3>7, <3>8, <3>9
      <3>11. QED BY <3>2, <3>10 DEF TableTells
    <2>7. CASE ~kept(start, end) /\ regions # <<>>
      <3>1. regions' = regions
        BY <2>1, <2>7 DEF add_region
      <3>2. QED BY <1>0, <2>5, <2>7, <3>1 DEF TableTells
    <2>8. CASE ~kept(start, end) /\ regions = <<>>
      <3>1. regions' = regions
        BY <2>1, <2>8 DEF add_region
      <3>2. ASSUME NEW f \in Frames, kernel_end <= f, Within(f, start, end) PROVE FALSE
        <4> DEFINE g == f + 1
        <4>1. /\ f \in Nat /\ f * PAGE_SIZE \in Nat /\ g * PAGE_SIZE \in Nat
              /\ f * PAGE_SIZE < g * PAGE_SIZE /\ g * PAGE_SIZE <= IDENTITY_MAPPED_LIMIT
          BY PageBytes
        <4>2. start <= f * PAGE_SIZE /\ g * PAGE_SIZE <= end /\ g \in Nat
          BY <3>2, <4>1 DEF Within
        <4> HIDE DEF g
        <4>3. start < IDENTITY_MAPPED_LIMIT
          BY <2>3, <4>1, <4>2, MemoryAssumption
        <4>4. g * PAGE_SIZE <= clipped(end) /\ clipped(end) \in Nat
          BY <2>3, <4>1, <4>2, MemoryAssumption DEF clipped
        <4>5. frame_up(start) <= f /\ g <= frame_down(clipped(end))
          BY <2>3, <4>1, <4>2, <4>4, WholePages
        <4>6. frame_up(start) \in Nat /\ frame_down(clipped(end)) \in Nat
          BY <2>3, <4>4, FrameUp, FrameDown
        <4>7. frame_up(start) < frame_down(clipped(end))
          BY <4>1, <4>5, <4>6 DEF g
        <4>8. Len(regions) < MAX_MEMORY_REGIONS
          BY <2>8, MemoryAssumption
        <4>9. QED BY <2>8, <4>3, <4>7, <4>8 DEF kept
      <3>3. Offered' = {}
        BY <1>0, <2>5, <2>8, <3>2
      <3>4. QED BY <2>8, <3>1, <3>3 DEF TableTells
    <2>9. QED BY <2>6, <2>7, <2>8
  <1>2. CASE ~(available /\ length # 0 /\ end > address)
    <2>1. UNCHANGED <<regions, usable>>
      BY <1>2, Zenon DEF map_entry
    <2>2. Offered' = Offered
      BY <2>1 DEF Offered
    <2>3. QED BY <1>0, <2>1, <2>2 DEF TableTells
  <1>3. QED BY <1>1, <1>2

\* What a step that adds memory leaves true of the region table.
LEMMA AddsKeeps ==
    ASSUME IInv, ~initialised,
           \/ UNCHANGED <<regions, pages_total, usable>>
           \/ \E start, end \in Nat : Adds(start, end)
    PROVE  /\ regions' \in Seq([start : Nat, end : Nat])
           /\ Len(regions') <= MAX_MEMORY_REGIONS
           /\ Len(regions) <= Len(regions')
           /\ \A r \in Regions : regions'[r] = regions[r]
           /\ pages_total' \in Nat
           /\ RegionsSound' /\ RegionsDisjoint'
  <1>1. CASE UNCHANGED <<regions, pages_total, usable>>
    <2>1. TypeOK /\ RegionsSound /\ RegionsDisjoint
      BY DEF IInv
    <2>2. Offered' = Offered
      BY <1>1 DEF Offered
    <2>3. RegionsSound' /\ RegionsDisjoint'
      BY <1>1, <2>1, <2>2 DEF RegionsSound, RegionsDisjoint, Trusted, Regions
    <2>4. QED BY <1>1, <2>1, <2>3 DEF TypeOK
  <1>2. CASE \E start, end \in Nat : Adds(start, end)
    <2>1. PICK start \in Nat, end \in Nat : Adds(start, end)
      BY <1>2
    <2>2. /\ kernel_end * PAGE_SIZE <= start
          /\ Offered \subseteq Offered'
          /\ \A f \in Frames : kernel_end <= f /\ Within(f, start, end) => Trusted(f)'
          /\ \A f \in Offered : ~Within(f, start, end)
          /\ add_region(start, end)
      BY <2>1, Zenon DEF Adds
    <2>3. QED BY <2>2, AddRegion, Zenon
  <1>3. QED BY <1>1, <1>2

\* map_entry keeps the invariant.
LEMMA EntryIInv ==
    ASSUME IInv, NEW address \in Addresses, NEW length \in Addresses, NEW available \in BOOLEAN,
           map_entry(address, length, available)
    PROVE  IInv'
  <1>1. ~initialised /\ entries < MaxEntries /\ entries' = entries + 1
    BY DEF map_entry
  <1>2. UNCHANGED <<current_region, next_page, pages_used, initialised, page, given>>
    BY DEF map_entry
  <1>3. entries' \in 0..MaxEntries /\ initialised' \in BOOLEAN
    BY <1>1, <1>2, MemoryAssumption DEF IInv, TypeOK
  <1>4. \/ UNCHANGED <<regions, pages_total, usable>>
        \/ \E start, end \in Nat : Adds(start, end)
    BY EntryAdds
  <1>5. TableTells'
    BY EntryTells
  <1>6. usable' \subseteq Stretches
    BY <1>4, Zenon DEF IInv, TypeOK, Adds
  <1>7. QED BY <1>1, <1>2, <1>3, <1>4, <1>5, <1>6, AddsKeeps, GrowIInv

\* init_done keeps the invariant.
LEMMA DoneIInv == ASSUME IInv, init_done PROVE IInv'
  <1>1. ~initialised /\ initialised' = TRUE
    BY DEF init_done
  <1>2. UNCHANGED <<current_region, next_page, pages_used, entries, page, given>>
    BY DEF init_done
  <1>3. entries' \in 0..MaxEntries /\ initialised' \in BOOLEAN
    BY <1>1, <1>2 DEF IInv, TypeOK
  <1>4. \/ UNCHANGED <<regions, pages_total, usable>>
        \/ \E start, end \in Nat : Adds(start, end)
    BY DefaultAdds
  <1>5. TableTells'
    BY <1>1 DEF TableTells
  <1>6. usable' \subseteq Stretches
    BY <1>4, Zenon DEF IInv, TypeOK, Adds
  <1>7. QED BY <1>1, <1>2, <1>3, <1>4, <1>5, <1>6, AddsKeeps, GrowIInv

-----------------------------------------------------------------------------
(***************************************************************************)
(* Allocation                                                              *)
(***************************************************************************)

\* The search never looks outside a region.
LEMMA PositionInRegion ==
    ASSUME TypeOK, NEW r \in Unvisited
    PROVE  /\ r \in Regions /\ r \in Nat /\ current_region < r
           /\ position(r) \in Nat /\ regions[r].start <= position(r)
  <1>1. r \in Regions /\ r \in Nat /\ current_region < r
    BY DEF Unvisited, Regions, TypeOK
  <1>2. QED BY <1>1, RegionType DEF position, TypeOK

\* An allocation that succeeds keeps the invariant: its page lies in a region.
LEMMA AllocFromIInv ==
    ASSUME IInv, initialised, NEW r \in Unvisited, alloc_from(r),
           UNCHANGED <<regions, pages_total, entries, initialised, usable>>
    PROVE  IInv'
  <1>1. TypeOK /\ RegionsSound /\ RegionsDisjoint /\ GivenSound
    BY DEF IInv
  <1>2. /\ r \in Regions /\ r \in Nat /\ current_region < r
        /\ position(r) \in Nat /\ regions[r].start <= position(r)
    BY <1>1, PositionInRegion
  <1> DEFINE f == position(r)
  <1>3. /\ current_region' = r - 1 /\ next_page' = f + 1 /\ pages_used' = pages_used + 1
        /\ page' = f /\ given' = given \cup {f} /\ f < regions[r].end
    BY DEF alloc_from, has_page
  <1> HIDE DEF f
  <1>4. f \in Nat /\ regions[r].start <= f
    BY <1>2 DEF f
  <1>5. /\ kernel_end <= regions[r].start /\ regions[r].end <= Limit
        /\ regions[r].start \in Nat /\ regions[r].end \in Nat
    BY <1>1, <1>2, RegionType DEF RegionsSound
  <1>6. kernel_end <= f /\ f < Limit /\ f \in Frames
    BY <1>3, <1>4, <1>5, KernelEnd, LimitIsPage
  <1>7. Trusted(f) /\ Offered' = Offered
    BY <1>1, <1>2, <1>3, <1>4 DEF RegionsSound, Offered
  <1>8. TypeOK'
    <2>1. current_region' \in 0..Len(regions')
      BY <1>1, <1>2, <1>3 DEF TypeOK, Regions
    <2>2. next_page' \in Nat /\ pages_used' \in Nat
      BY <1>1, <1>3, <1>4 DEF TypeOK
    <2>3. QED BY <1>1, <1>3, <1>6, <2>1, <2>2 DEF TypeOK
  <1>9. GivenSound'
    BY <1>1, <1>3, <1>6, <1>7, Zenon DEF GivenSound, Trusted
  <1>10. RegionsSound' /\ RegionsDisjoint'
    BY <1>1, <1>7 DEF RegionsSound, RegionsDisjoint, Trusted, Regions
  <1>11. NothingGivenYet' /\ TableTells'
    BY DEF NothingGivenYet, TableTells
  <1>12. QED BY <1>8, <1>9, <1>10, <1>11 DEF IInv

\* An allocation that fails keeps the invariant.
LEMMA AllocFailsIInv ==
    ASSUME IInv, initialised, alloc_fails,
           UNCHANGED <<regions, pages_total, entries, initialised, usable>>
    PROVE  IInv'
  <1>1. TypeOK /\ RegionsSound /\ RegionsDisjoint /\ GivenSound
    BY DEF IInv
  <1>2. next_page' \in Nat
    <2>1. CASE Unvisited = {}
      BY <1>1, <2>1 DEF alloc_fails, TypeOK
    <2>2. CASE Unvisited # {}
      <3>1. Len(regions) \in Unvisited
        BY <1>1, <2>2 DEF Unvisited, TypeOK
      <3>2. position(Len(regions)) \in Nat
        BY <1>1, <3>1, PositionInRegion
      <3>3. QED BY <2>2, <3>2 DEF alloc_fails
    <2>3. QED BY <2>1, <2>2
  <1>3. TypeOK'
    <2>1. current_region' \in 0..Len(regions')
      BY <1>1 DEF TypeOK, alloc_fails
    <2>2. QED BY <1>1, <1>2, <2>1 DEF TypeOK, alloc_fails
  <1>4. RegionsSound' /\ RegionsDisjoint' /\ GivenSound'
    <2>1. Offered' = Offered
      BY DEF Offered
    <2>2. QED BY <1>1, <2>1
              DEF RegionsSound, RegionsDisjoint, GivenSound, Trusted, Regions, alloc_fails
  <1>5. NothingGivenYet' /\ TableTells'
    BY DEF NothingGivenYet, TableTells
  <1>6. QED BY <1>3, <1>4, <1>5 DEF IInv

\* Every step keeps the invariant.
LEMMA NextIInv == IInv /\ [Next]_vars => IInv'
  <1> SUFFICES ASSUME IInv, [Next]_vars PROVE IInv'
    OBVIOUS
  <1>1. CASE \E address, length \in Addresses, available \in BOOLEAN :
                map_entry(address, length, available)
    BY <1>1, EntryIInv
  <1>2. CASE init_done
    BY <1>2, DoneIInv
  <1>3. CASE memory_alloc_page
    BY <1>3, AllocFromIInv, AllocFailsIInv DEF memory_alloc_page
  <1>4. CASE UNCHANGED vars
    <2>1. Offered' = Offered
      BY <1>4 DEF vars, Offered
    <2>2. QED BY <1>4, <2>1 DEF vars, allocator, IInv, TypeOK, RegionsSound, RegionsDisjoint,
                    TableTells, NothingGivenYet, GivenSound, Trusted, Regions
  <1>5. QED BY <1>1, <1>2, <1>3, <1>4 DEF Next

\* The invariant holds in every state of every behaviour.
THEOREM Invariant == Spec => []IInv
  BY InitIInv, NextIInv, PTL DEF Spec

\* All variables stay in their ranges, whatever the memory map.
THEOREM TypeCorrect == Spec => []TypeOK
  <1>1. IInv => TypeOK
    BY DEF IInv
  <1>2. QED BY <1>1, Invariant, PTL

\* Every page handed out lies behind the kernel and inside the identity map, and
\* is one the map offers; if the map offers none, it lies below DefaultEnd.
THEOREM UsablePagesOnly == Spec => []PagesAreUsable
  <1>1. ASSUME IInv PROVE PagesAreUsable
    <2> SUFFICES ASSUME NEW f \in given
                 PROVE  /\ f * PAGE_SIZE >= kernel_image_end
                        /\ (f + 1) * PAGE_SIZE <= IDENTITY_MAPPED_LIMIT
                        /\ Trusted(f)
      BY DEF PagesAreUsable, Trusted
    <2>1. f \in Nat /\ kernel_end <= f /\ f < Limit /\ Trusted(f)
      BY <1>1, LimitIsPage DEF IInv, GivenSound, TypeOK
    <2>2. f * PAGE_SIZE \in Nat /\ (f + 1) * PAGE_SIZE \in Nat
      BY <2>1, NextPage, MemoryAssumption
    <2>3. kernel_end * PAGE_SIZE <= f * PAGE_SIZE
      BY <2>1, KernelEnd, MulMono, MemoryAssumption
    <2>4. f * PAGE_SIZE >= kernel_image_end
      BY <2>2, <2>3, KernelEnd, MemoryAssumption
    <2>5. (f + 1) * PAGE_SIZE <= Limit * PAGE_SIZE
      <3> DEFINE k == f + 1
      <3>1. k \in Nat /\ k <= Limit
        BY <2>1, LimitIsPage
      <3> HIDE DEF k
      <3>2. k * PAGE_SIZE <= Limit * PAGE_SIZE
        BY <3>1, LimitIsPage, MulMono, MemoryAssumption
      <3>3. QED BY <3>2 DEF k
    <2>6. (f + 1) * PAGE_SIZE <= IDENTITY_MAPPED_LIMIT
      <3>1. Limit * PAGE_SIZE \in Nat
        BY LimitIsPage, NextPage, MemoryAssumption
      <3>2. QED BY <2>2, <2>5, <3>1, LimitIsPage, MemoryAssumption
    <2>7. QED BY <2>1, <2>4, <2>6
  <1>2. QED BY <1>1, Invariant, PTL

-----------------------------------------------------------------------------
(***************************************************************************)
(* The regions and cursors as a set of free pages                          *)
(***************************************************************************)

\* Where the free pages of a region are.
LEMMA FreeInRegion ==
    ASSUME IInv, NEW r \in Unvisited, NEW f \in FreeIn(r)
    PROVE  f \in Nat /\ f \in Frames /\ regions[r].start <= f /\ f < regions[r].end
  <1>1. /\ r \in Regions /\ position(r) \in Nat /\ regions[r].start <= position(r)
    BY PositionInRegion DEF IInv
  <1>2. regions[r].start \in Nat /\ regions[r].end \in Nat
    BY <1>1, RegionType DEF IInv
  <1>3. f \in Nat /\ f \in Frames /\ position(r) <= f /\ f < regions[r].end
    BY LimitIsPage DEF FreeIn
  <1>4. QED BY <1>1, <1>2, <1>3

\* A page is free in at most one region.
LEMMA FreeOnce ==
    ASSUME IInv, NEW q \in Unvisited, NEW r \in Unvisited, NEW f \in FreeIn(q), f \in FreeIn(r)
    PROVE  q = r
  <1>1. /\ f \in Nat /\ regions[r].start <= f /\ f < regions[r].end
        /\ regions[q].start <= f /\ f < regions[q].end
    BY FreeInRegion
  <1>2. q \in Regions /\ r \in Regions
    BY PositionInRegion DEF IInv
  <1>3. /\ regions[q].start \in Nat /\ regions[q].end \in Nat
        /\ regions[r].start \in Nat /\ regions[r].end \in Nat
    BY <1>2, RegionType DEF IInv
  <1>4. ~(regions[q].end <= regions[r].start \/ regions[r].end <= regions[q].start)
    BY <1>1, <1>3
  <1>5. QED BY <1>2, <1>4 DEF IInv, RegionsDisjoint

\* Allocation takes the page it returns from the free ones, and no other.
LEMMA AllocTakes ==
    ASSUME IInv, NEW r \in Unvisited, alloc_from(r), UNCHANGED regions
    PROVE  position(r) \in Free /\ Free' = Free \ {position(r)}
  <1> DEFINE f == position(r)
  <1>1. /\ r \in Regions /\ r \in Nat /\ current_region < r
        /\ f \in Nat /\ regions[r].start <= f
    BY PositionInRegion DEF IInv
  <1>2. /\ current_region' = r - 1 /\ next_page' = f + 1 /\ f < regions[r].end
        /\ \A q \in Unvisited : q < r => ~has_page(q)
    BY DEF alloc_from, has_page
  <1>3. regions[r].start \in Nat /\ regions[r].end \in Nat /\ regions[r].end <= Limit
    BY <1>1, RegionType DEF IInv, RegionsSound
  <1>4. f \in FreeIn(r)
    <2>1. f \in Frames
      BY <1>1, <1>2, <1>3, LimitIsPage
    <2>2. QED BY <2>1, <1>1, <1>2 DEF FreeIn
  <1>5. f \in Free
    BY <1>4 DEF Free
  <1>6. Unvisited' = { q \in Unvisited : q >= r }
    BY <1>1, <1>2 DEF Unvisited, IInv, TypeOK
  <1>7. ASSUME NEW q \in Unvisited, q < r PROVE FreeIn(q) = {}
    <2>1. ~(position(q) < regions[q].end)
      BY <1>2, <1>7 DEF has_page
    <2>2. q \in Regions /\ position(q) \in Nat
      BY PositionInRegion DEF IInv
    <2>3. regions[q].end \in Nat
      BY <2>2, RegionType DEF IInv
    <2>4. QED BY <2>1, <2>2, <2>3, LimitIsPage DEF FreeIn
  <1>8. position(r)' = f + 1
    BY <1>1, <1>2, <1>3 DEF position
  <1>9. FreeIn(r)' = FreeIn(r) \ {f}
    BY <1>1, <1>3, <1>8, LimitIsPage DEF FreeIn
  <1>10. ASSUME NEW q \in Unvisited, q > r PROVE FreeIn(q)' = FreeIn(q)
    <2>1. q \in Nat /\ current_region \in Nat
      BY PositionInRegion DEF IInv, TypeOK
    <2>2. position(q)' = position(q)
      BY <1>1, <1>2, <1>10, <2>1 DEF position
    <2>3. QED BY <2>2 DEF FreeIn
  <1>11. ASSUME NEW q \in Unvisited, q # r PROVE f \notin FreeIn(q)
    BY <1>4, <1>11, FreeOnce
  <1> HIDE DEF f
  <1>12. Free' = Free \ {f}
    <2>1. ASSUME NEW g, g \in Free' PROVE g \in Free \ {f}
      <3>1. PICK q \in Unvisited' : g \in FreeIn(q)'
        BY <2>1 DEF Free
      <3>2. q \in Unvisited /\ q >= r
        BY <3>1, <1>6
      <3>3. q \in Nat
        BY <3>2, PositionInRegion DEF IInv
      <3>4. CASE q = r
        <4>1. g \in FreeIn(r)'
          BY <3>1, <3>4
        <4>2. g \in FreeIn(r) /\ g # f
          BY <4>1, <1>9
        <4>3. QED BY <4>2 DEF Free
      <3>5. CASE q > r
        <4>1. g \in FreeIn(q) /\ q # r
          BY <3>1, <3>2, <3>3, <3>5, <1>1, <1>10
        <4>2. g # f
          BY <4>1, <3>2, <1>11
        <4>3. QED BY <4>1, <4>2, <3>2 DEF Free
      <3>6. QED BY <3>2, <3>3, <3>4, <3>5, <1>1
    <2>2. ASSUME NEW g \in Free, g # f PROVE g \in Free'
      <3>1. PICK q \in Unvisited : g \in FreeIn(q)
        BY DEF Free
      <3>2. q \in Nat /\ ~(q < r)
        BY <3>1, <1>7, PositionInRegion DEF IInv
      <3>3. q \in Unvisited'
        BY <3>2, <1>1, <1>6
      <3>4. g \in FreeIn(q)'
        <4>1. CASE q = r
          BY <4>1, <3>1, <2>2, <1>9
        <4>2. CASE q > r
          BY <4>2, <3>1, <1>10
        <4>3. QED BY <4>1, <4>2, <3>2, <1>1
      <3>5. QED BY <3>3, <3>4 DEF Free
    <2>3. QED BY <2>1, <2>2
  <1>13. QED BY <1>5, <1>12 DEF f

\* A search that fails has found no free page, and leaves none.
LEMMA AllocFailsEmpty ==
    ASSUME IInv, alloc_fails, UNCHANGED regions
    PROVE  Free = {} /\ Free' = {}
  <1>1. ASSUME NEW r \in Unvisited PROVE FreeIn(r) = {}
    <2>1. ~(position(r) < regions[r].end)
      BY DEF alloc_fails, has_page
    <2>2. r \in Regions /\ position(r) \in Nat
      BY PositionInRegion DEF IInv
    <2>3. regions[r].end \in Nat
      BY <2>2, RegionType DEF IInv
    <2>4. QED BY <2>1, <2>2, <2>3, LimitIsPage DEF FreeIn
  <1>2. Free = {}
    BY <1>1 DEF Free
  <1>3. Unvisited' = {}
    BY DEF alloc_fails, Unvisited, IInv, TypeOK
  <1>4. Free' = {}
    BY <1>3 DEF Free
  <1>5. QED BY <1>2, <1>4

\* A step of memory_init makes new pages free, as many as it adds to the total.
LEMMA GrowthIsFresh ==
    ASSUME IInv, ~initialised, UNCHANGED <<current_region, next_page>>,
           \/ UNCHANGED <<regions, pages_total, usable>>
           \/ \E start, end \in Nat : Adds(start, end)
    PROVE  \E fresh \in SUBSET Frames :
              /\ Free' = Free \cup fresh /\ fresh \cap Free = {}
              /\ IsFiniteSet(fresh) /\ pages_total' = pages_total + Cardinality(fresh)
  <1>0. TypeOK /\ current_region = 0 /\ next_page = kernel_end
    BY DEF IInv, NothingGivenYet
  <1>1. CASE UNCHANGED <<regions, pages_total>>
    <2>1. Free' = Free
      BY <1>1 DEF Free, FreeIn, Unvisited, position
    <2>2. IsFiniteSet({}) /\ Cardinality({}) = 0
      BY FS_EmptySet
    <2>3. pages_total' = pages_total + Cardinality({})
      BY <1>0, <1>1, <2>2 DEF TypeOK
    <2>4. QED BY <2>1, <2>2, <2>3
  <1>2. CASE ~UNCHANGED <<regions, pages_total>>
    <2>1. PICK start \in Nat, end \in Nat : Adds(start, end)
      BY <1>2
    <2> DEFINE s == frame_up(start)
               e == frame_down(clipped(end))
               n == Len(regions) + 1
    <2>2. /\ regions' = Append(regions, [start |-> s, end |-> e])
          /\ pages_total' = pages_total + e - s
          /\ s < e
      BY <1>2, <2>1 DEF Adds, add_region, kept
    <2>3. clipped(end) \in Nat
      BY MemoryAssumption DEF clipped
    <2>4. s \in Nat /\ e \in Nat
      BY <2>3, FrameUp, FrameDown
    <2> HIDE DEF s, e
    <2>5. /\ n \in Nat /\ n = Len(regions')
          /\ regions'[n].start = s /\ regions'[n].end = e
          /\ \A r \in Regions : regions'[r] = regions[r]
      BY <2>2, <2>4, <1>0 DEF TypeOK, Regions
    <2>6. n \in Regions' /\ RegionsSound' /\ RegionsDisjoint'
      BY <2>5, AddsKeeps DEF Regions
    <2>7. kernel_end <= s /\ e <= Limit
      BY <2>5, <2>6 DEF RegionsSound
    <2> DEFINE fresh == s..(e - 1)
    <2>8. fresh \in SUBSET Frames
      BY <2>4, <2>7, LimitIsPage
    <2>9. IsFiniteSet(fresh) /\ pages_total' = pages_total + Cardinality(fresh)
      <3>1. s \in Int /\ e - 1 \in Int /\ ~(s > e - 1)
        BY <2>2, <2>4
      <3>2. IsFiniteSet(fresh) /\ Cardinality(fresh) = (e - 1) - s + 1
        BY <3>1, FS_Interval
      <3>3. QED BY <3>2, <2>2, <2>4, <1>0 DEF TypeOK
    <2>10. Unvisited' = Regions \cup {n} /\ Unvisited = Regions
      BY <1>0, <2>5 DEF Unvisited, Regions, TypeOK
    <2>11. ASSUME NEW r \in Regions PROVE FreeIn(r)' = FreeIn(r)
      <3>1. regions'[r] = regions[r]
        BY <2>5
      <3>2. QED BY <3>1 DEF FreeIn, position
    <2>12. ASSUME NEW r, r = n PROVE FreeIn(r)' = fresh
      <3>1. position(r)' = s
        BY <2>4, <2>5, <2>7, <2>12, <1>0, KernelEnd DEF position
      <3>2. FreeIn(r)' = { f \in Frames : s <= f /\ f < e }
        BY <3>1, <2>5, <2>12 DEF FreeIn
      <3>3. QED BY <3>2, <2>4, <2>8, LimitIsPage
    <2>13. Free' = Free \cup fresh
      <3>1. ASSUME NEW g, g \in Free' PROVE g \in Free \cup fresh
        <4>1. PICK r \in Unvisited' : g \in FreeIn(r)'
          BY <3>1 DEF Free
        <4>2. CASE r = n
          BY <4>1, <4>2, <2>12
        <4>3. CASE r \in Regions
          <5>1. g \in FreeIn(r)
            BY <4>1, <4>3, <2>11
          <5>2. QED BY <5>1, <4>3, <2>10 DEF Free
        <4>4. QED BY <4>1, <4>2, <4>3, <2>10
      <3>2. ASSUME NEW g \in Free PROVE g \in Free'
        <4>1. PICK r \in Unvisited : g \in FreeIn(r)
          BY DEF Free
        <4>2. r \in Unvisited' /\ g \in FreeIn(r)'
          BY <4>1, <2>10, <2>11
        <4>3. QED BY <4>2 DEF Free
      <3>3. ASSUME NEW g \in fresh PROVE g \in Free'
        <4>1. PICK r \in Unvisited' : r = n
          BY <2>10
        <4>2. g \in FreeIn(r)'
          BY <4>1, <2>12
        <4>3. QED BY <4>1, <4>2 DEF Free
      <3>4. QED BY <3>1, <3>2, <3>3
    <2>14. fresh \cap Free = {}
      <3> SUFFICES ASSUME NEW g \in fresh, g \in Free PROVE FALSE
        OBVIOUS
      <3>1. PICK r \in Unvisited : g \in FreeIn(r)
        BY DEF Free
      <3>2. /\ g \in Nat /\ regions[r].start <= g /\ g < regions[r].end
            /\ r \in Regions /\ r # n
        BY <3>1, <2>5, FreeInRegion, <2>10 DEF Regions
      <3>3. regions[r].start \in Nat /\ regions[r].end \in Nat
        BY <3>2, <1>0, RegionType
      <3>4. r \in Regions' /\ regions'[r] = regions[r]
        BY <3>2, <2>5 DEF Regions
      <3>5. regions[r].end <= s \/ e <= regions[r].start
        BY <3>2, <3>4, <2>5, <2>6 DEF RegionsDisjoint
      <3>6. s <= g /\ g < e
        BY <2>4
      <3>7. QED BY <3>2, <3>3, <3>5, <3>6, <2>4
    <2> HIDE DEF fresh
    <2>15. QED BY <2>8, <2>9, <2>13, <2>14
  <1>3. QED BY <1>1, <1>2

-----------------------------------------------------------------------------
(***************************************************************************)
(* Counters                                                                *)
(***************************************************************************)

\* Every page counted in pages_total is free or given, and none is both.
Counted == /\ given \cap Free = {}
           /\ IsFiniteSet(given) /\ pages_used = Cardinality(given)
           /\ IsFiniteSet(Free) /\ pages_total = pages_used + Cardinality(Free)

\* Nothing is counted at first.
LEMMA InitCounted == Init => Counted
  <1> SUFFICES ASSUME Init PROVE Counted
    OBVIOUS
  <1>1. Free = {}
    BY DEF Init, Free, Unvisited
  <1>2. IsFiniteSet({}) /\ Cardinality({}) = 0
    BY FS_EmptySet
  <1>3. QED BY <1>1, <1>2 DEF Init, Counted

\* The steps of memory_init count the pages they make free.
LEMMA GrowCounted ==
    ASSUME IInv, Counted, ~initialised,
           UNCHANGED <<current_region, next_page, pages_used, given>>,
           \/ UNCHANGED <<regions, pages_total, usable>>
           \/ \E start, end \in Nat : Adds(start, end)
    PROVE  Counted'
  <1>1. PICK fresh \in SUBSET Frames :
              /\ Free' = Free \cup fresh /\ fresh \cap Free = {}
              /\ IsFiniteSet(fresh) /\ pages_total' = pages_total + Cardinality(fresh)
    BY GrowthIsFresh
  <1>2. given = {} /\ given' = {}
    BY DEF IInv, NothingGivenYet
  <1>3. IsFiniteSet(Free) /\ IsFiniteSet(given) /\ pages_total = pages_used + Cardinality(Free)
    BY DEF Counted
  <1>4. /\ IsFiniteSet(Free')
        /\ Cardinality(Free') = Cardinality(Free) + Cardinality(fresh) - Cardinality(Free \cap fresh)
    BY <1>1, <1>3, FS_Union
  <1>5. Cardinality(Free \cap fresh) = 0
    BY <1>1, FS_EmptySet
  <1>6. Cardinality(Free) \in Nat /\ Cardinality(fresh) \in Nat /\ pages_used \in Nat
    BY <1>1, <1>3, FS_CardinalityType DEF IInv, TypeOK
  <1>7. pages_total' = pages_used' + Cardinality(Free')
    BY <1>1, <1>3, <1>4, <1>5, <1>6
  <1>8. given' \cap Free' = {}
    BY <1>2
  <1>9. IsFiniteSet(given') /\ pages_used' = Cardinality(given')
    BY DEF Counted
  <1>10. QED BY <1>4, <1>7, <1>8, <1>9 DEF Counted

\* An allocation moves one page from the free to the given ones.
LEMMA AllocCounted ==
    ASSUME IInv, Counted, NEW r \in Unvisited, alloc_from(r), UNCHANGED <<regions, pages_total>>
    PROVE  Counted'
  <1> DEFINE f == position(r)
  <1>1. f \in Free /\ Free' = Free \ {f}
    BY AllocTakes
  <1>2. given' = given \cup {f} /\ pages_used' = pages_used + 1
    BY DEF alloc_from
  <1> HIDE DEF f
  <1>3. /\ given \cap Free = {} /\ IsFiniteSet(given) /\ pages_used = Cardinality(given)
        /\ IsFiniteSet(Free) /\ pages_total = pages_used + Cardinality(Free)
    BY DEF Counted
  <1>4. IsFiniteSet(given') /\ Cardinality(given') = Cardinality(given) + 1
    BY <1>1, <1>2, <1>3, FS_AddElement
  <1>5. IsFiniteSet(Free') /\ Cardinality(Free') = Cardinality(Free) - 1
    BY <1>1, <1>3, FS_RemoveElement
  <1>6. Cardinality(Free) \in Nat /\ Cardinality(given) \in Nat
    BY <1>3, FS_CardinalityType
  <1>7. pages_used' = Cardinality(given') /\ pages_total' = pages_used' + Cardinality(Free')
    BY <1>2, <1>3, <1>4, <1>5, <1>6
  <1>8. given' \cap Free' = {}
    BY <1>1, <1>2, <1>3
  <1>9. QED BY <1>4, <1>5, <1>7, <1>8 DEF Counted

\* The same pages stay free when nothing the search looks at changes.
LEMMA StutterFree == ASSUME UNCHANGED vars PROVE Free' = Free
  BY DEF vars, allocator, Free, FreeIn, Unvisited, position

\* Every step keeps the count.
LEMMA NextCounted == IInv /\ Counted /\ [Next]_vars => Counted'
  <1> SUFFICES ASSUME IInv, Counted, [Next]_vars PROVE Counted'
    OBVIOUS
  <1>1. ASSUME NEW address \in Addresses, NEW length \in Addresses, NEW available \in BOOLEAN,
               map_entry(address, length, available)
        PROVE  Counted'
    <2>1. ~initialised /\ UNCHANGED <<current_region, next_page, pages_used, given>>
      BY <1>1 DEF map_entry
    <2>2. QED BY <1>1, <2>1, EntryAdds, GrowCounted
  <1>2. CASE init_done
    <2>1. ~initialised /\ UNCHANGED <<current_region, next_page, pages_used, given>>
      BY <1>2 DEF init_done
    <2>2. QED BY <1>2, <2>1, DefaultAdds, GrowCounted
  <1>3. CASE memory_alloc_page
    <2>1. UNCHANGED <<regions, pages_total>>
      BY <1>3 DEF memory_alloc_page
    <2>2. CASE \E r \in Unvisited : alloc_from(r)
      BY <2>1, <2>2, AllocCounted
    <2>3. CASE alloc_fails
      <3>1. Free = {} /\ Free' = {}
        BY <2>1, <2>3, AllocFailsEmpty
      <3>2. given' = given /\ pages_used' = pages_used
        BY <2>3 DEF alloc_fails
      <3>3. QED BY <2>1, <3>1, <3>2 DEF Counted
    <2>4. QED BY <1>3, <2>2, <2>3 DEF memory_alloc_page
  <1>4. CASE UNCHANGED vars
    <2>1. UNCHANGED <<given, pages_used, pages_total, Free>>
      BY <1>4, StutterFree DEF vars, allocator
    <2>2. QED BY <2>1 DEF Counted
  <1>5. QED BY <1>1, <1>2, <1>3, <1>4 DEF Next

\* What memory_pages_used and memory_pages_free report is the number of pages
\* handed out and the number a caller can still get.
THEOREM CountersAreExact == Spec => []CountersExact
  <1>1. ASSUME IInv, Counted PROVE CountersExact
    <2>1. /\ pages_used = Cardinality(given) /\ IsFiniteSet(Free)
          /\ pages_total = pages_used + Cardinality(Free)
      BY <1>1 DEF Counted
    <2>2. pages_used \in Nat /\ Cardinality(Free) \in Nat
      BY <1>1, <2>1, FS_CardinalityType DEF IInv, TypeOK
    <2>3. QED BY <2>1, <2>2 DEF CountersExact, memory_pages_free
  <1>2. QED BY <1>1, InitCounted, NextCounted, Invariant, PTL DEF Spec

-----------------------------------------------------------------------------
(***************************************************************************)
(* Refinement                                                              *)
(***************************************************************************)

\* The regions and the two cursors implement the abstract allocator: a page is
\* given once, and a request is refused only when no page is left.
THEOREM MemoryImplementsAllocator == Spec => ImplementsPageAllocator
  <1>1. Init => Abstract!Init
    <2> SUFFICES ASSUME Init PROVE Abstract!Init
      OBVIOUS
    <2>1. Free = {}
      BY DEF Init, Free, Unvisited
    <2>2. QED BY <2>1 DEF Init, Abstract!Init
  <1>2. ASSUME IInv, [Next]_vars PROVE [Abstract!Next]_(Abstract!vars)
    <2>1. ASSUME ~initialised, UNCHANGED <<current_region, next_page, page, given>>,
                 \/ UNCHANGED <<regions, pages_total, usable>>
                 \/ \E start, end \in Nat : Adds(start, end)
          PROVE  Abstract!Next
      <3>1. PICK fresh \in SUBSET Frames : Free' = Free \cup fresh /\ fresh \cap Free = {}
        BY <1>2, <2>1, GrowthIsFresh
      <3>2. given = {}
        BY <1>2, <2>1 DEF IInv, NothingGivenYet
      <3>3. Abstract!Donate(fresh)
        BY <2>1, <3>1, <3>2 DEF Abstract!Donate
      <3>4. QED BY <3>3 DEF Abstract!Next
    <2>2. ASSUME NEW address \in Addresses, NEW length \in Addresses, NEW available \in BOOLEAN,
                 map_entry(address, length, available)
          PROVE  Abstract!Next
      <3>1. ~initialised /\ UNCHANGED <<current_region, next_page, page, given>>
        BY <2>2 DEF map_entry
      <3>2. QED BY <1>2, <2>1, <2>2, <3>1, EntryAdds
    <2>3. CASE init_done
      <3>1. ~initialised /\ UNCHANGED <<current_region, next_page, page, given>>
        BY <2>3 DEF init_done
      <3>2. QED BY <1>2, <2>1, <2>3, <3>1, DefaultAdds
    <2>4. ASSUME NEW r \in Unvisited, alloc_from(r), UNCHANGED regions
          PROVE  Abstract!Next
      <3>1. position(r) \in Free /\ Free' = Free \ {position(r)}
        BY <1>2, <2>4, AllocTakes
      <3>2. position(r) \in Frames
        BY <3>1 DEF Free, FreeIn
      <3>3. Abstract!Give(position(r))
        BY <2>4, <3>1 DEF Abstract!Give, alloc_from
      <3>4. QED BY <3>2, <3>3 DEF Abstract!Next
    <2>5. ASSUME alloc_fails, UNCHANGED regions PROVE Abstract!Next
      <3>1. Free = {} /\ Free' = {}
        BY <1>2, <2>5, AllocFailsEmpty
      <3>2. Abstract!Refuse
        BY <2>5, <3>1 DEF Abstract!Refuse, alloc_fails
      <3>3. QED BY <3>2 DEF Abstract!Next
    <2>6. CASE memory_alloc_page
      BY <2>4, <2>5, <2>6 DEF memory_alloc_page
    <2>7. CASE UNCHANGED vars
      <3>1. UNCHANGED <<Free, given, page>>
        BY <2>7, StutterFree DEF vars
      <3>2. QED BY <3>1 DEF Abstract!vars
    <2>8. QED BY <1>2, <2>2, <2>3, <2>6, <2>7 DEF Next
  <1>3. QED BY <1>1, <1>2, Invariant, PTL DEF Spec, ImplementsPageAllocator, Abstract!Spec
==============================================================================
