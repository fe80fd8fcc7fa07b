------------------------------- MODULE Memory --------------------------------
(***************************************************************************)
(* The page allocator, src/kernel/memory.c.  memory_init walks the memory  *)
(* map of the boot loader entry by entry; memory_alloc_page then hands out *)
(* page after page of the regions it kept, and never takes one back.       *)
(*                                                                         *)
(* Byte addresses appear only in the memory map.  Everything the allocator *)
(* stores is a multiple of PAGE_SIZE, so regions, next_page and pages are  *)
(* kept as page frame numbers (address \div PAGE_SIZE).                    *)
(***************************************************************************)
EXTENDS Naturals, Sequences, FiniteSets

CONSTANTS
    PAGE_SIZE,
    MAX_MEMORY_REGIONS,
    IDENTITY_MAPPED_LIMIT, \* bytes the boot page tables map
    WORD,                  \* 2^64: addresses are computed modulo WORD
    kernel_image_end,      \* address of the linker symbol __kernel_end
    DefaultEnd,            \* 128 MiB, assumed when the map has no usable region
    MaxEntries,            \* bound on the length of the memory map
    Null

ASSUME MemoryAssumption ==
    /\ PAGE_SIZE \in Nat \ {0}
    /\ MAX_MEMORY_REGIONS \in Nat \ {0}
    /\ WORD \in Nat /\ IDENTITY_MAPPED_LIMIT \in Nat
    /\ IDENTITY_MAPPED_LIMIT % PAGE_SIZE = 0
    /\ IDENTITY_MAPPED_LIMIT + PAGE_SIZE <= WORD
    /\ kernel_image_end \in Nat /\ kernel_image_end <= IDENTITY_MAPPED_LIMIT
    /\ DefaultEnd \in Nat /\ DefaultEnd < WORD
    /\ MaxEntries \in Nat
    /\ Null \notin Nat

Addresses == 0..(WORD - 1)
Frames    == 0..(IDENTITY_MAPPED_LIMIT \div PAGE_SIZE - 1)
Stretches == [start : Addresses, end : Addresses]

VARIABLES
    regions,        \* sequence of [start, end), in frames
    current_region, \* index into regions, from 0 as in the code
    next_page,
    pages_total,
    pages_used,
    entries,        \* entries of the map walked so far
    initialised,    \* memory_init has returned
    page,           \* result of the last memory_alloc_page
    usable,         \* history: the stretches of memory the map has called usable
    given           \* history: the frames handed out

allocator == <<regions, current_region, next_page, pages_total, pages_used>>
vars == <<allocator, entries, initialised, page, usable, given>>

\* align_up and its counterpart, to frames
frame_up_floor(address) == address \div PAGE_SIZE \* mutant: rounds down
frame_up(address)   == (address + PAGE_SIZE - 1) \div PAGE_SIZE
frame_down(address) == address \div PAGE_SIZE

kernel_end == frame_up(kernel_image_end)

TypeOK == /\ regions \in Seq([start : Nat, end : Nat])
          /\ Len(regions) <= MAX_MEMORY_REGIONS
          /\ current_region \in 0..Len(regions)
          /\ next_page \in Nat
          /\ pages_total \in Nat
          /\ pages_used \in Nat
          /\ entries \in 0..MaxEntries
          /\ initialised \in BOOLEAN
          /\ page \in Frames \cup {Null}
          /\ usable \subseteq Stretches
          /\ given \subseteq Frames

Init == /\ regions = <<>>
        /\ current_region = 0
        /\ next_page = kernel_end
        /\ pages_total = 0
        /\ pages_used = 0
        /\ entries = 0
        /\ initialised = FALSE
        /\ page = Null
        /\ usable = {}
        /\ given = {}

(***************************************************************************)
(* add_region: clip to the identity map, shrink to whole pages, keep what  *)
(* is left if the table has room.                                          *)
(***************************************************************************)
clipped_not(end) == end \* mutant: no clipping
clipped(end) == IF end > IDENTITY_MAPPED_LIMIT THEN IDENTITY_MAPPED_LIMIT ELSE end

kept(start, end) == /\ start < IDENTITY_MAPPED_LIMIT
                    /\ Len(regions) < MAX_MEMORY_REGIONS
                    /\ frame_up(start) < frame_down(clipped(end))

add_region_total(start, end) == \* mutant: counts the pages before clipping
    IF kept(start, end)
       THEN /\ regions' = Append(regions, [start |-> frame_up(start),
                                           end   |-> frame_down(clipped(end))])
            /\ pages_total' = pages_total + frame_down(end) - frame_up(start)
       ELSE UNCHANGED <<regions, pages_total>>

add_region(start, end) ==
    IF kept(start, end)
       THEN /\ regions' = Append(regions, [start |-> frame_up(start),
                                           end   |-> frame_down(clipped(end))])
            /\ pages_total' = pages_total + frame_down(clipped(end)) - frame_up(start)
       ELSE UNCHANGED <<regions, pages_total>>

(***************************************************************************)
(* One entry of the memory map.  The boot loader never calls a byte usable *)
(* twice; the entries come in any order, and may be of any other kind, be  *)
(* empty, or be so long that address + length wraps.                       *)
(***************************************************************************)
map_entry(address, length, available) ==
    /\ ~initialised
    /\ entries < MaxEntries
    /\ entries' = entries + 1
    /\ LET end   == (address + length) % WORD
           start == IF address < kernel_end * PAGE_SIZE
                       THEN kernel_end * PAGE_SIZE ELSE address
       IN  IF available /\ length # 0 /\ end > address
              THEN /\ \A u \in usable : end <= u.start \/ u.end <= address
                   /\ usable' = usable \cup {[start |-> address, end |-> end]}
                   /\ add_region(start, end)
              ELSE UNCHANGED <<regions, pages_total, usable>>
    /\ UNCHANGED <<current_region, next_page, pages_used, initialised, page, given>>

\* The end of memory_init.  A map that left the table empty counts as no map: the
\* code then trusts all memory below DefaultEnd, whatever the map said of it.
init_done ==
    /\ ~initialised
    /\ initialised' = TRUE
    /\ IF regions = <<>>
          THEN add_region(kernel_end * PAGE_SIZE, DefaultEnd)
          ELSE UNCHANGED <<regions, pages_total>>
    /\ UNCHANGED <<current_region, next_page, pages_used, entries, page, usable, given>>

(***************************************************************************)
(* memory_alloc_page                                                       *)
(***************************************************************************)
Unvisited == { r \in 1..Len(regions) : r > current_region }

\* Where the search stands when it looks at region r.
position_start(r) == regions[r].start \* mutant: next_page is ignored
position(r) == IF r = current_region + 1 /\ next_page > regions[r].start
                  THEN next_page ELSE regions[r].start

has_page(r) == position(r) < regions[r].end

alloc_from(r) ==
    /\ has_page(r)
    /\ \A q \in Unvisited : q < r => ~has_page(q)
    /\ current_region' = r - 1
    /\ next_page' = position(r) + 1
    /\ pages_used' = pages_used + 1
    /\ page' = position(r)
    /\ given' = given \cup {position(r)}

alloc_fails ==
    /\ \A r \in Unvisited : ~has_page(r)
    /\ current_region' = Len(regions)
    /\ next_page' = IF Unvisited = {} THEN next_page ELSE position(Len(regions))
    /\ page' = Null
    /\ UNCHANGED <<pages_used, given>>

memory_alloc_page ==
    /\ initialised
    /\ alloc_fails \/ \E r \in Unvisited : alloc_from(r)
    /\ UNCHANGED <<regions, pages_total, entries, initialised, usable>>

Next == \/ \E address, length \in Addresses, available \in BOOLEAN :
              map_entry(address, length, available)
        \/ init_done
        \/ memory_alloc_page

Spec == Init /\ [][Next]_vars

-----------------------------------------------------------------------------
(***************************************************************************)
(* Properties                                                              *)
(***************************************************************************)
memory_pages_free == IF pages_used < pages_total THEN pages_total - pages_used ELSE 0

\* Frames the allocator can still reach.
FreeIn(r) == { f \in Frames : position(r) <= f /\ f < regions[r].end }
Free == UNION { FreeIn(r) : r \in Unvisited }

\* The regions and the two cursors behave as a set of free frames: no frame is
\* handed out twice, and the null pointer is returned only when none is left,
\* however the entries of the map are ordered and wherever they start and end.
Abstract == INSTANCE PageAllocator WITH free <- Free, Refused <- Null
ImplementsPageAllocator == Abstract!Spec

\* The pages behind the kernel image and inside the identity map that lie wholly
\* in one entry of the map that is usable memory.
Offered == { f \in Frames : /\ kernel_end <= f
                            /\ \E u \in usable : /\ u.start <= f * PAGE_SIZE
                                                 /\ (f + 1) * PAGE_SIZE <= u.end }

\* Every page handed out lies behind the kernel image and inside the identity map
\* and is one the map offers, as long as the map offers a page at all.  Where it
\* offers none, memory_init takes all memory below DefaultEnd for usable
\* (memory.c:105-108): then the pages are below that address, and nothing says
\* that they are memory.
PagesAreUsable ==
    \A f \in given : /\ f * PAGE_SIZE >= kernel_image_end
                     /\ (f + 1) * PAGE_SIZE <= IDENTITY_MAPPED_LIMIT
                     /\ \/ f \in Offered
                        \/ Offered = {} /\ (f + 1) * PAGE_SIZE <= DefaultEnd

\* The counters memory_pages_used and memory_pages_free report are the pages
\* handed out and the pages a caller can still get.
CountersExact == /\ pages_used = Cardinality(given)
                 /\ memory_pages_free = Cardinality(Free)
==============================================================================
