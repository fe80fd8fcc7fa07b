------------------------------- MODULE Paging --------------------------------
(***************************************************************************)
(* Page tables, src/kernel/paging.c, and the preparation of the user       *)
(* process, src/kernel/user_process.c, in the order kernel_main calls      *)
(* them.  The page allocator may run dry at any allocation.                *)
(*                                                                         *)
(* A page table is a function from indices to entries.  Of the four levels *)
(* the code fills entry 0 of the root, entries 0 (identity map) and 1      *)
(* (user window) of the pdpt, one directory of large pages for the         *)
(* identity map, and one directory and one table for the window; an index  *)
(* of the last table is a page of the window.  The boot tables the kernel  *)
(* starts on, which hold the same identity map, are cr3 = Null.            *)
(*                                                                         *)
(* user_process_prepare is taken call by call; nothing runs beside it.     *)
(* The drivers initialised after it allocate pages, and so may a caller of *)
(* paging_alloc_user_page, a function the kernel offers but does not yet   *)
(* use.                                                                    *)
(***************************************************************************)
EXTENDS Naturals, FiniteSets

CONSTANTS
    WindowPages, \* pages in the user window (512)
    MaxSupply,   \* bound on the pages the allocator has
    Identity,    \* the target of a large page: itself
    Null

ASSUME WindowAssumption == WindowPages \in Nat /\ WindowPages > 1
ASSUME SupplyAssumption == /\ MaxSupply \in Nat
                           /\ Null \notin Nat /\ Identity \notin Nat /\ Identity # Null

Pages   == 1..MaxSupply
Indices == 0..(WindowPages - 1)
Entries == [to : Pages \cup {Identity}, user : BOOLEAN] \cup {Null}
Refs    == Pages \cup {Null}

ASSUME EntryAssumption == Null \notin [to : Pages \cup {Identity}, user : BOOLEAN]

VARIABLES
    supply,          \* pages the allocator had when paging_init was called
    given,           \* pages handed out: 1..given
    table,           \* contents of the pages; all zero at first
    cr3,
    ready,
    table_pages,
    runtime_pdpt, user_directory, user_table, next_user_page, \* the root of paging_init
    user_address_space,                                       \* the only other one
    user_address_space_ready,
    code_page, stack_page, prepared,                          \* user_process.c
    pc,              \* the next call of kernel_main
    runtime_promised,\* history: window pages mapped, per root
    space_promised

runtime == <<runtime_pdpt, user_directory, user_table, next_user_page, runtime_promised>>
space   == <<user_address_space, user_address_space_ready, space_promised>>
process == <<code_page, stack_page, prepared>>
vars    == <<supply, given, table, cr3, ready, table_pages, runtime, space, process, pc>>

TypeOK == /\ supply \in 0..MaxSupply
          /\ given \in 0..supply
          /\ table \in [Pages -> [Indices -> Entries]]
          /\ cr3 \in Refs
          /\ ready \in BOOLEAN /\ user_address_space_ready \in BOOLEAN /\ prepared \in BOOLEAN
          /\ table_pages \in 0..given
          /\ {runtime_pdpt, user_directory, user_table, code_page, stack_page} \subseteq Refs
          /\ user_address_space \in [{"pml4", "pdpt", "user_directory", "user_table"} -> Refs]
          /\ next_user_page \in 0..WindowPages
          /\ pc \in {"init", "create", "switch", "prepare", "image", "code", "stack", "running"}

NoPromise == [i \in Indices |-> Null]

Init == /\ supply \in 0..MaxSupply
        /\ given = 0
        /\ table = [p \in Pages |-> [i \in Indices |-> Null]]
        /\ cr3 = Null
        /\ ready = FALSE /\ table_pages = 0
        /\ runtime_pdpt = Null /\ user_directory = Null /\ user_table = Null
        /\ next_user_page = 0
        /\ user_address_space =
              [f \in {"pml4", "pdpt", "user_directory", "user_table"} |-> Null]
        /\ user_address_space_ready = FALSE
        /\ code_page = Null /\ stack_page = Null /\ prepared = FALSE
        /\ pc = "init"
        /\ runtime_promised = NoPromise /\ space_promised = NoPromise

-----------------------------------------------------------------------------
\* memory_alloc_page, called n times in a step: the k-th call gets page
\* given + k if there is one.
got(n)  == given + n <= supply
take(n) == given' = IF got(n) THEN given + n ELSE supply

link(target)      == [to |-> target, user |-> FALSE]
user_link(target) == [to |-> target, user |-> TRUE]

\* paging_init: root, pdpt, one directory of large pages, then cr3.
paging_init ==
    /\ pc = "init"
    /\ pc' = "create"
    /\ take(3)
    /\ LET pml4 == given + 1 pdpt == given + 2 directory == given + 3
       IN  /\ ready' = got(3)
           /\ cr3' = IF got(3) THEN pml4 ELSE cr3
           /\ runtime_pdpt' = IF got(2) THEN pdpt ELSE Null
           /\ table_pages' = IF got(3) THEN 3 ELSE IF got(2) THEN 2 ELSE 0
           /\ table' = IF got(3)
                          THEN [table EXCEPT ![pml4][0] = link(pdpt),
                                             ![pdpt][0] = link(directory),
                                             ![directory] = [i \in Indices |-> link(Identity)]]
                       ELSE IF got(2) THEN [table EXCEPT ![pml4][0] = link(pdpt)]
                       ELSE table
    /\ UNCHANGED <<supply, user_directory, user_table, next_user_page, runtime_promised,
                   space, process>>

(***************************************************************************)
(* paging_create_address_space: the first call makes the one address       *)
(* space, which shares the identity map; later calls return it.            *)
(***************************************************************************)
share_unlinked(pml4, pdpt) == \* mutant: the identity map is not shared
    [table EXCEPT ![pml4][0] = link(pdpt)]

share(pml4, pdpt) == [table EXCEPT ![pml4][0] = link(pdpt),
                                   ![pdpt][0] = table[runtime_pdpt][0]]

paging_create_address_space ==
    IF ready /\ ~user_address_space_ready
       THEN /\ take(2)
            /\ user_address_space_ready' = got(2)
            /\ IF got(2)
                  THEN /\ table' = share(given + 1, given + 2)
                       /\ user_address_space' = [user_address_space EXCEPT !.pml4 = given + 1,
                                                                           !.pdpt = given + 2]
                       /\ table_pages' = table_pages + 2
                  ELSE UNCHANGED <<table, user_address_space, table_pages>>
       ELSE UNCHANGED <<given, table, user_address_space, user_address_space_ready, table_pages>>

\* paging_switch_address_space, called with what was returned.
paging_switch_address_space ==
    cr3' = IF user_address_space_ready /\ ready THEN user_address_space.pml4 ELSE cr3

(***************************************************************************)
(* paging_map_user_page and paging_map_address_space_page do the same to   *)
(* two roots: they make the window's directory and table on first use, and *)
(* keep the directory when there is no page for the table.  The caller has *)
(* taken "held" pages in the same step.  An index outside Indices stands   *)
(* for an address outside the window.                                      *)
(***************************************************************************)
missing(directory) == IF directory = Null THEN 1 ELSE 0

directory_after(directory, held) ==
    IF directory # Null THEN directory
    ELSE IF got(held + 1) THEN given + held + 1 ELSE Null

table_after_same(directory, last, held) == \* mutant: the directory's page again
    IF last # Null THEN last ELSE IF got(held + 1) THEN given + held + 1 ELSE Null

table_after(directory, last, held) ==
    IF last # Null THEN last
    ELSE LET n == held + missing(directory) + 1 IN IF got(n) THEN given + n ELSE Null

accepted_wide(index) == ready /\ index \in 0..WindowPages \* mutant: <= for <
accepted(index) == ready /\ index \in Indices

\* Whether the call returns 0.
maps(directory, last, index, held) ==
    accepted(index) /\ table_after(directory, last, held) # Null

page_index_shared(index) == 0 \* mutant: every page of the window has one entry
page_index(index) == index

counted_first(directory, last, d, t) == missing(directory) + missing(last) \* mutant: counted before asked for
counted(directory, last, d, t) == (missing(directory) - missing(d)) + (missing(last) - missing(t))

map_page(pdpt, directory, last, index, page, held) ==
    LET d == directory_after(directory, held)
        t == table_after(directory, last, held)
        upper == [table EXCEPT ![pdpt][1] = user_link(d)]
        lower == [upper EXCEPT ![d][0] = user_link(t)]
    IN  IF accepted(index)
           THEN /\ take(held + missing(directory) + missing(last))
                /\ table_pages' = table_pages + counted(directory, last, d, t)
                /\ table' = IF d = Null THEN table
                            ELSE IF t = Null THEN upper
                            ELSE [lower EXCEPT ![t][page_index(index)] = user_link(page)]
           ELSE /\ take(held)
                /\ UNCHANGED <<table, table_pages>>

map_in_space(index, page) ==
    LET s == user_address_space
    IN  /\ map_page(s.pdpt, s.user_directory, s.user_table, index, page, 0)
        /\ user_address_space' =
              [s EXCEPT !.user_directory = directory_after(s.user_directory, 0),
                        !.user_table = table_after(s.user_directory, s.user_table, 0)]
        /\ space_promised' = IF maps(s.user_directory, s.user_table, index, 0)
                                THEN [space_promised EXCEPT ![index] = page]
                                ELSE space_promised
        /\ UNCHANGED user_address_space_ready

\* paging_alloc_user_page maps the next page of the window under the root of
\* paging_init.
paging_alloc_user_page ==
    /\ pc = "running"
    /\ IF got(1)
          THEN /\ map_page(runtime_pdpt, user_directory, user_table, next_user_page, given + 1, 1)
               /\ IF accepted(next_user_page)
                     THEN /\ user_directory' = directory_after(user_directory, 1)
                          /\ user_table' = table_after(user_directory, user_table, 1)
                     ELSE UNCHANGED <<user_directory, user_table>>
               /\ IF maps(user_directory, user_table, next_user_page, 1)
                     THEN /\ next_user_page' = next_user_page + 1
                          /\ runtime_promised' =
                                [runtime_promised EXCEPT ![next_user_page] = given + 1]
                     ELSE UNCHANGED <<next_user_page, runtime_promised>>
          ELSE UNCHANGED <<given, table, table_pages, user_directory, user_table,
                           next_user_page, runtime_promised>>
    /\ UNCHANGED <<supply, cr3, ready, runtime_pdpt, space, process, pc>>

-----------------------------------------------------------------------------
(***************************************************************************)
(* kernel_main and user_process_prepare, call by call                      *)
(***************************************************************************)
CreateKernelSpace == /\ pc = "create"
                     /\ pc' = "switch"
                     /\ paging_create_address_space
                     /\ UNCHANGED <<supply, cr3, ready, runtime, space_promised, process>>

Switch == /\ pc = "switch"
          /\ pc' = "prepare"
          /\ paging_switch_address_space
          /\ UNCHANGED <<supply, given, table, ready, table_pages, runtime, space, process>>

PrepareSpace == /\ pc = "prepare"
                /\ pc' = "image"
                /\ paging_create_address_space
                /\ UNCHANGED <<supply, cr3, ready, runtime, space_promised, process>>

image_ready == user_address_space_ready /\ got(2)

\* Both pages are asked for before either result is looked at.
PrepareImage ==
    /\ pc = "image"
    /\ take(2)
    /\ code_page' = IF got(1) THEN given + 1 ELSE Null
    /\ stack_page' = IF got(2) THEN given + 2 ELSE Null
    /\ pc' = IF image_ready THEN "code" ELSE "running"
    /\ UNCHANGED <<supply, table, cr3, ready, table_pages, runtime, space, prepared>>

\* PAGING_USER_BASE
PrepareCode ==
    /\ pc = "code"
    /\ map_in_space(0, code_page)
    /\ pc' = IF space_promised'[0] = code_page THEN "stack" ELSE "running"
    /\ UNCHANGED <<supply, cr3, ready, runtime, process>>

\* USER_PROCESS_STACK_PAGE: the last page of the window
PrepareStack ==
    /\ pc = "stack"
    /\ map_in_space(WindowPages - 1, stack_page)
    /\ prepared' = (space_promised'[WindowPages - 1] = stack_page)
    /\ pc' = "running"
    /\ UNCHANGED <<supply, cr3, ready, runtime, code_page, stack_page>>

\* Drivers take pages, too.
DriverAlloc == /\ pc = "running"
               /\ take(1)
               /\ UNCHANGED <<supply, table, cr3, ready, table_pages, runtime, space, process, pc>>

Next == \/ paging_init \/ CreateKernelSpace \/ Switch
        \/ PrepareSpace \/ PrepareImage \/ PrepareCode \/ PrepareStack
        \/ paging_alloc_user_page \/ DriverAlloc

Spec == Init /\ [][Next]_vars

-----------------------------------------------------------------------------
(***************************************************************************)
(* Properties                                                              *)
(***************************************************************************)

\* What the processor finds at an index of a table, and in a table found so.
entry(page, index) == IF page \in Pages THEN table[page][index] ELSE Null
target(page, index) == IF entry(page, index) = Null THEN Null ELSE entry(page, index).to

window_table(root) == target(target(target(root, 0), 1), 0)
window(root) == [i \in Indices |-> target(window_table(root), i)]

\* Whatever root is loaded, at any point of the boot sequence and whichever
\* allocation fails, the kernel's own memory stays mapped to itself.
KernelStaysMapped ==
    cr3 # Null => \A i \in Indices : target(target(target(cr3, 0), 0), i) = Identity

\* Every call that returned 0 mapped its page where it said and left the other
\* pages of both windows alone; a call that failed half-way mapped nothing.
RuntimeRoot == IF ready THEN CHOOSE p \in Pages : entry(p, 0) = link(runtime_pdpt) ELSE Null
WindowsAsPromised ==
    /\ window(RuntimeRoot) = runtime_promised
    /\ window(user_address_space.pml4) = space_promised

\* The tables a root leads to.
tables_under(root) ==
    { root, target(root, 0), target(target(root, 0), 0), target(target(root, 0), 1),
      window_table(root) } \cap Pages
Tables == tables_under(RuntimeRoot) \cup tables_under(user_address_space.pml4)

\* No page is a page table and mapped in a window, and no two addresses of the
\* windows share a page.
PagesArePrivate ==
    LET mapped(root) == { window(root)[i] : i \in Indices } \ {Null}
    IN  /\ (mapped(RuntimeRoot) \cup mapped(user_address_space.pml4)) \cap Tables = {}
        /\ mapped(RuntimeRoot) \cap mapped(user_address_space.pml4) = {}
        /\ \A root \in {RuntimeRoot, user_address_space.pml4} : \A i, j \in Indices :
              window(root)[i] = window(root)[j] /\ window(root)[i] # Null => i = j

\* paging_table_pages() counts the page tables in use, also after a mapping
\* that failed between its two allocations.
TablePagesExact == ready => table_pages = Cardinality(Tables)

\* "process: user image prepared": the processor, in user mode, may fetch from
\* the page the image was put in; all entries on the way must allow it.
user_reaches(root, index) ==
    LET path == << entry(root, 0), entry(target(root, 0), 1),
                   entry(target(target(root, 0), 1), 0), entry(window_table(root), index) >>
    IN  \A level \in 1..4 : path[level] # Null /\ path[level].user
PreparedIsReachable == prepared => user_reaches(user_address_space.pml4, 0)
==============================================================================
