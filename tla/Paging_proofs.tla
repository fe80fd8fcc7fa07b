---------------------------- MODULE Paging_proofs ---------------------------
(***************************************************************************)
(* Theorems about Paging for every size of the window and every number of  *)
(* pages the allocator may have.                                           *)
(***************************************************************************)
EXTENDS Paging, FiniteSetTheorems, TLAPS

(***************************************************************************)
(* The inductive invariant says what every entry of every page is, in      *)
(* terms of the variables of paging.c and the promises made.               *)
(*                                                                         *)
(* The pages of paging_init are 1 (root), 2 (pdpt) and 3 (directory of the *)
(* identity map); the others are the user tables under either root, and    *)
(* the root and pdpt of the address space.                                 *)
(***************************************************************************)
pml4  == user_address_space.pml4
pdpt2 == user_address_space.pdpt
dir2  == user_address_space.user_directory
tab2  == user_address_space.user_table

Made == 4..given
MadeOrNull == Made \cup {Null}

linked(ref) == IF ref = Null THEN Null ELSE user_link(ref)

shape(p, i) ==
    IF p = 1 THEN IF i = 0 THEN link(2) ELSE Null
    ELSE IF p = 2 THEN IF i = 0 THEN link(3) ELSE IF i = 1 THEN linked(user_directory) ELSE Null
    ELSE IF p = 3 THEN link(Identity)
    ELSE IF p = user_directory THEN IF i = 0 THEN linked(user_table) ELSE Null
    ELSE IF p = user_table THEN linked(runtime_promised[i])
    ELSE IF p = pml4 THEN IF i = 0 THEN link(pdpt2) ELSE Null
    ELSE IF p = pdpt2 THEN IF i = 0 THEN link(3) ELSE IF i = 1 THEN linked(dir2) ELSE Null
    ELSE IF p = dir2 THEN IF i = 0 THEN linked(tab2) ELSE Null
    ELSE IF p = tab2 THEN linked(space_promised[i])
    ELSE Null

\* What the entries of every page are.
Shape == ready => \A p \in Pages, i \in Indices : table[p][i] = shape(p, i)

\* Different tables are different pages.
apart(a, b) == a = b => a = Null
TablesApart ==
    /\ apart(user_directory, user_table) /\ apart(user_directory, pml4)
    /\ apart(user_directory, pdpt2) /\ apart(user_directory, dir2) /\ apart(user_directory, tab2)
    /\ apart(user_table, pml4) /\ apart(user_table, pdpt2) /\ apart(user_table, dir2)
    /\ apart(user_table, tab2)
    /\ apart(pml4, pdpt2) /\ apart(pml4, dir2) /\ apart(pml4, tab2)
    /\ apart(pdpt2, dir2) /\ apart(pdpt2, tab2)
    /\ apart(dir2, tab2)

\* No table of its own is this page.
is_table(p) == p \in {user_directory, user_table, pml4, pdpt2, dir2, tab2}

\* Which of them there are.
Stages ==
    /\ {user_directory, user_table, pml4, pdpt2, dir2, tab2} \subseteq MadeOrNull
    /\ user_directory = Null => user_table = Null
    /\ user_table = Null => runtime_promised = NoPromise
    /\ user_address_space_ready <=> pml4 # Null
    /\ user_address_space_ready <=> pdpt2 # Null
    /\ ~user_address_space_ready => dir2 = Null
    /\ dir2 = Null => tab2 = Null
    /\ tab2 = Null => space_promised = NoPromise
    /\ ready => runtime_pdpt = 2 /\ given >= 3
    /\ ~ready => cr3 = Null /\ user_directory = Null /\ ~user_address_space_ready
    /\ cr3 \in {Null, 1} \/ (user_address_space_ready /\ cr3 = pml4)

\* The order of the boot sequence.
Order ==
    /\ pc = "init" => given = 0 /\ ~ready /\ table_pages = 0
                      /\ table = [p \in Pages |-> [i \in Indices |-> Null]]
    /\ pc \in {"code", "stack"} => user_address_space_ready
    /\ pc \notin {"stack", "running"} => space_promised = NoPromise
    /\ pc = "stack" => \A i \in Indices : space_promised[i] # Null => space_promised[i] = code_page

\* A page that holds data is in no table's place, and promised once.
unused(p) == /\ ~is_table(p)
             /\ \A i \in Indices : runtime_promised[i] # p /\ space_promised[i] # p

Promises ==
    /\ runtime_promised \in [Indices -> MadeOrNull]
    /\ space_promised \in [Indices -> MadeOrNull]
    /\ \A i \in Indices : runtime_promised[i] # Null => ~is_table(runtime_promised[i])
    /\ \A i \in Indices : space_promised[i] # Null => ~is_table(space_promised[i])
    /\ \A i, j \in Indices : apart(runtime_promised[i], space_promised[j])
    /\ \A i, j \in Indices : i # j => /\ apart(runtime_promised[i], runtime_promised[j])
                                      /\ apart(space_promised[i], space_promised[j])
    /\ pc = "code" => code_page \in Made /\ unused(code_page)
    /\ pc \in {"code", "stack"} => stack_page \in Made /\ unused(stack_page) /\ code_page # stack_page
    /\ \A i \in Indices : i >= next_user_page => runtime_promised[i] = Null

one(ref) == IF ref = Null THEN 0 ELSE 1
Count == ready => table_pages = 3 + one(user_directory) + one(user_table) + one(pml4)
                                  + one(pdpt2) + one(dir2) + one(tab2)

IInv == TypeOK /\ Shape /\ TablesApart /\ Stages /\ Order /\ Promises /\ Count

-----------------------------------------------------------------------------
LEMMA Basics ==
    ASSUME TypeOK
    PROVE  /\ given \in Nat /\ supply \in Nat /\ given <= supply /\ supply <= MaxSupply
           /\ Pages \subseteq Nat /\ Indices \subseteq Nat
           /\ 0 \in Indices /\ 1 \in Indices /\ WindowPages - 1 \in Indices
           /\ WindowPages - 1 # 0
           /\ Null \notin Nat /\ Identity \notin Nat
           /\ Made \subseteq Pages /\ MadeOrNull \subseteq Refs
           /\ \A n \in Nat : n > 0 /\ n <= supply => n \in Pages
BY WindowAssumption, SupplyAssumption DEF TypeOK, Pages, Indices, Made, MadeOrNull, Refs

LEMMA LinkType ==
    /\ \A p \in Pages \cup {Identity} : /\ link(p) \in Entries /\ link(p) # Null
                                        /\ user_link(p) \in Entries /\ user_link(p) # Null
    /\ \A p : link(p).to = p /\ user_link(p).to = p
    /\ \A p \in Refs : linked(p) \in Entries
    /\ Null \in Entries
<1> DEFINE Links == [to : Pages \cup {Identity}, user : BOOLEAN]
<1>1. ASSUME NEW p \in Pages \cup {Identity} PROVE link(p) \in Links /\ user_link(p) \in Links
  BY DEF link, user_link
<1>2. Null \notin Links /\ Entries = Links \cup {Null}
  BY EntryAssumption DEF Entries
<1> HIDE DEF Links
<1>3. \A p \in Pages \cup {Identity} : /\ link(p) \in Entries /\ link(p) # Null
                                        /\ user_link(p) \in Entries /\ user_link(p) # Null
  BY <1>1, <1>2, Zenon
<1>4. \A p : link(p).to = p /\ user_link(p).to = p
  BY DEF link, user_link
<1>5. \A p \in Refs : linked(p) \in Entries
  BY <1>2, <1>3, Zenon DEF linked, Refs
<1> QED
  BY <1>2, <1>3, <1>4, <1>5

-----------------------------------------------------------------------------
(***************************************************************************)
(* memory_alloc_page.                                                      *)
(***************************************************************************)
LEMMA TakeType ==
    ASSUME TypeOK, NEW n \in Nat, take(n)
    PROVE  /\ given' \in Nat /\ given <= given' /\ given' <= supply /\ given' <= given + n
           /\ got(n) => given' = given + n
BY Basics DEF take, got

\* The tables map_page makes are new pages, and it counts them.
LEMMA NewTables ==
    ASSUME TypeOK, NEW held \in {0, 1}, held = 1 => got(1),
           NEW directory \in MadeOrNull, NEW last \in MadeOrNull, directory = Null => last = Null,
           take(held + missing(directory) + missing(last))
    PROVE  LET d == directory_after(directory, held)
               t == table_after(directory, last, held)
           IN  /\ given' \in Nat /\ given + held <= given' /\ given' <= supply
               /\ directory # Null => d = directory
               /\ directory = Null => d = Null \/ (d \in Nat /\ given + held < d /\ d <= given')
               /\ last # Null => t = last
               /\ last = Null => t = Null \/ (t \in Nat /\ given + held < t /\ t <= given' /\ t # d)
               /\ d = Null => t = Null
               /\ counted(directory, last, d, t)
                     = (one(d) + one(t)) - (one(directory) + one(last))
               /\ one(d) + one(t) <= one(directory) + one(last) + (given' - (given + held))
               /\ one(directory) + one(last) <= one(d) + one(t)
<1> DEFINE d == directory_after(directory, held)
           t == table_after(directory, last, held)
<1>1. /\ given \in Nat /\ supply \in Nat /\ given <= supply /\ Null \notin Nat /\ Made \subseteq Nat
      /\ held \in Nat /\ (held = 0 \/ held = 1) /\ given + held <= supply
  BY Basics DEF got
<1>2. CASE directory = Null
  <2>1. last = Null /\ missing(directory) = 1 /\ missing(last) = 1
    BY <1>2 DEF missing
  <2>2. given' = IF given + held + 2 <= supply THEN given + held + 2 ELSE supply
    BY <1>1, <2>1 DEF take, got
  <2>3. d = IF given + held + 1 <= supply THEN given + held + 1 ELSE Null
    BY <1>1, <1>2 DEF directory_after, got
  <2>4. t = IF given + held + 2 <= supply THEN given + held + 2 ELSE Null
    BY <1>1, <2>1 DEF table_after, got
  <2>5. one(directory) = 0 /\ one(last) = 0
    BY <1>2, <2>1 DEF one
  <2>6. counted(directory, last, d, t) = (one(d) + one(t)) - (one(directory) + one(last))
    BY <1>2, <2>1 DEF counted, missing, one
  <2> HIDE DEF d, t
  <2>7. CASE given + held + 2 <= supply
    <3>1. d = given + held + 1 /\ t = given + held + 2 /\ given' = given + held + 2
      <4>1. given + held + 1 <= supply
        BY <1>1, <2>7
      <4> QED
        BY <2>2, <2>3, <2>4, <2>7, <4>1, Zenon
    <3>2. d # Null /\ t # Null /\ d \in Nat /\ t \in Nat
      BY <1>1, <3>1
    <3>3. one(d) = 1 /\ one(t) = 1
      BY <3>2 DEF one
    <3> QED
      BY <1>1, <1>2, <2>1, <2>5, <2>6, <2>7, <3>1, <3>2, <3>3 DEF d, t
  <2>8. CASE given + held + 1 = supply
    <3>1. d = given + held + 1 /\ t = Null /\ given' = given + held + 1
      <4>1. given + held + 1 <= supply /\ ~(given + held + 2 <= supply)
        BY <1>1, <2>8
      <4> QED
        BY <2>2, <2>3, <2>4, <2>8, <4>1, Zenon
    <3>2. d # Null /\ d \in Nat
      BY <1>1, <3>1
    <3>3. one(d) = 1 /\ one(t) = 0
      BY <3>1, <3>2 DEF one
    <3> QED
      BY <1>1, <1>2, <2>1, <2>5, <2>6, <2>8, <3>1, <3>2, <3>3 DEF d, t
  <2>9. CASE given + held = supply
    <3>1. d = Null /\ t = Null /\ given' = given + held
      BY <1>1, <2>2, <2>3, <2>4, <2>9
    <3>2. one(d) = 0 /\ one(t) = 0
      BY <3>1 DEF one
    <3> QED
      BY <1>1, <1>2, <2>1, <2>5, <2>6, <2>9, <3>1, <3>2 DEF d, t
  <2> QED
    BY <1>1, <2>7, <2>8, <2>9
<1>3. CASE directory # Null
  <2>1. d = directory /\ missing(directory) = 0 /\ one(directory) = 1
    BY <1>3 DEF directory_after, missing, one
  <2>2. CASE last # Null
    <3>1. t = last /\ missing(last) = 0 /\ one(last) = 1
      BY <2>2 DEF table_after, missing, one
    <3>2. given' = given + held
      BY <1>1, <2>1, <3>1 DEF take, got
    <3>3. counted(directory, last, d, t) = 0
      BY <2>1, <3>1 DEF counted
    <3> HIDE DEF d, t
    <3> QED
      BY <1>1, <1>3, <2>1, <2>2, <3>1, <3>2, <3>3 DEF d, t
  <2>3. CASE last = Null
    <3>1. missing(last) = 1 /\ one(last) = 0
      BY <2>3 DEF missing, one
    <3>2. given' = IF given + held + 1 <= supply THEN given + held + 1 ELSE supply
      BY <1>1, <2>1, <3>1 DEF take, got
    <3>3. t = IF given + held + 1 <= supply THEN given + held + 1 ELSE Null
      BY <1>1, <2>1, <2>3 DEF table_after, got
    <3>4. counted(directory, last, d, t) = one(t)
      BY <1>3, <2>1, <2>3 DEF counted, missing, one
    <3> HIDE DEF d, t
    <3>5. d # Null /\ one(d) = 1 /\ d \in Made /\ Made = 4..given
      BY <1>3, <2>1 DEF MadeOrNull, one, Made
    <3>6. CASE given + held + 1 <= supply
      <4>1. t = given + held + 1 /\ given' = given + held + 1
        BY <3>2, <3>3, <3>6
      <4>2. t # Null /\ t \in Nat /\ t # d
        BY <1>1, <3>5, <4>1
      <4>3. one(t) = 1
        BY <4>2 DEF one
      <4>4. counted(directory, last, d, t) = (one(d) + one(t)) - (one(directory) + one(last))
        BY <2>1, <3>1, <3>4, <3>5, <4>3
      <4>5. /\ one(d) + one(t) <= one(directory) + one(last) + (given' - (given + held))
            /\ one(directory) + one(last) <= one(d) + one(t)
        BY <1>1, <2>1, <3>1, <3>5, <4>1, <4>3
      <4>6. given' \in Nat /\ given + held <= given' /\ given' <= supply /\ given + held < t /\ t <= given'
        BY <1>1, <3>6, <4>1
      <4>7. d # Null
        BY <3>5
      <4> QED
        BY <1>3, <2>1, <2>3, <4>2, <4>4, <4>5, <4>6, <4>7 DEF d, t
    <3>7. CASE given + held = supply
      <4>1. t = Null /\ given' = given + held
        BY <1>1, <3>2, <3>3, <3>7
      <4>2. one(t) = 0
        BY <4>1 DEF one
      <4>3. counted(directory, last, d, t) = (one(d) + one(t)) - (one(directory) + one(last))
        BY <2>1, <3>1, <3>4, <3>5, <4>2
      <4> QED
        BY <1>1, <1>3, <2>1, <2>3, <3>1, <3>5, <4>1, <4>2, <4>3 DEF d, t
    <3> QED
      BY <1>1, <3>6, <3>7
  <2> QED
    BY <2>2, <2>3
<1> QED
  BY <1>2, <1>3

-----------------------------------------------------------------------------
(***************************************************************************)
(* Steps that only take pages.                                             *)
(***************************************************************************)
LEMMA OnlyTakes ==
    ASSUME IInv, given' \in Nat, given <= given', given' <= supply, pc # "init",
           pc' = pc \/ pc' = "running",
           UNCHANGED <<supply, table, cr3, ready, table_pages, runtime, space, process>>
    PROVE  IInv'
<1>1. pc' # "init" /\ (pc' \in {"code", "stack"} => pc' = pc)
  OBVIOUS
<1>2. Made \subseteq Made' /\ MadeOrNull \subseteq MadeOrNull' /\ given \in Nat
  BY Basics DEF IInv, Made, MadeOrNull
<1>3. TypeOK'
  BY <1>1, Basics DEF IInv, TypeOK, runtime, space, process, Refs
<1>4. Shape' /\ TablesApart' /\ Count'
  <2>1. UNCHANGED <<user_directory, user_table, runtime_promised, user_address_space, space_promised,
                    ready, table, table_pages>>
    BY DEF runtime, space
  <2>2. ASSUME NEW p \in Pages, NEW i \in Indices PROVE shape(p, i)' = shape(p, i)
    BY <2>1 DEF shape, pml4, pdpt2, dir2, tab2
  <2>3. TablesApart' /\ Count'
    BY <2>1 DEF IInv, TablesApart, Count, pml4, pdpt2, dir2, tab2
  <2>4. Shape'
    BY <2>1, <2>2 DEF IInv, Shape
  <2> QED
    BY <2>3, <2>4
<1>5. Stages'
  BY <1>2 DEF IInv, Stages, pml4, pdpt2, dir2, tab2, runtime, space
<1>6. Order'
  BY <1>1 DEF IInv, Order, runtime, space, process
<1>7. Promises'
  BY <1>1, <1>2 DEF IInv, Promises, unused, is_table, apart, pml4, pdpt2, dir2, tab2, runtime, space,
                    process
<1> QED
  BY <1>3, <1>4, <1>5, <1>6, <1>7 DEF IInv

-----------------------------------------------------------------------------
(***************************************************************************)
(* The entries map_page writes.                                            *)
(***************************************************************************)
written(pdpt, d, t, index, page) ==
    \A p \in Pages, i \in Indices :
       table'[p][i] = IF d # Null /\ p = pdpt /\ i = 1 THEN user_link(d)
                      ELSE IF t # Null /\ p = d /\ i = 0 THEN user_link(t)
                      ELSE IF t # Null /\ p = t /\ i = index THEN user_link(page)
                      ELSE table[p][i]

LEMMA MapEntries ==
    ASSUME TypeOK, ready, NEW pdpt \in Pages, NEW directory, NEW last,
           NEW index \in Indices, NEW page \in Pages, NEW held,
           map_page(pdpt, directory, last, index, page, held),
           directory_after(directory, held) = Null => table_after(directory, last, held) = Null,
           directory_after(directory, held) # Null =>
              directory_after(directory, held) \in Pages \ {pdpt},
           table_after(directory, last, held) # Null =>
              table_after(directory, last, held) \in Pages \ {pdpt, directory_after(directory, held)}
    PROVE  /\ table' \in [Pages -> [Indices -> Entries]]
           /\ written(pdpt, directory_after(directory, held), table_after(directory, last, held),
                      index, page)
<1> DEFINE d == directory_after(directory, held)
           t == table_after(directory, last, held)
           upper == [table EXCEPT ![pdpt][1] = user_link(d)]
           lower == [upper EXCEPT ![d][0] = user_link(t)]
           final == [lower EXCEPT ![t][page_index(index)] = user_link(page)]
<1>1. table' = IF d = Null THEN table ELSE IF t = Null THEN upper ELSE final
  BY Zenon DEF map_page, accepted
<1>2. table \in [Pages -> [Indices -> Entries]]
  BY DEF TypeOK
<1>3. 0 \in Indices /\ 1 \in Indices /\ page_index(index) = index /\ user_link(page) \in Entries
  BY LinkType, Basics DEF page_index
<1>4. /\ d = Null => t = Null
      /\ d # Null => d \in Pages /\ d # pdpt
      /\ t # Null => t \in Pages /\ t # pdpt /\ t # d
  OBVIOUS
<1> HIDE DEF d, t
<1>5. CASE d = Null
  BY <1>1, <1>2, <1>4, <1>5 DEF written, d, t
<1>6. CASE d # Null
  <2>1. d \in Pages /\ d # pdpt /\ user_link(d) \in Entries
    BY <1>4, <1>6, LinkType
  <2>2. /\ upper \in [Pages -> [Indices -> Entries]]
        /\ \A p \in Pages, i \in Indices :
              upper[p][i] = IF p = pdpt /\ i = 1 THEN user_link(d) ELSE table[p][i]
    BY <1>2, <1>3, <2>1
  <2> HIDE DEF upper
  <2>3. CASE t = Null
    <3>1. table' = upper
      BY <1>1, <1>6, <2>3, Zenon
    <3> QED
      BY <1>6, <2>2, <2>3, <3>1 DEF written, d, t
  <2>4. CASE t # Null
    <3>1. t \in Pages /\ t # pdpt /\ t # d /\ user_link(t) \in Entries
      BY <1>4, <2>4, LinkType
    <3>2. /\ lower \in [Pages -> [Indices -> Entries]]
          /\ \A p \in Pages, i \in Indices :
                lower[p][i] = IF p = d /\ i = 0 THEN user_link(t) ELSE upper[p][i]
      BY <1>3, <2>1, <2>2, <3>1
    <3> HIDE DEF lower
    <3>3. /\ final \in [Pages -> [Indices -> Entries]]
          /\ \A p \in Pages, i \in Indices :
                final[p][i] = IF p = t /\ i = index THEN user_link(page) ELSE lower[p][i]
      BY <1>3, <3>1, <3>2
    <3>4. table' = final
      BY <1>1, <1>6, <2>4, Zenon
    <3> HIDE DEF final
    <3>5. written(pdpt, d, t, index, page)
      BY <1>6, <2>1, <2>2, <2>4, <3>1, <3>2, <3>3, <3>4 DEF written
    <3> QED
      BY <3>3, <3>4, <3>5 DEF d, t
  <2> QED
    BY <2>3, <2>4
<1> QED
  BY <1>5, <1>6

-----------------------------------------------------------------------------
(***************************************************************************)
(* paging_alloc_user_page.                                                 *)
(***************************************************************************)
LEMMA AllocIInv == IInv /\ paging_alloc_user_page => IInv'
<1> SUFFICES ASSUME IInv, paging_alloc_user_page PROVE IInv'
  OBVIOUS
<1> DEFINE d == directory_after(user_directory, 1)
           t == table_after(user_directory, user_table, 1)
           page == given + 1
           index == next_user_page
<1>1. /\ pc = "running" /\ pc' = "running"
      /\ UNCHANGED <<supply, cr3, ready, runtime_pdpt, space, process>>
  BY DEF paging_alloc_user_page
<1>2. CASE ~got(1)
  BY <1>1, <1>2, OnlyTakes, Basics DEF paging_alloc_user_page, IInv, runtime
<1>3. CASE got(1) /\ ~accepted(index)
  <2>1. take(1) /\ UNCHANGED <<table, table_pages, user_directory, user_table, next_user_page, runtime_promised>>
    BY <1>3 DEF paging_alloc_user_page, map_page, maps
  <2>2. given' \in Nat /\ given <= given' /\ given' <= supply
    BY <2>1, TakeType DEF IInv
  <2> QED
    BY <1>1, <2>1, <2>2, OnlyTakes DEF runtime
<1>4. CASE got(1) /\ accepted(index)
  <2>1. /\ take(1 + missing(user_directory) + missing(user_table))
        /\ table_pages' = table_pages + counted(user_directory, user_table, d, t)
        /\ user_directory' = d /\ user_table' = t
        /\ IF t # Null
              THEN /\ next_user_page' = next_user_page + 1
                   /\ runtime_promised' = [runtime_promised EXCEPT ![index] = page]
              ELSE UNCHANGED <<next_user_page, runtime_promised>>
    BY <1>4 DEF paging_alloc_user_page, map_page, maps
  <2>2. /\ d = directory_after(user_directory, 1) /\ t = table_after(user_directory, user_table, 1)
        /\ map_page(2, user_directory, user_table, index, page, 1)
    BY <1>4 DEF paging_alloc_user_page, IInv, Stages, accepted
  <2>3. /\ ready /\ index \in Indices /\ given >= 3 /\ given + 1 <= supply
        /\ user_directory \in MadeOrNull /\ user_table \in MadeOrNull
        /\ user_directory = Null => user_table = Null
    BY <1>4 DEF accepted, IInv, Stages, got
  <2>4. /\ given' \in Nat /\ given + 1 <= given' /\ given' <= supply
        /\ user_directory # Null => d = user_directory
        /\ user_directory = Null => d = Null \/ (d \in Nat /\ given + 1 < d /\ d <= given')
        /\ user_table # Null => t = user_table
        /\ user_table = Null => t = Null \/ (t \in Nat /\ given + 1 < t /\ t <= given' /\ t # d)
        /\ d = Null => t = Null
        /\ counted(user_directory, user_table, d, t)
              = (one(d) + one(t)) - (one(user_directory) + one(user_table))
        /\ one(d) + one(t) <= one(user_directory) + one(user_table) + (given' - (given + 1))
        /\ one(user_directory) + one(user_table) <= one(d) + one(t)
    BY <1>4, <2>1, <2>3, NewTables DEF IInv
  <2> HIDE DEF d, t
  <2>5. /\ given \in Nat /\ supply \in Nat /\ supply <= MaxSupply /\ MaxSupply \in Nat
        /\ Null \notin Nat /\ Pages \subseteq Nat /\ 1 \in Indices /\ 0 \in Indices
        /\ Made = 4..given /\ Made' = 4..given' /\ Pages = 1..MaxSupply
    BY Basics, SupplyAssumption DEF IInv, Made, Pages
  <2>6. /\ d \in MadeOrNull' /\ t \in MadeOrNull' /\ page \in Made' /\ page \in Pages
        /\ MadeOrNull \subseteq MadeOrNull' /\ Made \subseteq Made'
        /\ page \notin MadeOrNull /\ d # page /\ t # page
    BY <2>3, <2>4, <2>5 DEF MadeOrNull
  <2>7. /\ d # Null => d \in Pages /\ d # 1 /\ d # 2 /\ d # 3
        /\ t # Null => t \in Pages /\ t # 1 /\ t # 2 /\ t # 3
        /\ 2 \in Pages /\ 1 \in Pages /\ 3 \in Pages
    <3>1. given' <= MaxSupply /\ given' \in Nat
      BY <2>4, <2>5
    <3>2. \A x \in 4..given' : x \in Pages /\ x # 1 /\ x # 2 /\ x # 3
      BY <2>5, <3>1
    <3>3. 2 \in Pages /\ 1 \in Pages /\ 3 \in Pages
      BY <2>3, <2>5
    <3> QED
      BY <2>5, <2>6, <3>2, <3>3 DEF MadeOrNull
  <2>8. UNCHANGED <<user_address_space, user_address_space_ready, space_promised, code_page, stack_page,
                    prepared>>
    BY <1>1 DEF space, process
  <2>9. {pml4, pdpt2, dir2, tab2} \subseteq MadeOrNull /\ UNCHANGED <<pml4, pdpt2, dir2, tab2>>
    BY <2>8 DEF IInv, Stages, pml4, pdpt2, dir2, tab2
  <2>10. /\ \A x \in {pml4, pdpt2, dir2, tab2} : apart(d, x) /\ apart(t, x)
         /\ apart(d, t)
    <3>1. \A x \in MadeOrNull : user_directory = Null => apart(d, x)
      BY <2>4, <2>5 DEF MadeOrNull, apart
    <3>2. \A x \in MadeOrNull : user_table = Null => apart(t, x)
      BY <2>4, <2>5 DEF MadeOrNull, apart
    <3>3. user_directory # Null => \A x \in {pml4, pdpt2, dir2, tab2} : apart(d, x)
      BY <2>4 DEF IInv, TablesApart, apart
    <3>4. user_table # Null => \A x \in {pml4, pdpt2, dir2, tab2} : apart(t, x)
      BY <2>4 DEF IInv, TablesApart, apart
    <3>5. apart(d, t)
      BY <2>3, <2>4 DEF IInv, TablesApart, apart
    <3> QED
      BY <2>9, <3>1, <3>2, <3>3, <3>4, <3>5
  <2>11. TablesApart'
    BY <2>1, <2>9, <2>10 DEF IInv, TablesApart, apart
  <2>12. Count'
    <3>1. /\ one(d) \in {0, 1} /\ one(t) \in {0, 1} /\ one(user_directory) \in {0, 1}
          /\ one(user_table) \in {0, 1} /\ one(pml4) \in {0, 1} /\ one(pdpt2) \in {0, 1}
          /\ one(dir2) \in {0, 1} /\ one(tab2) \in {0, 1}
      BY DEF one
    <3>2. table_pages = 3 + one(user_directory) + one(user_table) + one(pml4) + one(pdpt2)
                          + one(dir2) + one(tab2)
      BY <2>3 DEF IInv, Count
    <3>3. table_pages' = 3 + one(d) + one(t) + one(pml4) + one(pdpt2) + one(dir2) + one(tab2)
      BY <2>1, <2>4, <3>1, <3>2
    <3> QED
      BY <2>1, <2>9, <3>3 DEF Count
  <2>13. Stages'
    <3>1. {user_directory', user_table', pml4', pdpt2', dir2', tab2'} \subseteq MadeOrNull'
      BY <2>1, <2>6, <2>9
    <3>2. user_table' = Null => runtime_promised' = NoPromise
      BY <2>1, <2>4 DEF IInv, Stages
    <3>3. given' >= 3 /\ ready' /\ UNCHANGED <<cr3, runtime_pdpt>>
      BY <1>1, <2>3, <2>4, <2>5
    <3> QED
      BY <2>1, <2>3, <2>4, <2>8, <2>9, <3>1, <3>2, <3>3 DEF IInv, Stages
  <2>14. Order'
    BY <1>1 DEF Order
  <2>15. table' \in [Pages -> [Indices -> Entries]] /\ written(2, d, t, index, page)
    <3>1. /\ d # Null => d \in Pages \ {2}
          /\ t # Null => t \in Pages \ {2, d}
      BY <2>7, <2>10 DEF apart
    <3> QED
      BY <2>2, <2>3, <2>4, <2>6, <2>7, <3>1, MapEntries DEF IInv
  <2>16. TypeOK'
    <3>1. table_pages' \in 0..given'
      <4>1. /\ one(d) \in {0, 1} /\ one(t) \in {0, 1} /\ one(user_directory) \in {0, 1}
            /\ one(user_table) \in {0, 1}
        BY DEF one
      <4>2. table_pages \in 0..given
        BY DEF IInv, TypeOK
      <4> QED
        BY <2>1, <2>4, <2>5, <4>1, <4>2
    <3>2. next_user_page' \in 0..WindowPages
      BY <2>1, <2>3, WindowAssumption DEF Indices, IInv, TypeOK
    <3>3. {user_directory', user_table'} \subseteq Refs
      BY <2>1, <2>7 DEF Refs
    <3> QED
      BY <1>1, <2>4, <2>5, <2>8, <2>15, <3>1, <3>2, <3>3 DEF IInv, TypeOK
  <2>17. ~is_table(page) /\ \A i \in Indices : runtime_promised[i] # page /\ space_promised[i] # page
    BY <2>3, <2>6, <2>9 DEF is_table, IInv, Promises
  <2>19. /\ runtime_promised \in [Indices -> MadeOrNull]
         /\ space_promised \in [Indices -> MadeOrNull]
    BY DEF IInv, Promises
  <2>20. runtime_promised' \in [Indices -> MadeOrNull'] /\ space_promised' \in [Indices -> MadeOrNull']
    BY <2>1, <2>6, <2>8, <2>19 DEF MadeOrNull
  <2>21. \A i \in Indices : runtime_promised'[i] = runtime_promised[i] \/ (i = index /\ runtime_promised'[i] = page)
    BY <2>1, <2>3, <2>19
  <2>22. Promises'
    <3>1. \A i \in Indices : (runtime_promised[i] # Null => ~is_table(runtime_promised[i]))'
      <4> SUFFICES ASSUME NEW i \in Indices, runtime_promised'[i] # Null
                   PROVE  (~is_table(runtime_promised[i]))'
        OBVIOUS
      <4> DEFINE x == runtime_promised'[i]
      <4>1. x \in MadeOrNull \cup {page} /\ x # Null /\ ~is_table(x)
        BY <2>17, <2>19, <2>21 DEF IInv, Promises
      <4> HIDE DEF x
      <4>2. x # d /\ x # t
        BY <2>4, <2>5, <2>6, <4>1 DEF MadeOrNull, is_table
      <4> QED
        BY <2>1, <2>9, <4>1, <4>2 DEF is_table, x
    <3>5. \A i \in Indices : (space_promised[i] # Null => ~is_table(space_promised[i]))'
      <4> SUFFICES ASSUME NEW i \in Indices, space_promised[i] # Null
                   PROVE  (~is_table(space_promised[i]))'
        BY <2>8
      <4> DEFINE x == space_promised[i]
      <4>1. x \in MadeOrNull /\ x # Null /\ ~is_table(x)
        BY <2>19 DEF IInv, Promises
      <4> HIDE DEF x
      <4>2. x # d /\ x # t
        BY <2>4, <2>5, <4>1 DEF MadeOrNull, is_table
      <4> QED
        BY <2>1, <2>8, <2>9, <4>1, <4>2 DEF is_table, x
    <3>2. \A i, j \in Indices : apart(runtime_promised[i], space_promised[j])'
      BY <2>8, <2>17, <2>21 DEF IInv, Promises, apart
    <3>3. \A i, j \in Indices : i # j => /\ apart(runtime_promised[i], runtime_promised[j])'
                                         /\ apart(space_promised[i], space_promised[j])'
      BY <2>8, <2>17, <2>21 DEF IInv, Promises, apart
    <3>4. \A i \in Indices : i >= next_user_page' => runtime_promised'[i] = Null
      <4>1. next_user_page \in Nat /\ next_user_page <= next_user_page'
        BY <2>1 DEF IInv, TypeOK
      <4>2. \A i \in Indices : i >= next_user_page' => i >= next_user_page
        BY <2>1, <4>1, Basics DEF IInv
      <4>3. \A i \in Indices : i >= next_user_page' => runtime_promised'[i] = runtime_promised[i]
        BY <2>1, <2>3, <2>19, <4>1, Basics DEF IInv
      <4> QED
        BY <4>2, <4>3 DEF IInv, Promises
    <3> QED
      BY <1>1, <2>20, <3>1, <3>2, <3>3, <3>4, <3>5 DEF Promises
  <2>23. ASSUME NEW p \in Pages, NEW i \in Indices PROVE table'[p][i] = shape(p, i)'
    <3>1. table[p][i] = shape(p, i)
      BY <2>3 DEF IInv, Shape
    <3>2. /\ linked(d) = IF d = Null THEN Null ELSE user_link(d)
          /\ linked(t) = IF t = Null THEN Null ELSE user_link(t)
          /\ linked(page) = user_link(page) /\ linked(Null) = Null
      BY <2>5, <2>6, <2>7 DEF linked
    <3>3. CASE d = Null
      <4>1. user_directory = Null /\ user_table = Null /\ t = Null /\ runtime_promised' = runtime_promised
        BY <2>1, <2>3, <2>4, <3>3
      <4>2. user_directory' = user_directory /\ user_table' = user_table
        BY <2>1, <3>3, <4>1
      <4>3. shape(p, i)' = shape(p, i)
        BY <2>8, <2>9, <4>1, <4>2 DEF shape
      <4>4. table'[p][i] = table[p][i]
        BY <2>15, <3>3, <4>1, Zenon DEF written
      <4> QED
        BY <3>1, <4>3, <4>4
    <3>4. CASE d # Null /\ t = Null
      <4>1. table'[p][i] = IF p = 2 /\ i = 1 THEN user_link(d) ELSE table[p][i]
        BY <2>15, <3>4, Zenon DEF written
      <4>2. user_table = Null /\ runtime_promised' = runtime_promised
        BY <2>1, <2>4, <3>4
      <4>3. user_directory = Null => \A x \in MadeOrNull : x # d
        BY <2>4, <2>5, <3>4 DEF MadeOrNull
      <4>4. p # Null
        BY <2>5
      <4>5. CASE p = 2
        BY <2>1, <2>8, <2>9, <3>1, <3>2, <4>1, <4>5, <3>4 DEF shape
      <4>6. CASE p = d
        <5>1. table[p][i] = Null
          BY <2>3, <2>4, <2>7, <2>9, <2>10, <3>1, <3>2, <3>4, <4>2, <4>3, <4>4, <4>6 DEF shape, apart
        <5>2. shape(p, i)' = Null
          BY <2>1, <2>7, <3>2, <3>4, <4>6 DEF shape
        <5> QED
          BY <2>7, <3>4, <4>1, <4>6, <5>1, <5>2
      <4>7. CASE p # 2 /\ p # d
        BY <2>1, <2>4, <2>8, <2>9, <3>1, <3>2, <3>4, <4>1, <4>2, <4>4, <4>7 DEF shape
      <4> QED
        BY <4>5, <4>6, <4>7
    <3>5. CASE d # Null /\ t # Null
      <4>1. table'[p][i] = IF p = 2 /\ i = 1 THEN user_link(d)
                           ELSE IF p = d /\ i = 0 THEN user_link(t)
                           ELSE IF p = t /\ i = index THEN user_link(page)
                           ELSE table[p][i]
        BY <2>15, <3>5, Zenon DEF written
      <4>2. /\ user_directory = Null => \A x \in MadeOrNull : x # d
            /\ user_table = Null => \A x \in MadeOrNull : x # t
        BY <2>4, <2>5, <3>5 DEF MadeOrNull
      <4>3. p # Null /\ d # t
        BY <2>5, <2>10, <3>5 DEF apart
      <4>4. runtime_promised'[i] = IF i = index THEN page ELSE runtime_promised[i]
        BY <2>1, <2>3, <2>19, <3>5
      <4>5. CASE p = 2
        BY <2>1, <2>7, <2>8, <2>9, <3>1, <3>2, <3>5, <4>1, <4>5 DEF shape
      <4>6. CASE p = d
        <5>1. i # 0 => table[p][i] = Null
          BY <2>3, <2>4, <2>7, <2>9, <2>10, <3>1, <3>2, <3>5, <4>2, <4>3, <4>6 DEF shape, apart
        <5>2. shape(p, i)' = IF i = 0 THEN user_link(t) ELSE Null
          BY <2>1, <2>7, <3>2, <3>5, <4>6 DEF shape
        <5> QED
          BY <2>7, <3>5, <4>1, <4>3, <4>6, <5>1, <5>2
      <4>7. CASE p = t
        <5>1. table[p][i] = linked(runtime_promised[i])
          <6>1. CASE user_table = Null
            <7>1. runtime_promised[i] = Null
              BY <6>1 DEF IInv, Stages, NoPromise
            <7> QED
              BY <2>3, <2>7, <2>9, <2>10, <3>1, <3>2, <3>5, <4>2, <4>3, <4>7, <6>1, <7>1 DEF shape, apart
          <6>2. CASE user_table # Null
            <7>1. t = user_table /\ user_directory # t
              BY <2>4, <6>2 DEF IInv, TablesApart, apart
            <7> QED
              BY <2>7, <3>1, <3>5, <4>7, <7>1 DEF shape
          <6> QED
            BY <6>1, <6>2
        <5>2. shape(p, i)' = linked(runtime_promised'[i])
          BY <2>1, <2>7, <3>5, <4>3, <4>7 DEF shape
        <5> QED
          BY <2>7, <3>2, <3>5, <4>1, <4>3, <4>4, <4>7, <5>1, <5>2
      <4>8. CASE p # 2 /\ p # d /\ p # t
        BY <2>1, <2>4, <2>8, <2>9, <3>1, <3>5, <4>1, <4>3, <4>8 DEF shape
      <4> QED
        BY <4>5, <4>6, <4>7, <4>8
    <3> QED
      BY <2>4, <3>3, <3>4, <3>5
  <2>24. Shape'
    BY <2>23 DEF Shape
  <2> QED
    BY <2>11, <2>12, <2>13, <2>14, <2>16, <2>22, <2>24 DEF IInv
<1> QED
  BY <1>2, <1>3, <1>4

-----------------------------------------------------------------------------
(***************************************************************************)
(* map_in_space: a page that is in use nowhere is put in the address space. *)
(***************************************************************************)
LEMMA SpaceIInv ==
    ASSUME IInv, pc \in {"code", "stack"}, NEW index \in Indices, NEW page \in Made, unused(page),
           map_in_space(index, page), pc' \in {"stack", "running"}, prepared' \in BOOLEAN,
           pc' = "stack" => pc = "code" /\ page = code_page,
           UNCHANGED <<supply, cr3, ready, runtime, code_page, stack_page>>
    PROVE  IInv'
<1> DEFINE d == directory_after(dir2, 0)
           t == table_after(dir2, tab2, 0)
<1>1. /\ user_address_space_ready /\ ready /\ accepted(index) /\ given >= 3
      /\ dir2 \in MadeOrNull /\ tab2 \in MadeOrNull /\ pml4 \in Made /\ pdpt2 \in Made
      /\ dir2 = Null => tab2 = Null
  BY DEF IInv, Order, Stages, MadeOrNull, accepted
<1>2. /\ take(0 + missing(dir2) + missing(tab2))
      /\ table_pages' = table_pages + counted(dir2, tab2, d, t)
      /\ map_page(pdpt2, dir2, tab2, index, page, 0)
  BY <1>1 DEF map_in_space, map_page, pdpt2, dir2, tab2
<1>3. dir2' = d /\ tab2' = t /\ pml4' = pml4 /\ pdpt2' = pdpt2
  BY DEF map_in_space, pml4, pdpt2, dir2, tab2, IInv, TypeOK
<1>4. space_promised' = IF t # Null THEN [space_promised EXCEPT ![index] = page] ELSE space_promised
  BY <1>1 DEF map_in_space, maps, dir2, tab2
<1>5. UNCHANGED user_address_space_ready
  BY DEF map_in_space
<1>6. UNCHANGED <<supply, cr3, ready, runtime_pdpt, user_directory, user_table, next_user_page,
                  runtime_promised, code_page, stack_page>>
  BY DEF runtime
<1>7. d = directory_after(dir2, 0) /\ t = table_after(dir2, tab2, 0)
  OBVIOUS
<1>8. /\ given' \in Nat /\ given <= given' /\ given' <= supply
      /\ dir2 # Null => d = dir2
      /\ dir2 = Null => d = Null \/ (d \in Nat /\ given < d /\ d <= given')
      /\ tab2 # Null => t = tab2
      /\ tab2 = Null => t = Null \/ (t \in Nat /\ given < t /\ t <= given' /\ t # d)
      /\ d = Null => t = Null
      /\ counted(dir2, tab2, d, t) = (one(d) + one(t)) - (one(dir2) + one(tab2))
      /\ one(d) + one(t) <= one(dir2) + one(tab2) + (given' - given)
      /\ one(dir2) + one(tab2) <= one(d) + one(t)
  <2>1. given + 0 = given
    BY Basics DEF IInv
  <2> QED
    BY <1>1, <1>2, <2>1, NewTables DEF IInv
<1> HIDE DEF d, t
<1>9. /\ given \in Nat /\ supply \in Nat /\ supply <= MaxSupply /\ MaxSupply \in Nat
      /\ Null \notin Nat /\ Pages \subseteq Nat /\ 1 \in Indices /\ 0 \in Indices
      /\ Made = 4..given /\ Made' = 4..given' /\ Pages = 1..MaxSupply
  BY Basics, SupplyAssumption DEF IInv, Made, Pages
<1>10. /\ d \in MadeOrNull' /\ t \in MadeOrNull' /\ MadeOrNull \subseteq MadeOrNull'
       /\ Made \subseteq Made' /\ page \in Made' /\ page \in Pages /\ pdpt2 \in Pages
       /\ pdpt2 \notin {1, 2, 3} /\ pdpt2 # Null /\ page # Null
  <2>1. \A x \in Made : x \in Made' /\ x \in Pages /\ x \notin {1, 2, 3} /\ x # Null
    <3>1. given <= MaxSupply
      BY <1>8, <1>9
    <3> QED
      BY <1>8, <1>9, <3>1
  <2>2. d \in MadeOrNull' /\ t \in MadeOrNull'
    BY <1>1, <1>8, <1>9, <2>1 DEF MadeOrNull
  <2>3. MadeOrNull \subseteq MadeOrNull'
    BY <2>1 DEF MadeOrNull
  <2> QED
    BY <1>1, <2>1, <2>2, <2>3
<1>11. /\ d # Null => d \in Pages /\ d # 1 /\ d # 2 /\ d # 3
       /\ t # Null => t \in Pages /\ t # 1 /\ t # 2 /\ t # 3
       /\ 2 \in Pages /\ 1 \in Pages /\ 3 \in Pages
  <2>1. given' <= MaxSupply /\ given' \in Nat /\ given <= MaxSupply
    BY <1>8, <1>9
  <2>2. \A x \in 4..given' : x \in Pages /\ x # 1 /\ x # 2 /\ x # 3
    BY <1>9, <2>1
  <2>3. 2 \in Pages /\ 1 \in Pages /\ 3 \in Pages
    BY <1>1, <1>9, <2>1
  <2> QED
    BY <1>9, <1>10, <2>2, <2>3 DEF MadeOrNull
<1>12. {user_directory, user_table, pml4, pdpt2} \subseteq MadeOrNull
  BY DEF IInv, Stages
<1>13. /\ \A x \in {user_directory, user_table, pml4, pdpt2} : apart(d, x) /\ apart(t, x)
       /\ apart(d, t)
  <2>1. \A x \in MadeOrNull : dir2 = Null => apart(d, x)
    BY <1>8, <1>9 DEF MadeOrNull, apart
  <2>2. \A x \in MadeOrNull : tab2 = Null => apart(t, x)
    BY <1>8, <1>9 DEF MadeOrNull, apart
  <2>3. dir2 # Null => \A x \in {user_directory, user_table, pml4, pdpt2} : apart(d, x)
    BY <1>8 DEF IInv, TablesApart, apart
  <2>4. tab2 # Null => \A x \in {user_directory, user_table, pml4, pdpt2} : apart(t, x)
    BY <1>8 DEF IInv, TablesApart, apart
  <2>5. apart(d, t)
    BY <1>1, <1>8 DEF IInv, TablesApart, apart
  <2> QED
    BY <1>12, <2>1, <2>2, <2>3, <2>4, <2>5
<1>14. TablesApart'
  BY <1>3, <1>6, <1>13 DEF IInv, TablesApart, apart
<1>15. Count'
  <2>1. /\ one(d) \in {0, 1} /\ one(t) \in {0, 1} /\ one(user_directory) \in {0, 1}
        /\ one(user_table) \in {0, 1} /\ one(pml4) \in {0, 1} /\ one(pdpt2) \in {0, 1}
        /\ one(dir2) \in {0, 1} /\ one(tab2) \in {0, 1}
    BY DEF one
  <2>2. table_pages = 3 + one(user_directory) + one(user_table) + one(pml4) + one(pdpt2)
                        + one(dir2) + one(tab2)
    BY <1>1 DEF IInv, Count
  <2>3. table_pages' = 3 + one(user_directory) + one(user_table) + one(pml4) + one(pdpt2)
                         + one(d) + one(t)
    BY <1>2, <1>8, <2>1, <2>2
  <2> QED
    BY <1>3, <1>6, <2>3 DEF Count
<1>16. Stages'
  <2>1. {user_directory', user_table', pml4', pdpt2', dir2', tab2'} \subseteq MadeOrNull'
    BY <1>3, <1>6, <1>10, <1>12
  <2>2. tab2' = Null => space_promised' = NoPromise
    BY <1>3, <1>4, <1>8 DEF IInv, Stages
  <2>3. given' >= 3
    BY <1>1, <1>8, <1>9
  <2> QED
    BY <1>1, <1>3, <1>5, <1>6, <1>8, <2>1, <2>2, <2>3 DEF IInv, Stages
<1>17. table' \in [Pages -> [Indices -> Entries]] /\ written(pdpt2, d, t, index, page)
  <2>1. /\ d # Null => d \in Pages \ {pdpt2}
        /\ t # Null => t \in Pages \ {pdpt2, d}
    BY <1>11, <1>13 DEF apart
  <2> QED
    BY <1>1, <1>2, <1>7, <1>8, <1>10, <2>1, MapEntries DEF IInv
<1>18. TypeOK'
  <2>1. table_pages' \in 0..given'
    <3>1. one(d) \in {0, 1} /\ one(t) \in {0, 1} /\ one(dir2) \in {0, 1} /\ one(tab2) \in {0, 1}
      BY DEF one
    <3>2. table_pages \in 0..given
      BY DEF IInv, TypeOK
    <3> QED
      BY <1>2, <1>8, <1>9, <3>1, <3>2
  <2>2. user_address_space' \in [{"pml4", "pdpt", "user_directory", "user_table"} -> Refs]
    <3>1. user_address_space' = [user_address_space EXCEPT !.user_directory = d, !.user_table = t]
      BY <1>7 DEF map_in_space, dir2, tab2
    <3>2. d \in Refs /\ t \in Refs
      BY <1>11 DEF Refs
    <3> QED
      BY <3>1, <3>2 DEF IInv, TypeOK
  <2>3. given' \in 0..supply' /\ supply' \in 0..MaxSupply
    BY <1>6, <1>8, <1>9
  <2> QED
    BY <1>5, <1>6, <1>17, <2>1, <2>2, <2>3 DEF IInv, TypeOK
<1>19. /\ runtime_promised \in [Indices -> MadeOrNull]
       /\ space_promised \in [Indices -> MadeOrNull]
  BY DEF IInv, Promises
<1>20. runtime_promised' \in [Indices -> MadeOrNull'] /\ space_promised' \in [Indices -> MadeOrNull']
  BY <1>4, <1>6, <1>10, <1>19 DEF MadeOrNull
<1>21. \A i \in Indices :
          space_promised'[i] = space_promised[i] \/ (i = index /\ space_promised'[i] = page)
  BY <1>4, <1>19
<1>22. \A x \in MadeOrNull : x # Null /\ ~is_table(x) => x # d /\ x # t
  BY <1>8, <1>9 DEF MadeOrNull, is_table
<1>23. ~is_table(page) /\ \A i \in Indices : runtime_promised[i] # page /\ space_promised[i] # page
  BY DEF unused
<1>24. Order'
  <2>1. pc' = "stack" => \A i \in Indices : space_promised'[i] # Null => space_promised'[i] = code_page'
    BY <1>6, <1>21 DEF IInv, Order, NoPromise
  <2> QED
    BY <1>1, <1>5, <2>1 DEF Order
<1>25. Promises'
  <2>1. \A i \in Indices : (runtime_promised[i] # Null => ~is_table(runtime_promised[i]))'
    <3> SUFFICES ASSUME NEW i \in Indices, runtime_promised[i] # Null
                 PROVE  (~is_table(runtime_promised[i]))'
      BY <1>6
    <3> DEFINE x == runtime_promised[i]
    <3>1. x \in MadeOrNull /\ x # Null /\ ~is_table(x)
      BY <1>19 DEF IInv, Promises
    <3> HIDE DEF x
    <3>2. x # d /\ x # t
      BY <1>22, <3>1
    <3> QED
      BY <1>3, <1>6, <3>1, <3>2 DEF is_table, x
  <2>2. \A i \in Indices : (space_promised[i] # Null => ~is_table(space_promised[i]))'
    <3> SUFFICES ASSUME NEW i \in Indices, space_promised'[i] # Null
                 PROVE  (~is_table(space_promised[i]))'
      OBVIOUS
    <3> DEFINE x == space_promised'[i]
    <3>1. x \in MadeOrNull /\ x # Null /\ ~is_table(x)
      BY <1>10, <1>19, <1>21, <1>23 DEF IInv, Promises, MadeOrNull
    <3> HIDE DEF x
    <3>2. x # d /\ x # t
      BY <1>22, <3>1
    <3> QED
      BY <1>3, <1>6, <3>1, <3>2 DEF is_table, x
  <2>3. \A i, j \in Indices : apart(runtime_promised[i], space_promised[j])'
    BY <1>6, <1>21, <1>23 DEF IInv, Promises, apart
  <2>4. \A i, j \in Indices : i # j => /\ apart(runtime_promised[i], runtime_promised[j])'
                                       /\ apart(space_promised[i], space_promised[j])'
    BY <1>6, <1>21, <1>23 DEF IInv, Promises, apart
  <2>5. \A i \in Indices : i >= next_user_page' => runtime_promised'[i] = Null
    BY <1>6 DEF IInv, Promises
  <2>6. pc' = "stack" => stack_page' \in Made' /\ unused(stack_page)' /\ code_page' # stack_page'
    <3> SUFFICES ASSUME pc' = "stack"
                 PROVE  stack_page' \in Made' /\ unused(stack_page)' /\ code_page' # stack_page'
      OBVIOUS
    <3>1. stack_page \in Made /\ unused(stack_page) /\ code_page # stack_page /\ page = code_page
      BY DEF IInv, Promises
    <3>2. stack_page \in MadeOrNull /\ stack_page # Null /\ ~is_table(stack_page)
      BY <1>9, <3>1 DEF MadeOrNull, unused
    <3>3. stack_page # d /\ stack_page # t
      BY <1>22, <3>2
    <3>4. (~is_table(stack_page))'
      BY <1>3, <1>6, <3>2, <3>3 DEF is_table
    <3>5. \A i \in Indices : runtime_promised'[i] # stack_page' /\ space_promised'[i] # stack_page'
      BY <1>6, <1>21, <3>1 DEF unused
    <3> QED
      BY <1>6, <1>10, <3>1, <3>4, <3>5 DEF unused
  <2> QED
    BY <1>20, <2>1, <2>2, <2>3, <2>4, <2>5, <2>6 DEF Promises
<1>26. ASSUME NEW p \in Pages, NEW i \in Indices PROVE table'[p][i] = shape(p, i)'
  <2>1. table[p][i] = shape(p, i)
    BY <1>1 DEF IInv, Shape
  <2>2. /\ linked(d) = IF d = Null THEN Null ELSE user_link(d)
        /\ linked(t) = IF t = Null THEN Null ELSE user_link(t)
        /\ linked(page) = user_link(page) /\ linked(Null) = Null
    BY <1>10 DEF linked
  <2>3. p # Null /\ pdpt2 # pml4 /\ pdpt2 # user_directory /\ pdpt2 # user_table
    BY <1>9, <1>10 DEF IInv, TablesApart, apart
  <2>4. CASE d = Null
    <3>1. dir2 = Null /\ tab2 = Null /\ t = Null /\ space_promised' = space_promised
      BY <1>1, <1>4, <1>8, <2>4
    <3>2. dir2' = dir2 /\ tab2' = tab2
      BY <1>3, <2>4, <3>1
    <3>3. shape(p, i)' = shape(p, i)
      BY <1>3, <1>6, <3>1, <3>2 DEF shape
    <3>4. table'[p][i] = table[p][i]
      BY <1>17, <2>4, <3>1, Zenon DEF written
    <3> QED
      BY <2>1, <3>3, <3>4
  <2>5. CASE d # Null /\ t = Null
    <3>1. table'[p][i] = IF p = pdpt2 /\ i = 1 THEN user_link(d) ELSE table[p][i]
      BY <1>17, <2>5, Zenon DEF written
    <3>2. tab2 = Null /\ space_promised' = space_promised
      BY <1>4, <1>8, <2>5
    <3>3. CASE p = pdpt2
      BY <1>3, <1>6, <1>10, <2>1, <2>2, <2>3, <2>5, <3>1, <3>3 DEF shape
    <3>4. CASE p = d
      <4>1. p # user_directory /\ p # user_table /\ p # pml4 /\ p # pdpt2 /\ p # tab2
        BY <1>13, <2>3, <3>2, <3>4 DEF apart
      <4>2. shape(p, i) = Null
        BY <1>11, <2>2, <2>5, <3>2, <3>4, <4>1 DEF shape
      <4>3. shape(p, i)' = Null
        BY <1>3, <1>6, <1>11, <2>2, <2>5, <3>4, <4>1 DEF shape
      <4> QED
        BY <2>1, <3>1, <4>1, <4>2, <4>3
    <3>5. CASE p # pdpt2 /\ p # d
      <4>1. p # dir2 \/ dir2 = Null
        BY <1>8, <3>5
      <4> QED
        BY <1>3, <1>6, <2>1, <2>3, <2>5, <3>1, <3>2, <3>5, <4>1 DEF shape
    <3> QED
      BY <3>3, <3>4, <3>5
  <2>6. CASE d # Null /\ t # Null
    <3>1. table'[p][i] = IF p = pdpt2 /\ i = 1 THEN user_link(d)
                         ELSE IF p = d /\ i = 0 THEN user_link(t)
                         ELSE IF p = t /\ i = index THEN user_link(page)
                         ELSE table[p][i]
      BY <1>17, <2>6, Zenon DEF written
    <3>2. space_promised'[i] = IF i = index THEN page ELSE space_promised[i]
      BY <1>4, <1>19, <2>6
    <3>3. d # t
      BY <1>13, <2>6 DEF apart
    <3>4. CASE p = pdpt2
      <4>1. p # d /\ p # t
        BY <1>13, <2>3, <2>6, <3>4 DEF apart
      <4> QED
        BY <1>3, <1>6, <1>10, <2>1, <2>2, <2>3, <2>6, <3>1, <3>4, <4>1 DEF shape
    <3>5. CASE p = d
      <4>1. p # user_directory /\ p # user_table /\ p # pml4 /\ p # pdpt2 /\ p # t
        BY <1>13, <2>3, <3>3, <3>5 DEF apart
      <4>2. p # tab2 \/ tab2 = Null
        BY <1>8, <4>1
      <4>3. i # 0 => shape(p, i) = Null
        <5>1. CASE p = dir2
          BY <1>11, <2>6, <3>5, <4>1, <5>1 DEF shape
        <5>2. CASE p # dir2
          BY <1>11, <2>3, <2>6, <3>5, <4>1, <4>2, <5>2 DEF shape
        <5> QED
          BY <5>1, <5>2
      <4>4. shape(p, i)' = IF i = 0 THEN user_link(t) ELSE Null
        BY <1>3, <1>6, <1>11, <2>2, <2>6, <3>5, <4>1 DEF shape
      <4> QED
        BY <2>1, <3>1, <3>5, <4>1, <4>3, <4>4
    <3>6. CASE p = t
      <4>1. p # user_directory /\ p # user_table /\ p # pml4 /\ p # pdpt2 /\ p # d
        BY <1>13, <2>3, <3>3, <3>6 DEF apart
      <4>2. shape(p, i) = linked(space_promised[i])
        <5>1. CASE tab2 = Null
          <6>1. space_promised[i] = Null
            BY <5>1 DEF IInv, Stages, NoPromise
          <6>2. p # dir2
            BY <1>8, <2>3, <4>1
          <6> QED
            BY <1>11, <2>2, <2>3, <2>6, <3>6, <4>1, <5>1, <6>1, <6>2 DEF shape
        <5>2. CASE tab2 # Null
          <6>1. p = tab2 /\ p # dir2
            BY <1>8, <2>3, <3>6, <4>1, <5>2
          <6> QED
            BY <1>11, <2>6, <3>6, <4>1, <6>1 DEF shape
        <5> QED
          BY <5>1, <5>2
      <4>3. shape(p, i)' = linked(space_promised'[i])
        BY <1>3, <1>6, <1>11, <2>6, <3>6, <4>1 DEF shape
      <4> QED
        BY <2>1, <2>2, <3>1, <3>2, <3>6, <4>1, <4>2, <4>3
    <3>7. CASE p # pdpt2 /\ p # d /\ p # t
      <4>1. (p # dir2 \/ dir2 = Null) /\ (p # tab2 \/ tab2 = Null)
        BY <1>8, <3>7
      <4> QED
        BY <1>3, <1>6, <2>1, <2>3, <3>1, <3>7, <4>1 DEF shape
    <3> QED
      BY <3>4, <3>5, <3>6, <3>7
  <2> QED
    BY <1>8, <2>4, <2>5, <2>6
<1>27. Shape'
  BY <1>26 DEF Shape
<1> QED
  BY <1>14, <1>15, <1>16, <1>18, <1>24, <1>25, <1>27 DEF IInv

LEMMA PrepareIInv == IInv /\ (PrepareCode \/ PrepareStack) => IInv'
<1>1. IInv /\ PrepareCode => IInv'
  <2> SUFFICES ASSUME IInv, PrepareCode PROVE IInv'
    OBVIOUS
  <2>1. /\ pc = "code" /\ map_in_space(0, code_page) /\ pc' \in {"stack", "running"}
        /\ UNCHANGED <<supply, cr3, ready, runtime, code_page, stack_page, prepared>>
    BY DEF PrepareCode, process
  <2>2. code_page \in Made /\ unused(code_page) /\ 0 \in Indices /\ prepared' \in BOOLEAN
    BY <2>1, Basics DEF IInv, Promises, TypeOK
  <2> QED
    BY <2>1, <2>2, SpaceIInv
<1>2. IInv /\ PrepareStack => IInv'
  <2> SUFFICES ASSUME IInv, PrepareStack PROVE IInv'
    OBVIOUS
  <2>1. /\ pc = "stack" /\ map_in_space(WindowPages - 1, stack_page) /\ pc' = "running"
        /\ prepared' \in BOOLEAN /\ UNCHANGED <<supply, cr3, ready, runtime, code_page, stack_page>>
    BY DEF PrepareStack
  <2>2. stack_page \in Made /\ unused(stack_page) /\ WindowPages - 1 \in Indices
    BY <2>1, Basics DEF IInv, Promises
  <2> QED
    BY <2>1, <2>2, SpaceIInv
<1> QED
  BY <1>1, <1>2

-----------------------------------------------------------------------------
(***************************************************************************)
(* paging_create_address_space.                                            *)
(***************************************************************************)
LEMMA CreateIInv ==
    ASSUME IInv, paging_create_address_space, pc \in {"create", "prepare"},
           pc' \in {"switch", "image"},
           UNCHANGED <<supply, cr3, ready, runtime, space_promised, process>>
    PROVE  IInv'
<1>1. UNCHANGED <<supply, cr3, ready, runtime_pdpt, user_directory, user_table, next_user_page,
                  runtime_promised, space_promised, code_page, stack_page, prepared>>
  BY DEF runtime, process
<1>2. CASE UNCHANGED <<table, user_address_space, table_pages, user_address_space_ready>>
  <2>1. given' \in Nat /\ given <= given' /\ given' <= supply
    BY TakeType, Basics DEF paging_create_address_space, IInv
  <2>2. Made \subseteq Made' /\ MadeOrNull \subseteq MadeOrNull'
    BY <2>1, Basics DEF IInv, Made, MadeOrNull
  <2>3. UNCHANGED <<pml4, pdpt2, dir2, tab2>>
    BY <1>2 DEF pml4, pdpt2, dir2, tab2
  <2>4. TypeOK'
    BY <1>1, <1>2, <2>1, Basics DEF IInv, TypeOK
  <2>5. \A p, i : shape(p, i)' = shape(p, i)
    BY <1>1, <2>3 DEF shape
  <2>6. Shape'
    BY <1>1, <1>2, <2>5 DEF IInv, Shape
  <2>7. TablesApart' /\ Count'
    BY <1>1, <1>2, <2>3 DEF IInv, TablesApart, Count
  <2>8. Stages'
    <3>1. ready => given' >= 3
      BY <2>1, Basics DEF IInv, Stages
    <3>2. {user_directory', user_table', pml4', pdpt2', dir2', tab2'} \subseteq MadeOrNull'
      BY <1>1, <2>2, <2>3 DEF IInv, Stages
    <3> QED
      BY <1>1, <1>2, <2>3, <3>1, <3>2 DEF IInv, Stages
  <2>9. Order'
    BY DEF IInv, Order
  <2>10. Promises'
    BY <1>1, <2>2, <2>3 DEF IInv, Promises, is_table, apart
  <2> QED
    BY <2>4, <2>6, <2>7, <2>8, <2>9, <2>10 DEF IInv
<1>3. CASE ready /\ ~user_address_space_ready /\ got(2)
  <2> DEFINE root == given + 1
             second == given + 2
  <2>1. /\ take(2) /\ user_address_space_ready'
        /\ table' = share(root, second)
        /\ user_address_space' = [user_address_space EXCEPT !.pml4 = root, !.pdpt = second]
        /\ table_pages' = table_pages + 2
    BY <1>3 DEF paging_create_address_space
  <2>2. /\ given \in Nat /\ given >= 3 /\ given' = given + 2 /\ given + 2 <= supply /\ supply <= MaxSupply
        /\ supply \in Nat /\ MaxSupply \in Nat /\ Pages = 1..MaxSupply /\ Null \notin Nat
        /\ Made = 4..given /\ Made' = 4..given' /\ 0 \in Indices /\ 1 \in Indices
    BY <1>3, <2>1, Basics, SupplyAssumption DEF IInv, Stages, take, got, Made, Pages
  <2>3. /\ pml4' = root /\ pdpt2' = second /\ dir2' = dir2 /\ tab2' = tab2
        /\ pml4 = Null /\ pdpt2 = Null /\ dir2 = Null /\ tab2 = Null
        /\ space_promised = NoPromise /\ runtime_pdpt = 2
    BY <1>3, <2>1 DEF pml4, pdpt2, dir2, tab2, IInv, TypeOK, Stages
  <2>4. /\ root \in Pages /\ second \in Pages /\ root # second /\ root # Null /\ second # Null
        /\ root \in Made' /\ second \in Made' /\ 2 \in Pages /\ 3 \in Pages
        /\ MadeOrNull \subseteq MadeOrNull' /\ root \notin MadeOrNull /\ second \notin MadeOrNull
        /\ root \notin {1, 2, 3} /\ second \notin {1, 2, 3}
    BY <2>2 DEF MadeOrNull
  <2> HIDE DEF root, second
  <2>5. user_directory \in MadeOrNull /\ user_table \in MadeOrNull
    BY DEF IInv, Stages
  <2>6. TablesApart'
    BY <1>1, <2>3, <2>4, <2>5 DEF IInv, TablesApart, apart
  <2>7. Count'
    <3>1. one(root) = 1 /\ one(second) = 1 /\ one(Null) = 0
      BY <2>4 DEF one
    <3>2. one(user_directory) \in {0, 1} /\ one(user_table) \in {0, 1}
      BY DEF one
    <3>3. table_pages = 3 + one(user_directory) + one(user_table) + 0 + 0 + 0 + 0
      BY <1>3, <2>3, <3>1 DEF IInv, Count
    <3>4. table_pages' = 3 + one(user_directory) + one(user_table) + 1 + 1 + 0 + 0
      BY <2>1, <3>2, <3>3
    <3> QED
      BY <1>1, <2>3, <3>1, <3>4 DEF Count
  <2>8. Stages'
    <3>1. {user_directory', user_table', pml4', pdpt2', dir2', tab2'} \subseteq MadeOrNull'
      BY <1>1, <2>3, <2>4, <2>5 DEF MadeOrNull
    <3>2. given' >= 3
      BY <2>2
    <3>3. cr3' \in {Null, 1}
      BY <1>1, <1>3, <2>3 DEF IInv, Stages
    <3> QED
      BY <1>1, <1>3, <2>1, <2>3, <2>4, <3>1, <3>2, <3>3 DEF IInv, Stages
  <2>9. Order'
    BY DEF IInv, Order
  <2>10. Promises'
    <3>1. /\ runtime_promised \in [Indices -> MadeOrNull]
          /\ space_promised \in [Indices -> MadeOrNull]
      BY DEF IInv, Promises
    <3>2. runtime_promised' \in [Indices -> MadeOrNull'] /\ space_promised' \in [Indices -> MadeOrNull']
      BY <1>1, <2>4, <3>1
    <3>3. \A i \in Indices : (runtime_promised[i] # Null => ~is_table(runtime_promised[i]))'
      <4> SUFFICES ASSUME NEW i \in Indices, runtime_promised[i] # Null
                   PROVE  (~is_table(runtime_promised[i]))'
        BY <1>1
      <4> DEFINE x == runtime_promised[i]
      <4>1. x \in MadeOrNull /\ x # Null /\ ~is_table(x)
        BY <3>1 DEF IInv, Promises
      <4> HIDE DEF x
      <4> QED
        BY <1>1, <2>3, <2>4, <4>1 DEF is_table, x
    <3>4. \A i \in Indices : (space_promised[i] # Null => ~is_table(space_promised[i]))'
      BY <1>1, <2>3 DEF NoPromise
    <3> QED
      BY <1>1, <3>2, <3>3, <3>4 DEF IInv, Promises, apart
  <2>11. /\ table' \in [Pages -> [Indices -> Entries]]
         /\ \A p \in Pages, i \in Indices :
               table'[p][i] = IF p = root /\ i = 0 THEN link(second)
                              ELSE IF p = second /\ i = 0 THEN link(3)
                              ELSE table[p][i]
    <3>1. table[2][0] = link(3)
      BY <1>3, <2>2, <2>4 DEF IInv, Shape, shape
    <3>2. link(second) \in Entries /\ link(3) \in Entries
      BY <2>4, LinkType
    <3>3. table \in [Pages -> [Indices -> Entries]]
      BY DEF IInv, TypeOK
    <3>4. table' = [table EXCEPT ![root][0] = link(second), ![second][0] = link(3)]
      BY <2>1, <2>3, <3>1 DEF share
    <3> QED
      BY <2>2, <2>4, <3>2, <3>3, <3>4
  <2>12. TypeOK'
    <3>1. table_pages' \in 0..given' /\ given' \in 0..supply /\ supply \in 0..MaxSupply
      BY <2>1, <2>2 DEF IInv, TypeOK
    <3>2. user_address_space' \in [{"pml4", "pdpt", "user_directory", "user_table"} -> Refs]
      BY <2>1, <2>4 DEF IInv, TypeOK, Refs
    <3> QED
      BY <1>1, <2>1, <2>11, <3>1, <3>2 DEF IInv, TypeOK
  <2>13. ASSUME NEW p \in Pages, NEW i \in Indices PROVE table'[p][i] = shape(p, i)'
    <3>1. table[p][i] = shape(p, i)
      BY <1>3 DEF IInv, Shape
    <3>2. p # Null /\ linked(Null) = Null
      BY <2>2 DEF linked
    <3>3. user_directory # root /\ user_table # root /\ user_directory # second /\ user_table # second
      BY <2>4, <2>5
    <3>4. CASE p = root
      <4>1. shape(p, i) = Null
        BY <2>3, <2>4, <3>2, <3>3, <3>4 DEF shape
      <4>2. shape(p, i)' = IF i = 0 THEN link(second) ELSE Null
        BY <1>1, <2>3, <2>4, <3>3, <3>4 DEF shape
      <4> QED
        BY <2>4, <2>11, <3>1, <3>4, <4>1, <4>2
    <3>5. CASE p = second
      <4>1. shape(p, i) = Null
        BY <2>3, <2>4, <3>2, <3>3, <3>5 DEF shape
      <4>2. shape(p, i)' = IF i = 0 THEN link(3) ELSE Null
        BY <1>1, <2>3, <2>4, <3>2, <3>3, <3>5 DEF shape
      <4> QED
        BY <2>4, <2>11, <3>1, <3>5, <4>1, <4>2
    <3>6. CASE p # root /\ p # second
      <4>1. shape(p, i)' = shape(p, i)
        BY <1>1, <2>3, <3>2, <3>6 DEF shape
      <4> QED
        BY <2>11, <3>1, <3>6, <4>1
    <3> QED
      BY <3>4, <3>5, <3>6
  <2>14. Shape'
    BY <2>13 DEF Shape
  <2> QED
    BY <2>6, <2>7, <2>8, <2>9, <2>10, <2>12, <2>14 DEF IInv
<1>4. CASE ready /\ ~user_address_space_ready /\ ~got(2)
  <2>1. user_address_space_ready \in BOOLEAN /\ ~user_address_space_ready'
    BY <1>4, Zenon DEF paging_create_address_space, IInv, TypeOK
  <2>2. UNCHANGED <<table, user_address_space, table_pages>> /\ user_address_space_ready' \in BOOLEAN
    BY <1>4 DEF paging_create_address_space, got
  <2>3. user_address_space_ready' = user_address_space_ready
    BY <1>4, <2>1, <2>2
  <2> QED
    BY <1>2, <2>2, <2>3
<1>5. CASE ~(ready /\ ~user_address_space_ready)
  BY <1>2, <1>5 DEF paging_create_address_space
<1> QED
  BY <1>3, <1>4, <1>5

-----------------------------------------------------------------------------
(***************************************************************************)
(* The other steps.                                                        *)
(***************************************************************************)
LEMMA PagingInitIInv == IInv /\ paging_init => IInv'
<1> SUFFICES ASSUME IInv, paging_init PROVE IInv'
  OBVIOUS
<1>1. /\ pc = "init" /\ pc' = "create" /\ given = 0 /\ ~ready /\ table_pages = 0
      /\ table = [p \in Pages |-> [i \in Indices |-> Null]]
      /\ cr3 = Null /\ user_directory = Null /\ ~user_address_space_ready
  BY DEF paging_init, IInv, Order, Stages
<1>2. UNCHANGED <<supply, user_directory, user_table, next_user_page, runtime_promised,
                  user_address_space, user_address_space_ready, space_promised, code_page, stack_page,
                  prepared, pml4, pdpt2, dir2, tab2>>
  BY DEF paging_init, space, process, pml4, pdpt2, dir2, tab2
<1>3. /\ user_table = Null /\ pml4 = Null /\ pdpt2 = Null /\ dir2 = Null /\ tab2 = Null
      /\ runtime_promised = NoPromise /\ space_promised = NoPromise
  BY <1>1 DEF IInv, Stages
<1>4. /\ supply \in Nat /\ MaxSupply \in Nat /\ supply <= MaxSupply /\ Pages = 1..MaxSupply
      /\ Null \notin Nat /\ 0 \in Indices /\ 1 \in Indices
      /\ Null \in Entries /\ \A p \in Pages \cup {Identity} : link(p) \in Entries
  BY Basics, SupplyAssumption, LinkType DEF IInv, Pages
<1>5. /\ got(3) <=> 3 <= supply
      /\ got(2) <=> 2 <= supply
      /\ given' = IF 3 <= supply THEN 3 ELSE supply
  BY <1>1, <1>4 DEF got, take, paging_init
<1>6. Order'
  BY <1>1, <1>2, <1>3 DEF Order
<1>7. Promises'
  <2>1. NoPromise \in [Indices -> MadeOrNull']
    BY DEF NoPromise, MadeOrNull
  <2> QED
    BY <1>1, <1>2, <1>3, <2>1 DEF Promises, NoPromise, apart
<1>8. TablesApart'
  BY <1>1, <1>2, <1>3 DEF TablesApart, apart
<1>9. CASE 3 <= supply
  <2>1. /\ ready' /\ cr3' = 1 /\ runtime_pdpt' = 2 /\ table_pages' = 3 /\ given' = 3
        /\ table' = [table EXCEPT ![1][0] = link(2), ![2][0] = link(3),
                                  ![3] = [i \in Indices |-> link(Identity)]]
    <3>1. given + 1 = 1 /\ given + 2 = 2 /\ given + 3 = 3
      BY <1>1
    <3>2. got(3) /\ got(2)
      BY <1>4, <1>5, <1>9
    <3>3. /\ ready' /\ cr3' = given + 1 /\ runtime_pdpt' = given + 2 /\ table_pages' = 3
          /\ table' = [table EXCEPT ![given + 1][0] = link(given + 2), ![given + 2][0] = link(given + 3),
                                    ![given + 3] = [i \in Indices |-> link(Identity)]]
      BY <3>2, Zenon DEF paging_init
    <3>4. given' = 3
      BY <1>5, <1>9
    <3> QED
      BY <3>1, <3>3, <3>4, Zenon
  <2>2. /\ 1 \in Pages /\ 2 \in Pages /\ 3 \in Pages
        /\ link(2) \in Entries /\ link(3) \in Entries /\ link(Identity) \in Entries
    <3>1. 1 \in Pages /\ 2 \in Pages /\ 3 \in Pages
      BY <1>4, <1>9
    <3> QED
      BY <1>4, <3>1, Zenon
  <2>3. /\ table' \in [Pages -> [Indices -> Entries]]
        /\ \A p \in Pages, i \in Indices :
              table'[p][i] = IF p = 1 /\ i = 0 THEN link(2)
                             ELSE IF p = 2 /\ i = 0 THEN link(3)
                             ELSE IF p = 3 THEN link(Identity) ELSE Null
    <3> DEFINE first == [table EXCEPT ![1][0] = link(2)]
               second == [first EXCEPT ![2][0] = link(3)]
    <3>1. /\ first \in [Pages -> [Indices -> Entries]]
          /\ \A p \in Pages, i \in Indices : first[p][i] = IF p = 1 /\ i = 0 THEN link(2) ELSE Null
      BY <1>1, <1>4, <2>2
    <3> HIDE DEF first
    <3>2. /\ second \in [Pages -> [Indices -> Entries]]
          /\ \A p \in Pages, i \in Indices :
                second[p][i] = IF p = 2 /\ i = 0 THEN link(3) ELSE first[p][i]
      BY <1>4, <2>2, <3>1
    <3>3. table' = [second EXCEPT ![3] = [i \in Indices |-> link(Identity)]]
      BY <2>1, Zenon DEF first
    <3> HIDE DEF second
    <3>4. /\ table' \in [Pages -> [Indices -> Entries]]
          /\ \A p \in Pages, i \in Indices :
                table'[p][i] = IF p = 3 THEN link(Identity) ELSE second[p][i]
      BY ONLY <2>2, <3>2, <3>3
    <3> QED
      BY ONLY <3>1, <3>2, <3>4
  <2>4. Shape'
    <3>1. ASSUME NEW p \in Pages, NEW i \in Indices PROVE table'[p][i] = shape(p, i)'
      <4>1. p # Null /\ linked(Null) = Null
        BY <1>4 DEF linked
      <4> QED
        BY <1>1, <1>2, <1>3, <2>3, <4>1 DEF shape
    <3> QED
      BY <3>1 DEF Shape
  <2>5. TypeOK'
    <3>1. /\ given' \in 0..supply' /\ supply' \in 0..MaxSupply /\ table_pages' \in 0..given'
          /\ ready' \in BOOLEAN
      <4>1. ready' \in BOOLEAN
        BY DEF paging_init, got
      <4> QED
        BY <1>2, <1>4, <1>9, <2>1, <4>1
    <3>2. cr3' \in Refs /\ runtime_pdpt' \in Refs
      BY <2>1, <2>2 DEF Refs
    <3> QED
      BY <1>1, <1>2, <2>3, <3>1, <3>2 DEF IInv, TypeOK
  <2>6. Stages'
    BY <1>1, <1>2, <1>3, <2>1 DEF Stages, MadeOrNull
  <2>7. Count'
    BY <1>1, <1>2, <1>3, <2>1 DEF Count, one
  <2> QED
    BY <1>6, <1>7, <1>8, <2>4, <2>5, <2>6, <2>7 DEF IInv
<1>10. CASE ~(3 <= supply)
  <2>1. /\ ~ready' /\ ready' \in BOOLEAN /\ cr3' = Null /\ runtime_pdpt' \in Refs /\ table_pages' \in 0..given'
        /\ given' = supply
        /\ 2 <= supply => table' = [table EXCEPT ![1][0] = link(2)]
        /\ ~(2 <= supply) => table' = table
    <3>1. 2 <= supply => 2 \in Refs
      BY <1>4 DEF Refs
    <3>2. ready' \in BOOLEAN
      BY DEF paging_init, got
    <3>3. /\ ~ready' /\ cr3' = Null /\ runtime_pdpt' = IF 2 <= supply THEN 2 ELSE Null
          /\ table_pages' = IF 2 <= supply THEN 2 ELSE 0
          /\ 2 <= supply => table' = [table EXCEPT ![1][0] = link(2)]
          /\ ~(2 <= supply) => table' = table
      BY <1>1, <1>5, <1>10 DEF paging_init
    <3> QED
      BY <1>4, <1>5, <1>10, <3>1, <3>2, <3>3 DEF Refs
  <2>2. table' \in [Pages -> [Indices -> Entries]]
    <3>1. table \in [Pages -> [Indices -> Entries]]
      BY DEF IInv, TypeOK
    <3>2. CASE 2 <= supply
      <4>1. 2 \in Pages
        BY <1>4, <3>2
      <4>2. link(2) \in Entries
        BY <1>4, <4>1, Zenon
      <4> QED
        BY <2>1, <3>1, <3>2, <4>2
    <3> QED
      BY <2>1, <3>1, <3>2
  <2>3. TypeOK'
    BY <1>1, <1>2, <1>4, <2>1, <2>2 DEF IInv, TypeOK, Refs
  <2>4. Stages'
    BY <1>1, <1>2, <1>3, <2>1 DEF Stages, MadeOrNull
  <2>5. Shape' /\ Count'
    BY <2>1 DEF Shape, Count
  <2> QED
    BY <1>6, <1>7, <1>8, <2>3, <2>4, <2>5 DEF IInv
<1> QED
  BY <1>9, <1>10

LEMMA SwitchIInv == IInv /\ Switch => IInv'
<1> SUFFICES ASSUME IInv, Switch PROVE IInv'
  OBVIOUS
<1>1. /\ pc = "switch" /\ pc' = "prepare"
      /\ cr3' = IF user_address_space_ready /\ ready THEN pml4 ELSE cr3
      /\ UNCHANGED <<supply, given, table, ready, table_pages, runtime_pdpt, user_directory,
                     user_table, next_user_page, runtime_promised, user_address_space,
                     user_address_space_ready, space_promised, code_page, stack_page, prepared>>
  BY DEF Switch, paging_switch_address_space, runtime, space, process, pml4
<1>2. UNCHANGED <<pml4, pdpt2, dir2, tab2, Made, MadeOrNull>>
  BY <1>1 DEF pml4, pdpt2, dir2, tab2, Made, MadeOrNull
<1>3. TypeOK'
  BY <1>1 DEF IInv, TypeOK, pml4
<1>4. Shape'
  <2>1. \A p, i : shape(p, i)' = shape(p, i)
    BY <1>1, <1>2 DEF shape
  <2> QED
    BY <1>1, <2>1 DEF IInv, Shape
<1>5. TablesApart' /\ Count' /\ Order' /\ Promises'
  BY <1>1, <1>2 DEF IInv, TablesApart, apart, Count, Order, Promises, is_table
<1>6. Stages'
  BY <1>1, <1>2 DEF IInv, Stages
<1> QED
  BY <1>3, <1>4, <1>5, <1>6 DEF IInv

LEMMA PrepareImageIInv == IInv /\ PrepareImage => IInv'
<1> SUFFICES ASSUME IInv, PrepareImage PROVE IInv'
  OBVIOUS
<1>1. /\ pc = "image" /\ take(2)
      /\ code_page' = IF got(1) THEN given + 1 ELSE Null
      /\ stack_page' = IF got(2) THEN given + 2 ELSE Null
      /\ pc' = IF image_ready THEN "code" ELSE "running"
      /\ UNCHANGED <<supply, table, cr3, ready, table_pages, runtime_pdpt, user_directory,
                     user_table, next_user_page, runtime_promised, user_address_space,
                     user_address_space_ready, space_promised, prepared>>
  BY DEF PrepareImage, runtime, space
<1>2. UNCHANGED <<pml4, pdpt2, dir2, tab2>>
  BY <1>1 DEF pml4, pdpt2, dir2, tab2
<1>3. /\ given' \in Nat /\ given <= given' /\ given' <= supply /\ (got(2) => given' = given + 2)
  BY <1>1, TakeType DEF IInv
<1>4. /\ given \in Nat /\ supply \in Nat /\ supply <= MaxSupply /\ MaxSupply \in Nat
      /\ Pages = 1..MaxSupply /\ Null \notin Nat /\ Made = 4..given /\ Made' = 4..given'
  BY Basics, SupplyAssumption DEF IInv, Made, Pages
<1>5. Made \subseteq Made' /\ MadeOrNull \subseteq MadeOrNull'
  BY <1>3, <1>4 DEF MadeOrNull
<1>6. TypeOK'
  <2>1. code_page' \in Refs /\ stack_page' \in Refs
    <3>1. got(1) => given + 1 \in Pages
      BY <1>4 DEF got
    <3>2. got(2) => given + 2 \in Pages
      BY <1>4 DEF got
    <3> QED
      BY <1>1, <3>1, <3>2, Zenon DEF Refs
  <2>2. given' \in 0..supply' /\ table_pages' \in 0..given'
    BY <1>1, <1>3, <1>4 DEF IInv, TypeOK
  <2> QED
    BY <1>1, <2>1, <2>2 DEF IInv, TypeOK
<1>7. Shape'
  <2>1. \A p, i : shape(p, i)' = shape(p, i)
    BY <1>1, <1>2 DEF shape
  <2> QED
    BY <1>1, <2>1 DEF IInv, Shape
<1>8. TablesApart' /\ Count'
  BY <1>1, <1>2 DEF IInv, TablesApart, apart, Count
<1>9. Stages'
  <2>1. ready => given' >= 3
    BY <1>3, <1>4 DEF IInv, Stages
  <2>2. {user_directory', user_table', pml4', pdpt2', dir2', tab2'} \subseteq MadeOrNull'
    BY <1>1, <1>2, <1>5 DEF IInv, Stages
  <2> QED
    BY <1>1, <1>2, <2>1, <2>2 DEF IInv, Stages
<1>10. CASE image_ready
  <2>1. /\ pc' = "code" /\ user_address_space_ready /\ got(2) /\ got(1) /\ ready
        /\ code_page' = given + 1 /\ stack_page' = given + 2 /\ given' = given + 2
        /\ given >= 3
    <3>1. user_address_space_ready /\ got(2) /\ got(1) /\ ready
      BY <1>4, <1>10 DEF image_ready, got, IInv, Stages
    <3> QED
      BY <1>1, <1>3, <1>10, <3>1 DEF IInv, Stages
  <2>2. /\ dir2 = Null => tab2 = Null
        /\ {user_directory, user_table, pml4, pdpt2, dir2, tab2} \subseteq MadeOrNull
        /\ runtime_promised \in [Indices -> MadeOrNull] /\ space_promised \in [Indices -> MadeOrNull]
    BY DEF IInv, Stages, Promises
  <2>3. /\ code_page' \in Made' /\ stack_page' \in Made' /\ code_page' # stack_page'
        /\ code_page' \notin MadeOrNull /\ stack_page' \notin MadeOrNull
    BY <1>4, <2>1 DEF MadeOrNull
  <2>4. unused(code_page)' /\ unused(stack_page)'
    BY <1>1, <1>2, <2>2, <2>3 DEF unused, is_table
  <2>5. Promises'
    BY <1>1, <1>2, <1>5, <2>1, <2>3, <2>4 DEF IInv, Promises, is_table, apart
  <2>6. Order'
    BY <1>1, <2>1 DEF IInv, Order
  <2> QED
    BY <1>6, <1>7, <1>8, <1>9, <2>5, <2>6 DEF IInv
<1>11. CASE ~image_ready
  <2>1. pc' = "running"
    BY <1>1, <1>11
  <2>2. Promises' /\ Order'
    BY <1>1, <1>2, <1>5, <2>1 DEF IInv, Promises, Order, is_table, apart
  <2> QED
    BY <1>6, <1>7, <1>8, <1>9, <2>2 DEF IInv
<1> QED
  BY <1>10, <1>11

-----------------------------------------------------------------------------
LEMMA InitIInv == Init => IInv
<1> SUFFICES ASSUME Init PROVE IInv
  OBVIOUS
<1>1. /\ given = 0 /\ cr3 = Null /\ ~ready /\ table_pages = 0 /\ pc = "init"
      /\ table = [p \in Pages |-> [i \in Indices |-> Null]]
      /\ user_directory = Null /\ user_table = Null /\ ~user_address_space_ready
      /\ pml4 = Null /\ pdpt2 = Null /\ dir2 = Null /\ tab2 = Null
      /\ runtime_promised = NoPromise /\ space_promised = NoPromise
  BY DEF Init, pml4, pdpt2, dir2, tab2
<1>2. TypeOK
  <2>1. Null \in Entries
    BY LinkType
  <2>2. table \in [Pages -> [Indices -> Entries]]
    BY <1>1, <2>1
  <2>3. 0 \in 0..WindowPages /\ 0 \in 0..supply /\ supply \in 0..MaxSupply
    BY WindowAssumption, SupplyAssumption DEF Init
  <2>4. user_address_space \in [{"pml4", "pdpt", "user_directory", "user_table"} -> Refs]
    BY DEF Init, Refs
  <2>5. /\ ready \in BOOLEAN /\ user_address_space_ready \in BOOLEAN /\ prepared \in BOOLEAN
        /\ cr3 \in Refs /\ {runtime_pdpt, user_directory, user_table, code_page, stack_page} \subseteq Refs
    BY DEF Init, Refs
  <2> QED
    BY <2>2, <2>3, <2>4, <2>5 DEF Init, TypeOK
<1>3. Shape /\ Count
  BY <1>1 DEF Shape, Count
<1>4. TablesApart
  BY <1>1 DEF TablesApart, apart
<1>5. Stages
  BY <1>1 DEF Stages, MadeOrNull
<1>6. Order
  BY <1>1 DEF Order
<1>7. Promises
  <2>1. NoPromise \in [Indices -> MadeOrNull]
    BY DEF NoPromise, MadeOrNull
  <2> QED
    BY <1>1, <2>1 DEF Promises, NoPromise, apart
<1> QED
  BY <1>2, <1>3, <1>4, <1>5, <1>6, <1>7 DEF IInv

LEMMA NextIInv == IInv /\ [Next]_vars => IInv'
<1> SUFFICES ASSUME IInv, [Next]_vars PROVE IInv'
  OBVIOUS
<1>1. CASE paging_init
  BY <1>1, PagingInitIInv
<1>2. CASE CreateKernelSpace
  BY <1>2, CreateIInv DEF CreateKernelSpace
<1>3. CASE Switch
  BY <1>3, SwitchIInv
<1>4. CASE PrepareSpace
  BY <1>4, CreateIInv DEF PrepareSpace
<1>5. CASE PrepareImage
  BY <1>5, PrepareImageIInv
<1>6. CASE PrepareCode \/ PrepareStack
  BY <1>6, PrepareIInv
<1>7. CASE paging_alloc_user_page
  BY <1>7, AllocIInv
<1>8. CASE DriverAlloc
  <2>1. given' \in Nat /\ given <= given' /\ given' <= supply
    BY <1>8, TakeType DEF DriverAlloc, IInv
  <2> QED
    BY <1>8, <2>1, OnlyTakes DEF DriverAlloc
<1>9. CASE UNCHANGED vars
  <2>1. UNCHANGED <<supply, given, table, cr3, ready, table_pages, runtime_pdpt, user_directory,
                    user_table, next_user_page, runtime_promised, user_address_space,
                    user_address_space_ready, space_promised, code_page, stack_page, prepared, pc>>
    BY <1>9 DEF vars, runtime, space, process
  <2>2. UNCHANGED <<pml4, pdpt2, dir2, tab2, Made, MadeOrNull>>
    BY <2>1 DEF pml4, pdpt2, dir2, tab2, Made, MadeOrNull
  <2>3. Shape'
    <3>1. \A p, i : shape(p, i)' = shape(p, i)
      BY <2>1, <2>2 DEF shape
    <3> QED
      BY <2>1, <3>1 DEF IInv, Shape
  <2>4. TypeOK'
    BY <2>1 DEF IInv, TypeOK
  <2>5. TablesApart' /\ Count' /\ Order' /\ Stages'
    BY <2>1, <2>2 DEF IInv, TablesApart, apart, Count, Order, Stages
  <2>6. Promises'
    BY <2>1, <2>2 DEF IInv, Promises, is_table, apart, unused
  <2> QED
    BY <2>3, <2>4, <2>5, <2>6 DEF IInv
<1> QED
  BY <1>1, <1>2, <1>3, <1>4, <1>5, <1>6, <1>7, <1>8, <1>9 DEF Next

LEMMA InvariantHolds == Spec => []IInv
BY InitIInv, NextIInv, PTL DEF Spec

-----------------------------------------------------------------------------
(***************************************************************************)
(* Every variable of paging.c and of the user process keeps its type: the  *)
(* counter of window pages stays within the window, no more pages are      *)
(* handed out than there are, and no entry is garbage.                     *)
(***************************************************************************)
THEOREM TypeCorrect == Spec => []TypeOK
<1>1. IInv => TypeOK
  BY DEF IInv
<1> QED
  BY <1>1, InvariantHolds, PTL

-----------------------------------------------------------------------------
(***************************************************************************)
(* What the processor finds under the two roots.                           *)
(***************************************************************************)
LEMMA Walk ==
    ASSUME IInv, ready
    PROVE  /\ target(1, 0) = 2 /\ target(2, 0) = 3 /\ target(2, 1) = user_directory
           /\ \A i \in Indices : target(3, i) = Identity
           /\ target(user_directory, 0) = user_table
           /\ \A i \in Indices : target(user_table, i) = runtime_promised[i]
           /\ target(pml4, 0) = pdpt2 /\ target(pdpt2, 1) = dir2
           /\ pml4 # Null => target(pdpt2, 0) = 3
           /\ target(dir2, 0) = tab2
           /\ \A i \in Indices : target(tab2, i) = space_promised[i]
<1>1. /\ 0 \in Indices /\ 1 \in Indices /\ Null \notin Pages /\ Made \subseteq Pages
      /\ \A p \in Made : p \notin {1, 2, 3}
      /\ 1 \in Pages /\ 2 \in Pages /\ 3 \in Pages /\ Null \notin Made
  <2>1. /\ given \in Nat /\ given >= 3 /\ given <= supply /\ supply <= MaxSupply /\ supply \in Nat
        /\ MaxSupply \in Nat /\ Null \notin Nat
    BY Basics, SupplyAssumption DEF IInv, Stages
  <2> QED
    BY <2>1, Basics DEF IInv, Made, Pages
<1>2. \A p \in Pages, i \in Indices : entry(p, i) = shape(p, i)
  BY DEF IInv, Shape, entry
<1>3. \A p \in Pages, i \in Indices : target(p, i) = IF shape(p, i) = Null THEN Null ELSE shape(p, i).to
  BY <1>2 DEF target
<1>4. \A i : target(Null, i) = Null
  BY <1>1 DEF target, entry
<1>5. \A q \in Pages \cup {Identity} : link(q) # Null /\ user_link(q) # Null
  BY LinkType
<1>6. \A q : link(q).to = q /\ user_link(q).to = q
  BY LinkType
<1>7. ASSUME NEW p \in Pages, NEW i \in Indices, NEW q \in Pages \cup {Identity}, shape(p, i) = link(q)
      PROVE  target(p, i) = q
  BY <1>3, <1>5, <1>6, <1>7
<1>8. ASSUME NEW p \in Pages, NEW i \in Indices, NEW q \in Refs, shape(p, i) = linked(q)
      PROVE  target(p, i) = q
  <2>1. CASE q = Null
    BY <1>3, <1>8, <2>1 DEF linked
  <2>2. CASE q # Null
    <3>1. q \in Pages /\ shape(p, i) = user_link(q)
      BY <1>8, <2>2 DEF Refs, linked
    <3> QED
      BY <1>3, <1>5, <1>6, <3>1
  <2> QED
    BY <2>1, <2>2
<1>9. {user_directory, user_table, pml4, pdpt2, dir2, tab2} \subseteq MadeOrNull
  BY DEF IInv, Stages
<1>10. MadeOrNull \subseteq Refs
  BY <1>1 DEF MadeOrNull, Refs
<1>11. /\ shape(1, 0) = link(2) /\ shape(2, 0) = link(3) /\ shape(2, 1) = linked(user_directory)
       /\ \A i \in Indices : shape(3, i) = link(Identity)
  BY DEF shape
<1>12. target(1, 0) = 2 /\ target(2, 0) = 3 /\ target(2, 1) = user_directory
  <2>1. target(2, 1) = user_directory
    BY <1>1, <1>8, <1>9, <1>10, <1>11
  <2> QED
    BY <1>1, <1>7, <1>11, <2>1
<1>13. \A i \in Indices : target(3, i) = Identity
  BY <1>1, <1>7, <1>11
<1>14. target(user_directory, 0) = user_table
  <2>1. CASE user_directory = Null
    BY <1>4, <2>1 DEF IInv, Stages
  <2>2. CASE user_directory # Null
    <3>1. user_directory \in Made
      BY <1>9, <2>2 DEF MadeOrNull
    <3>2. shape(user_directory, 0) = linked(user_table)
      BY <1>1, <3>1 DEF shape
    <3> QED
      BY <1>1, <1>8, <1>9, <1>10, <3>1, <3>2
  <2> QED
    BY <2>1, <2>2
<1>15. ASSUME NEW i \in Indices PROVE target(user_table, i) = runtime_promised[i]
  <2>1. runtime_promised[i] \in Refs
    BY <1>10 DEF IInv, Promises
  <2>2. CASE user_table = Null
    BY <1>4, <2>2 DEF IInv, Stages, NoPromise
  <2>3. CASE user_table # Null
    <3>1. user_table \in Made /\ user_table # user_directory
      BY <1>9, <2>3 DEF MadeOrNull, IInv, TablesApart, apart
    <3>2. shape(user_table, i) = linked(runtime_promised[i])
      BY <1>1, <3>1 DEF shape
    <3> QED
      BY <1>1, <1>8, <2>1, <3>1, <3>2
  <2> QED
    BY <2>2, <2>3
<1>16. CASE pml4 = Null
  <2>1. pdpt2 = Null /\ dir2 = Null /\ tab2 = Null /\ space_promised = NoPromise
    BY <1>16 DEF IInv, Stages
  <2> QED
    BY <1>4, <1>12, <1>13, <1>14, <1>15, <1>16, <2>1 DEF NoPromise
<1>17. CASE pml4 # Null
  <2>1. pml4 \in Made /\ pdpt2 \in Made /\ pdpt2 # Null
    BY <1>9, <1>17 DEF MadeOrNull, IInv, Stages
  <2>2. /\ pml4 # user_directory /\ pml4 # user_table
        /\ pdpt2 # user_directory /\ pdpt2 # user_table /\ pdpt2 # pml4
    BY <1>17, <2>1 DEF IInv, TablesApart, apart
  <2>3. target(pml4, 0) = pdpt2
    <3>1. shape(pml4, 0) = link(pdpt2)
      BY <1>1, <2>1, <2>2 DEF shape
    <3> QED
      BY <1>1, <1>7, <2>1, <3>1
  <2>4. target(pdpt2, 0) = 3
    <3>1. shape(pdpt2, 0) = link(3)
      BY <1>1, <2>1, <2>2 DEF shape
    <3> QED
      BY <1>1, <1>7, <2>1, <3>1
  <2>5. target(pdpt2, 1) = dir2
    <3>1. shape(pdpt2, 1) = linked(dir2)
      BY <1>1, <2>1, <2>2 DEF shape
    <3> QED
      BY <1>1, <1>8, <1>9, <1>10, <2>1, <3>1
  <2>6. target(dir2, 0) = tab2
    <3>1. CASE dir2 = Null
      BY <1>4, <3>1 DEF IInv, Stages
    <3>2. CASE dir2 # Null
      <4>1. /\ dir2 \in Made /\ dir2 # user_directory /\ dir2 # user_table /\ dir2 # pml4
            /\ dir2 # pdpt2
        BY <1>9, <3>2 DEF MadeOrNull, IInv, TablesApart, apart
      <4>2. shape(dir2, 0) = linked(tab2)
        BY <1>1, <4>1 DEF shape
      <4> QED
        BY <1>1, <1>8, <1>9, <1>10, <4>1, <4>2
    <3> QED
      BY <3>1, <3>2
  <2>7. ASSUME NEW i \in Indices PROVE target(tab2, i) = space_promised[i]
    <3>1. space_promised[i] \in Refs
      BY <1>10 DEF IInv, Promises
    <3>2. CASE tab2 = Null
      BY <1>4, <3>2 DEF IInv, Stages, NoPromise
    <3>3. CASE tab2 # Null
      <4>1. /\ tab2 \in Made /\ tab2 # user_directory /\ tab2 # user_table /\ tab2 # pml4
            /\ tab2 # pdpt2 /\ tab2 # dir2
        BY <1>9, <3>3 DEF MadeOrNull, IInv, TablesApart, apart
      <4>2. shape(tab2, i) = linked(space_promised[i])
        BY <1>1, <4>1 DEF shape
      <4> QED
        BY <1>1, <1>8, <3>1, <4>1, <4>2
    <3> QED
      BY <3>2, <3>3
  <2> QED
    BY <1>12, <1>13, <1>14, <1>15, <2>3, <2>4, <2>5, <2>6, <2>7
<1> QED
  BY <1>16, <1>17

\* Only page 1 is a root of paging_init.
LEMMA RootIsFirst ==
    ASSUME IInv, ready
    PROVE  RuntimeRoot = 1
<1>1. /\ 0 \in Indices /\ 1 \in Pages /\ 2 \in Pages /\ 3 \in Pages /\ Null \notin Pages
      /\ Identity # 2 /\ 3 # 2 /\ \A p \in Made : p # 2 /\ p \in Pages
  <2>1. given \in Nat /\ given >= 3 /\ given <= MaxSupply /\ MaxSupply \in Nat
    BY Basics, SupplyAssumption DEF IInv, Stages
  <2> QED
    BY <2>1, Basics, SupplyAssumption DEF IInv, Pages, Made
<1>2. /\ \A p : link(p).to = p /\ link(p).user = FALSE /\ user_link(p).user = TRUE
      /\ link(2) # Null
  BY <1>1, LinkType DEF link, user_link
<1>3. \A q : q # 2 => link(q) # link(2)
  BY <1>2
<1>4. \A q : linked(q) # link(2)
  BY <1>2 DEF linked
<1>5. \A p \in Pages : entry(p, 0) = shape(p, 0)
  BY <1>1 DEF IInv, Shape, entry
<1>6. entry(1, 0) = link(2)
  BY <1>1, <1>5 DEF shape
<1>7. pdpt2 # 2
  BY <1>1 DEF IInv, Stages, MadeOrNull
<1>8. ASSUME NEW p \in Pages, p # 1 PROVE entry(p, 0) # link(2)
  <2>1. /\ link(3) # link(2) /\ link(Identity) # link(2) /\ link(pdpt2) # link(2) /\ Null # link(2)
        /\ linked(user_directory) # link(2) /\ linked(user_table) # link(2)
        /\ linked(runtime_promised[0]) # link(2) /\ linked(dir2) # link(2)
        /\ linked(tab2) # link(2) /\ linked(space_promised[0]) # link(2)
    BY <1>1, <1>2, <1>3, <1>4, <1>7
  <2>2. shape(p, 0) # link(2)
    BY <1>8, <2>1 DEF shape
  <2> QED
    BY <1>5, <2>2
<1>9. runtime_pdpt = 2
  BY DEF IInv, Stages
<1>10. RuntimeRoot = CHOOSE p \in Pages : entry(p, 0) = link(2)
  BY <1>9 DEF RuntimeRoot
<1> QED
  BY <1>1, <1>6, <1>8, <1>10

\* With or without tables, the windows show what was promised.
LEMMA WindowsHold == IInv => WindowsAsPromised
<1> SUFFICES ASSUME IInv PROVE WindowsAsPromised
  OBVIOUS
<1>1. \A i : target(Null, i) = Null
  BY Basics DEF IInv, target, entry, Pages
<1>2. runtime_promised \in [Indices -> MadeOrNull] /\ space_promised \in [Indices -> MadeOrNull]
  BY DEF IInv, Promises
<1>3. CASE ready
  <2>1. window_table(1) = user_table /\ window_table(pml4) = tab2
    BY <1>3, Walk DEF window_table
  <2>2. window(1) = [i \in Indices |-> runtime_promised[i]]
    BY <1>3, <2>1, Walk DEF window
  <2>3. window(pml4) = [i \in Indices |-> space_promised[i]]
    BY <1>3, <2>1, Walk DEF window
  <2> QED
    BY <1>2, <1>3, <2>2, <2>3, RootIsFirst DEF WindowsAsPromised, pml4
<1>4. CASE ~ready
  <2>1. RuntimeRoot = Null /\ pml4 = Null /\ runtime_promised = NoPromise /\ space_promised = NoPromise
    BY <1>4 DEF RuntimeRoot, IInv, Stages
  <2>2. window(Null) = NoPromise
    BY <1>1 DEF window, window_table, NoPromise
  <2> QED
    BY <2>1, <2>2 DEF WindowsAsPromised, pml4
<1> QED
  BY <1>3, <1>4

\* The tables in use, when there are any.
LEMMA TablesInUse ==
    ASSUME IInv, ready
    PROVE  Tables = {1, 2, 3} \cup ({user_directory, user_table, pml4, pdpt2, dir2, tab2} \ {Null})
<1>1. /\ {1, 2, 3} \subseteq Pages /\ Null \notin Pages /\ Made \subseteq Pages
  <2>1. given \in Nat /\ given >= 3 /\ given <= MaxSupply /\ MaxSupply \in Nat
    BY Basics, SupplyAssumption DEF IInv, Stages
  <2> QED
    BY <2>1, Basics, SupplyAssumption DEF IInv, Pages, Made
<1>2. {user_directory, user_table, pml4, pdpt2, dir2, tab2} \subseteq Made \cup {Null}
  BY DEF IInv, Stages, MadeOrNull
<1>3. tables_under(1) = {1, 2, 3, user_directory, user_table} \cap Pages
  BY Walk DEF tables_under, window_table
<1>4. pml4 # Null => tables_under(pml4) = {pml4, pdpt2, 3, dir2, tab2} \cap Pages
  BY Walk DEF tables_under, window_table
<1>5. pml4 = Null => tables_under(pml4) = {} /\ pdpt2 = Null /\ dir2 = Null /\ tab2 = Null
  <2>1. \A i : target(Null, i) = Null
    BY <1>1 DEF target, entry
  <2> QED
    BY <1>1, <2>1 DEF tables_under, window_table, IInv, Stages
<1>6. Tables = tables_under(1) \cup tables_under(pml4)
  BY RootIsFirst DEF Tables, pml4
<1>7. CASE pml4 = Null
  BY <1>1, <1>2, <1>3, <1>5, <1>6, <1>7
<1>8. CASE pml4 # Null
  BY <1>1, <1>2, <1>3, <1>4, <1>6, <1>8
<1> QED
  BY <1>7, <1>8

\* Adding one table to a set that does not have it.
LEMMA AddTable ==
    ASSUME NEW S, IsFiniteSet(S), NEW ref, ref \notin S
    PROVE  /\ IsFiniteSet(S \cup ({ref} \ {Null}))
           /\ Cardinality(S \cup ({ref} \ {Null})) = Cardinality(S) + one(ref)
<1>1. Cardinality(S) \in Nat
  BY FS_CardinalityType
<1>2. CASE ref = Null
  <2>1. S \cup ({ref} \ {Null}) = S /\ one(ref) = 0
    BY <1>2 DEF one
  <2>2. Cardinality(S) + one(ref) = Cardinality(S)
    BY <1>1, <2>1
  <2> QED
    BY <2>1, <2>2, Zenon
<1>3. CASE ref # Null
  <2>1. S \cup ({ref} \ {Null}) = S \cup {ref} /\ one(ref) = 1
    BY <1>3 DEF one
  <2>2. IsFiniteSet(S \cup {ref}) /\ Cardinality(S \cup {ref}) = Cardinality(S) + 1
    BY FS_AddElement
  <2> QED
    BY <2>1, <2>2
<1> QED
  BY <1>2, <1>3

-----------------------------------------------------------------------------
(***************************************************************************)
(* Whichever root is loaded, after whichever failed allocations, every     *)
(* address the kernel uses is mapped to itself.                            *)
(***************************************************************************)
THEOREM IdentityMapKept == Spec => []KernelStaysMapped
<1>1. IInv => KernelStaysMapped
  <2> SUFFICES ASSUME IInv, cr3 # Null, NEW i \in Indices
               PROVE  target(target(target(cr3, 0), 0), i) = Identity
    BY DEF KernelStaysMapped
  <2>1. ready /\ (cr3 = 1 \/ (cr3 = pml4 /\ pml4 # Null))
    BY DEF IInv, Stages
  <2> QED
    BY <2>1, Walk
<1> QED
  BY <1>1, InvariantHolds, PTL

(***************************************************************************)
(* Both windows show, at every page, exactly what the successful calls     *)
(* mapped there; a call that failed half-way changed nothing in them.      *)
(***************************************************************************)
THEOREM WindowsCorrect == Spec => []WindowsAsPromised
BY WindowsHold, InvariantHolds, PTL

(***************************************************************************)
(* A page of the allocator has one use: as one page table, or at one       *)
(* address of one window.                                                  *)
(***************************************************************************)
THEOREM PagesHaveOneUse == Spec => []PagesArePrivate
<1>1. IInv => PagesArePrivate
  <2> SUFFICES ASSUME IInv PROVE PagesArePrivate
    OBVIOUS
  <2>1. /\ window(RuntimeRoot) = runtime_promised
        /\ window(user_address_space.pml4) = space_promised
    BY WindowsHold DEF WindowsAsPromised
  <2>2. /\ runtime_promised \in [Indices -> MadeOrNull] /\ space_promised \in [Indices -> MadeOrNull]
        /\ \A p \in Made : p \notin {1, 2, 3} /\ p # Null
    BY Basics DEF IInv, Promises, Made
  <2> DEFINE first == {runtime_promised[i] : i \in Indices} \ {Null}
             second == {space_promised[i] : i \in Indices} \ {Null}
  <2>3. ASSUME NEW x \in first \cup second PROVE x \in Made /\ ~is_table(x)
    BY <2>2 DEF IInv, Promises, MadeOrNull
  <2>4. (first \cup second) \cap Tables = {}
    <3>1. CASE ready
      BY <2>2, <2>3, <3>1, TablesInUse DEF is_table
    <3>2. CASE ~ready
      BY <3>2 DEF IInv, Stages, NoPromise
    <3> QED
      BY <3>1, <3>2
  <2>5. first \cap second = {}
    BY DEF IInv, Promises, apart
  <2>6. \A i, j \in Indices :
           /\ runtime_promised[i] = runtime_promised[j] /\ runtime_promised[i] # Null => i = j
           /\ space_promised[i] = space_promised[j] /\ space_promised[i] # Null => i = j
    BY DEF IInv, Promises, apart
  <2> QED
    BY <2>1, <2>4, <2>5, <2>6 DEF PagesArePrivate
<1> QED
  BY <1>1, InvariantHolds, PTL

(***************************************************************************)
(* paging_table_pages() is the number of page tables in use.               *)
(***************************************************************************)
THEOREM TableCountExact == Spec => []TablePagesExact
<1>1. IInv => TablePagesExact
  <2> SUFFICES ASSUME IInv, ready PROVE table_pages = Cardinality(Tables)
    BY DEF TablePagesExact
  <2>1. /\ {user_directory, user_table, pml4, pdpt2, dir2, tab2} \subseteq MadeOrNull
        /\ \A p \in MadeOrNull : p \notin {1, 2, 3}
    BY Basics DEF IInv, Stages, MadeOrNull, Made
  <2> DEFINE plus(S, ref) == S \cup ({ref} \ {Null})
             S0 == {1, 2, 3}
             S1 == plus(S0, user_directory)
             S2 == plus(S1, user_table)
             S3 == plus(S2, pml4)
             S4 == plus(S3, pdpt2)
             S5 == plus(S4, dir2)
             S6 == plus(S5, tab2)
  <2>2. IsFiniteSet(S0) /\ Cardinality(S0) = 3
    <3>1. IsFiniteSet({}) /\ Cardinality({}) = 0
      BY FS_EmptySet
    <3>2. IsFiniteSet({1}) /\ Cardinality({1}) = 1
      BY FS_Singleton
    <3>3. IsFiniteSet({1} \cup {2}) /\ Cardinality({1} \cup {2}) = 2
      BY <3>2, FS_AddElement
    <3>4. IsFiniteSet(({1} \cup {2}) \cup {3}) /\ Cardinality(({1} \cup {2}) \cup {3}) = 3
      BY <3>3, FS_AddElement
    <3>5. S0 = ({1} \cup {2}) \cup {3}
      OBVIOUS
    <3> QED
      BY <3>4, <3>5
  <2>3. /\ user_directory \notin S0 /\ user_table \notin S1 /\ pml4 \notin S2 /\ pdpt2 \notin S3
        /\ dir2 \notin S4 /\ tab2 \notin S5
    BY <2>1 DEF IInv, TablesApart, apart
  <2>4. S6 = Tables
    BY TablesInUse
  <2> HIDE DEF S0
  <2>5. IsFiniteSet(S1) /\ Cardinality(S1) = 3 + one(user_directory)
    BY <2>2, <2>3, AddTable
  <2> HIDE DEF S1
  <2>6. IsFiniteSet(S2) /\ Cardinality(S2) = 3 + one(user_directory) + one(user_table)
    BY <2>3, <2>5, AddTable
  <2> HIDE DEF S2
  <2>7. IsFiniteSet(S3) /\ Cardinality(S3) = 3 + one(user_directory) + one(user_table) + one(pml4)
    BY <2>3, <2>6, AddTable
  <2> HIDE DEF S3
  <2>8. /\ IsFiniteSet(S4)
        /\ Cardinality(S4) = 3 + one(user_directory) + one(user_table) + one(pml4) + one(pdpt2)
    BY <2>3, <2>7, AddTable
  <2> HIDE DEF S4
  <2>9. /\ IsFiniteSet(S5)
        /\ Cardinality(S5) = 3 + one(user_directory) + one(user_table) + one(pml4) + one(pdpt2)
                               + one(dir2)
    BY <2>3, <2>8, AddTable
  <2> HIDE DEF S5
  <2>10. Cardinality(S6) = 3 + one(user_directory) + one(user_table) + one(pml4) + one(pdpt2)
                             + one(dir2) + one(tab2)
    BY <2>3, <2>9, AddTable
  <2> HIDE DEF S6
  <2> QED
    BY <2>4, <2>10 DEF IInv, Count
<1> QED
  BY <1>1, InvariantHolds, PTL
=============================================================================
