-------------------------------- MODULE Acpi --------------------------------
(***************************************************************************)
(* ACPI discovery, src/arch/x86_64/acpi.c: the search for the root pointer,*)
(* for the MADT under it, and the walk over the MADT's entries.            *)
(*                                                                         *)
(* firmware is what the machine has in memory: the candidates for the root *)
(* pointer in the two areas, in address order, and the tables by address.  *)
(* A checksum is valid or not.  The entries of a MADT are known by their   *)
(* offsets; firmware lays them out one after the other from MadtHeader on. *)
(***************************************************************************)
EXTENDS Naturals, Sequences, FiniteSets

CONSTANTS
    RootLength,       \* RSDP_V1_LENGTH
    TableHeader,      \* 36
    MadtHeader,       \* 44
    MaxTable,         \* ACPI_MAX_TABLE_LENGTH
    ACPI_MAX_IOAPICS

ASSUME HeaderAssumption == MadtHeader \in Nat

VARIABLES
    firmware, \* [ebda_in_range, ebda, bios, tables]
    madt      \* what discovery found: [rsdp, table, processors, ioapics]

acpiVars == <<firmware, madt>>

Nothing == [rsdp |-> 0, table |-> 0, processors |-> 0, ioapics |-> 0]
AcpiInit == madt = Nothing

\* What firmware is: pointers lead to tables, and the entries of a MADT follow
\* one another.
LaidOut(entry) ==
    \A i \in DOMAIN entry :
        /\ i \in Nat /\ entry[i].length \in Nat
        /\ i # MadtHeader => \E j \in DOMAIN entry :
              /\ j < i /\ \A k \in DOMAIN entry : k <= j \/ k >= i
              /\ entry[j].length >= 2 => j + entry[j].length = i
        /\ MadtHeader <= i
RootType(addresses) == [signature : BOOLEAN, sum20 : BOOLEAN, sum : BOOLEAN, revision : Nat,
                        length : Nat, rsdt : addresses, xsdt : addresses]
IsFirmware(f) ==
    LET addresses == 0..Len(f.tables)
    IN  /\ f.ebda \in Seq(RootType(addresses)) /\ f.bios \in Seq(RootType(addresses))
        /\ \A a \in addresses \ {0} : /\ f.tables[a].length \in Nat
                                    /\ f.tables[a].entries \in Seq(addresses)
                                    /\ LaidOut(f.tables[a].madt)

-----------------------------------------------------------------------------
accept_rsdp(candidate) ==
    /\ candidate.signature /\ candidate.sum20
    /\ candidate.revision >= 2 => candidate.length \in RootLength..MaxTable /\ candidate.sum

\* The areas of the scan; the EBDA segment may be nonsense.
scanned == (IF firmware.ebda_in_range THEN firmware.ebda ELSE <<>>) \o firmware.bios
rsdp == LET accepted == { i \in 1..Len(scanned) : accept_rsdp(scanned[i]) }
        IN  IF accepted = {} THEN 0 ELSE CHOOSE i \in accepted : \A j \in accepted : i <= j

mapped(address) == firmware.tables[address].mapped

valid_table(address) ==
    LET t == firmware.tables[address] IN t.length \in TableHeader..MaxTable /\ t.sum

\* find_table.  Zero is the null pointer.
root == LET r == scanned[rsdp] IN IF r.revision >= 2 THEN r.xsdt ELSE r.rsdt
entries == IF root # 0 /\ valid_table(root) THEN firmware.tables[root].entries ELSE <<>>
is_madt(address) == valid_table(address) /\ firmware.tables[address].signature = "APIC"
found == { i \in 1..Len(entries) : entries[i] # 0 /\ is_madt(entries[i]) }
first == CHOOSE i \in found : \A j \in found : i <= j
find_table == IF found = {} THEN 0 ELSE entries[first]

\* What find_table reads: the root, and each table up to the one it returns.
looked_at == { j \in 1..Len(entries) : found = {} \/ j <= first }
touched == ({root} \cup { entries[i] : i \in looked_at }) \ {0}

-----------------------------------------------------------------------------
\* Past the entries laid out there are zeroes.
entry_at(t, offset) ==
    IF offset \in DOMAIN t.madt THEN t.madt[offset]
    ELSE [type |-> 0, length |-> 0, enabled |-> FALSE]

outside_or_last(t, offset, length) == offset + length >= t.length \* mutant: >= for >
outside(t, offset, length) == offset + length > t.length

\* The loop of parse_madt: the offsets of the entries it looks at and keeps.
walk(t) ==
    LET from[offset \in MadtHeader..t.length] ==
            LET e == entry_at(t, offset)
            IN  IF offset + 2 > t.length \/ e.length < 2 \/ outside(t, offset, e.length)
                   THEN {}
                   ELSE {offset} \cup from[offset + e.length]
    IN  IF t.length < MadtHeader THEN {} ELSE from[MadtHeader]

is_processor(e) == e.type = 0 /\ e.length >= 8 /\ e.enabled
is_ioapic(e)    == e.type = 1 /\ e.length >= 12
smaller(m, n) == IF m < n THEN m ELSE n

parse_madt(t) ==
    LET of(Kind(_)) == Cardinality({ offset \in walk(t) : Kind(entry_at(t, offset)) })
    IN  [processors |-> of(is_processor), ioapics |-> smaller(of(is_ioapic), ACPI_MAX_IOAPICS)]

discover_madt ==
    IF find_table = 0 THEN [Nothing EXCEPT !.rsdp = rsdp]
    ELSE LET parsed == parse_madt(firmware.tables[find_table])
         IN  [rsdp |-> rsdp, table |-> find_table,
              processors |-> parsed.processors, ioapics |-> parsed.ioapics]

\* A table outside the identity map is a page fault before there is an IDT.
Faults == rsdp # 0 /\ \E address \in touched : ~mapped(address)

acpi_init == /\ madt' = IF rsdp = 0 THEN Nothing ELSE discover_madt
             /\ UNCHANGED firmware

AcpiSpec == AcpiInit /\ IsFirmware(firmware) /\ [][acpi_init]_acpiVars

-----------------------------------------------------------------------------
\* What was counted is what the firmware laid out: the entries that lie whole
\* within the table's stated length, before the first malformed one, of the
\* first valid MADT under the first valid root pointer.
MadtComplete ==
    madt.table # 0 =>
        LET t == firmware.tables[madt.table]
            whole == { i \in DOMAIN t.madt : \A j \in DOMAIN t.madt :
                          j <= i => t.madt[j].length >= 2 /\ j + t.madt[j].length <= t.length }
            of(Kind(_)) == Cardinality({ i \in whole : Kind(t.madt[i]) })
        IN  /\ accept_rsdp(scanned[madt.rsdp])
            /\ \A i \in 1..(madt.rsdp - 1) : ~accept_rsdp(scanned[i])
            /\ madt.processors = of(is_processor)
            /\ madt.ioapics = smaller(of(is_ioapic), ACPI_MAX_IOAPICS)
==============================================================================
