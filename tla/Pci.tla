--------------------------------- MODULE Pci ---------------------------------
(***************************************************************************)
(* PCI discovery, src/arch/x86_64/pci.c: the scan of the configuration     *)
(* space into a table of bounded size, and the lookups drivers use.        *)
(*                                                                         *)
(* The configuration space is a sequence of slots (bus and device number   *)
(* together), a slot a sequence of function headers.  Of a header the      *)
(* model keeps what a driver looks at.  Reading a function that is absent  *)
(* gives all ones.                                                         *)
(***************************************************************************)
EXTENDS Naturals, Sequences, FiniteSets

CONSTANTS
    PCI_MAX_DEVICES,
    PCI_MAX_CAPABILITIES,
    MaxFunctions,         \* functions of a device (8)
    FirstCap, LastCap,    \* offsets a capability may have (0x40, 0xf4)
    HighWord,             \* weight of the upper half of a 64-bit BAR (2^32)
    Absent

ASSUME SizesAssumption == /\ PCI_MAX_DEVICES \in Nat /\ PCI_MAX_CAPABILITIES \in Nat
                          /\ MaxFunctions \in Nat \ {0}
                          /\ FirstCap \in Nat \ {0} /\ LastCap \in Nat
ASSUME AbsentAssumption == Absent \notin Nat \X Nat

VARIABLES
    slots,                \* the configuration space, see IsBus
    discovered_devices,
    devices               \* the table

pciVars == <<slots, discovered_devices, devices>>

IsFunction(f) == /\ f.multifunction \in BOOLEAN /\ f.first_cap \in Nat
                 /\ \A offset \in DOMAIN f.config :
                        offset \in Nat /\ f.config[offset].next \in Nat
IsBus(s) == /\ Len(s) \in Nat
            /\ \A i \in 1..Len(s) : \A j \in DOMAIN s[i] : s[i][j] # Absent => IsFunction(s[i][j])

PciInit == discovered_devices = 0 /\ devices = <<>>

-----------------------------------------------------------------------------
header(place) == IF place[2] \in DOMAIN slots[place[1]] THEN slots[place[1]][place[2]] ELSE Absent

\* The multifunction bit is set in what an absent function 0 reads as.
function_limit(slot) ==
    LET first == header(<<slot, 1>>)
    IN  IF first = Absent \/ first.multifunction THEN MaxFunctions ELSE 1

\* read_capabilities: each capability names the next; offsets only grow.
capability(function, offset) ==
    IF offset \in DOMAIN function.config THEN function.config[offset]
    ELSE [id |-> 0, type |-> 0, next |-> 0]

read_capabilities(function) ==
    LET at[steps \in 0..PCI_MAX_CAPABILITIES] ==
            IF steps = 0 THEN function.first_cap
            ELSE LET offset == at[steps - 1]
                     next == capability(function, offset).next
                 IN  IF offset \notin FirstCap..LastCap \/ next <= offset THEN 0 ELSE next
        read == { steps \in 0..(PCI_MAX_CAPABILITIES - 1) : at[steps] \in FirstCap..LastCap }
    IN  IF function.header_type # 0 THEN {} ELSE { capability(function, at[steps]) : steps \in read }

read_device(place) ==
    LET function == header(place)
    IN  [place |-> place, class |-> function.class, interface |-> function.interface,
         virtio_gpu |-> function.virtio_gpu, bars |-> function.bars,
         capabilities |-> read_capabilities(function)]

\* The functions that answer, in the order of the scan.
places == Len(slots) * MaxFunctions
place_at(n) == <<((n - 1) \div MaxFunctions) + 1, ((n - 1) % MaxFunctions) + 1>>
responds(place) == place[2] <= function_limit(place[1]) /\ header(place) # Absent
scan[n \in 0..places] ==
    IF n = 0 THEN <<>>
    ELSE IF responds(place_at(n)) THEN Append(scan[n - 1], place_at(n)) ELSE scan[n - 1]
discovered == scan[places]

pci_init == /\ discovered_devices' = Len(discovered)
            /\ devices' = [i \in 1..(IF Len(discovered) < PCI_MAX_DEVICES
                                        THEN Len(discovered) ELSE PCI_MAX_DEVICES)
                             |-> read_device(discovered[i])]
            /\ UNCHANGED slots

-----------------------------------------------------------------------------
\* Lookups: an entry's index in the table, 0 (the null pointer) if there is none.
first_index(S) == IF S = {} THEN 0 ELSE CHOOSE i \in S : \A j \in S : i <= j
of_class(class, limit) == { i \in 1..limit : devices[i].class = class }

pci_find_class_first(class, occurrence) == \* mutant: occurrences are not counted
    first_index(of_class(class, Len(devices)))

pci_find_class(class, occurrence) ==
    first_index({ i \in of_class(class, Len(devices)) :
                     Cardinality(of_class(class, i - 1)) = occurrence })

\* The first memory BAR; the display and the USB driver look for it alike.  A
\* BAR is an I/O port range, zero, or memory with the lower word of its address.
memory_bar(entry) ==
    LET memory == { b \in 1..Len(entry.bars) : entry.bars[b].kind \in {"mem32", "mem64"} }
        first == CHOOSE b \in memory : \A c \in memory : b <= c
        low == entry.bars[first].word
    IN  IF memory = {} THEN 0
        ELSE IF entry.bars[first].kind = "mem64" /\ first < Len(entry.bars)
                THEN low + HighWord * entry.bars[first + 1].word
                ELSE low

-----------------------------------------------------------------------------
\* What a driver is meant to be given: the places in the scan's order that
\* answer, as far as the table holds them, and the first of a kind.
Answering == { p \in (1..Len(slots)) \X (1..MaxFunctions) :
                  header(p) # Absent /\ (p[2] = 1 \/ header(<<p[1], 1>>) = Absent
                                         \/ header(<<p[1], 1>>).multifunction) }
Before(p, q) == p[1] < q[1] \/ (p[1] = q[1] /\ p[2] < q[2])
InTable == { p \in Answering : Cardinality({ q \in Answering : Before(q, p) }) < PCI_MAX_DEVICES }
FirstOf(S) == IF S = {} THEN Absent ELSE CHOOSE p \in S : \A q \in S \ {p} : Before(p, q)
==============================================================================
