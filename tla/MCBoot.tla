------------------------------- MODULE MCBoot --------------------------------
(***************************************************************************)
(* The machines the boot sequence is checked on.  Each family varies one   *)
(* part and leaves the others plain: memory with a working USB device, the *)
(* USB controller, the PCI bus, the ACPI tables, the Multiboot2            *)
(* information, the disk, the mouse.                                       *)
(***************************************************************************)
EXTENDS Boot

\* PCI functions.
NoCaps == << >>
Function(class, interface, bars) ==
    [multifunction |-> TRUE, header_type |-> 0, class |-> class, interface |-> interface,
     virtio_gpu |-> FALSE, bars |-> bars, first_cap |-> 0, config |-> NoCaps]
Bar(kind, word) == [kind |-> kind, word |-> word]
Vga  == Function("vga", "", <<Bar("io", 1), Bar("mem32", 16)>>)
Accelerator == Function("3d", "", <<Bar("mem64", 16), Bar("zero", 1)>>)
Uhci == Function("usb", "uhci", <<Bar("io", 1)>>)
XhciAt(bars) == Function("usb", "xhci", bars)
Xhci == XhciAt(<<Bar("mem32", 32)>>)
Cap(type, next) == [id |-> VirtioCap, type |-> type, next |-> next]
Chain(start, a, b, c) == [Function("other", "", <<Bar("mem32", 48)>>) EXCEPT
    !.virtio_gpu = TRUE, !.first_cap = start, !.config = (64 :> a @@ 80 :> b @@ 96 :> c)]
Virtio3 == Chain(64, Cap(Common, 80), Cap(Notify, 96), Cap(Device, 0))
VirtioKinds ==
    { Virtio3,
      Chain(64, Cap(Common, 96), Cap(Notify, 0), Cap(Device, 0)),          \* one is not in the chain
      Chain(80, Cap(Common, 0), Cap(Notify, 96), Cap(Device, 64)),         \* one lies behind
      Chain(8, Cap(Common, 80), Cap(Notify, 96), Cap(Device, 0)),          \* no chain
      Chain(64, [Cap(Common, 80) EXCEPT !.id = 5], Cap(Notify, 96), Cap(Device, 0)),
      [Virtio3 EXCEPT !.header_type = 1],
      \* the last needed one is behind more than the table holds
      [Virtio3 EXCEPT !.config = (64 :> Cap(Common, 72) @@ 72 :> Cap(Common, 80)
                                  @@ 80 :> Cap(Notify, 96) @@ 96 :> Cap(Device, 0))] }
XhciKinds == { XhciAt(<<Bar("io", 1)>>), XhciAt(<<Bar("zero", 0), Bar("mem64", 32), Bar("mem32", 1)>>),
               XhciAt(<<Bar("mem64", 32), Bar("zero", 0)>>), XhciAt(<<Bar("mem32", MapLimit)>>) }
Kinds == {Absent, Vga, Accelerator, Virtio3, Uhci, Xhci}
\* A slot: the multifunction bit is that of function 0.
Slot(f, g, multi) == <<IF f = Absent THEN Absent ELSE [f EXCEPT !.multifunction = multi], g>>
Busses ==
    { <<Slot(f, g, multi), other>> : f \in Kinds, g \in Kinds, multi \in BOOLEAN,
          other \in { <<Vga>>, Slot(Absent, Xhci, TRUE), Slot(Uhci, Xhci, TRUE),
                      Slot(Virtio3, Accelerator, TRUE), Slot(Xhci, Vga, FALSE) } }
    \cup { << <<v>> >> : v \in VirtioKinds \cup XhciKinds }
    \cup { << <<x>>, <<Xhci>> >> : x \in XhciKinds }
PlainBus == << <<Vga>>, <<Xhci>> >>

\* USB controllers.
ControllerWith(ports, answers) ==
    [valid |-> TRUE, halts |-> TRUE, resets |-> TRUE, ports |-> ports, answers |-> answers]
PlainUsb == [ControllerWith(<<>>, "prompt") EXCEPT !.halts = FALSE]
Ports == {"empty", "works", "disabled", "stuck"}
UsbControllers ==
    { ControllerWith(<<p, q>>, answers) : p \in Ports, q \in Ports,
          answers \in {"prompt", "slow", "never", "refuses", "faulty"} }
    \cup { [ControllerWith(<<>>, "prompt") EXCEPT !.valid = FALSE],
           [ControllerWith(<<>>, "prompt") EXCEPT !.resets = FALSE] }

\* ACPI tables: 1 a root, 2 a table of another kind, 3 a MADT.
Rsdp(revision) == [signature |-> TRUE, sum20 |-> TRUE, revision |-> revision, length |-> 36,
                   sum |-> TRUE, rsdt |-> 1, xsdt |-> 1]
Entry(type, length, enabled) == [type |-> type, length |-> length, enabled |-> enabled]
Cpu == Entry(0, 8, TRUE)
\* The entries at their offsets; each takes its length, a malformed one at least 2.
Laid(list) ==
    LET at[i \in 1..Len(list)] ==
            IF i = 1 THEN MadtHeader
            ELSE at[i - 1] + IF list[i - 1].length < 2 THEN 2 ELSE list[i - 1].length
    IN  [offset \in { at[i] : i \in 1..Len(list) } |-> list[CHOOSE i \in 1..Len(list) : at[i] = offset]]
Table(signature, tables, madt_entries, length) ==
    [length |-> length, sum |-> TRUE, mapped |-> TRUE, signature |-> signature,
     entries |-> tables, madt |-> Laid(madt_entries)]
Firmware(ebda, bios, list, madt_entries, length) ==
    [ebda_in_range |-> TRUE, ebda |-> ebda, bios |-> bios,
     tables |-> << Table("root", list, <<>>, 52), Table("FACP", <<>>, <<>>, 60),
                   Table("APIC", <<>>, madt_entries, length) >>]
Layout == << Cpu, Entry(1, 12, FALSE), Entry(0, 8, FALSE), Entry(2, 10, FALSE), Entry(1, 12, FALSE) >>
NoFirmware == Firmware(<<>>, <<>>, <<>>, <<>>, 44)
PlainFirmware == Firmware(<<>>, <<Rsdp(0)>>, <<2, 3>>, <<Cpu>>, 52)
Candidates == { Rsdp(0), Rsdp(2), [Rsdp(2) EXCEPT !.sum = FALSE], [Rsdp(0) EXCEPT !.sum20 = FALSE],
                [Rsdp(2) EXCEPT !.length = 16], [Rsdp(0) EXCEPT !.signature = FALSE],
                [Rsdp(2) EXCEPT !.xsdt = 0] }
Firmwares ==
    { [Firmware(<<c>>, <<d>>, <<2, 3>>, <<Cpu>>, 52) EXCEPT !.ebda_in_range = inside] :
          c \in Candidates, d \in Candidates, inside \in BOOLEAN }
    \cup { Firmware(<<>>, <<Rsdp(0)>>, list, Layout, 94) : list \in {<<0, 3>>, <<2>>, <<3, 2>>} }
    \cup { Firmware(<<>>, <<Rsdp(0)>>, <<3>>, Layout, length) : length \in 43..96 }
    \cup { Firmware(<<>>, <<Rsdp(0)>>, <<3>>, <<Cpu, bad, Cpu>>, length) : length \in {60, 62, 68},
              bad \in {Entry(0, 1, TRUE), Entry(0, 6, TRUE), Entry(1, 8, TRUE), Entry(0, 0, TRUE)} }
    \cup { Firmware(<<>>, <<Rsdp(0)>>, <<3>>, [i \in 1..(ACPI_MAX_IOAPICS + 1) |-> Entry(1, 12, FALSE)],
                    44 + 12 * (ACPI_MAX_IOAPICS + 1)) }
    \cup { [PlainFirmware EXCEPT !.tables[t].mapped = FALSE] : t \in 1..3 }
    \cup { [PlainFirmware EXCEPT !.tables[t].sum = FALSE] : t \in 1..3 }
    \cup { [PlainFirmware EXCEPT !.tables[t].length = length] : t \in {1, 3}, length \in {8, MaxTable + 1} }

\* Multiboot2 information.
Frame(address, pitch, width, height, bpp) ==
    [address |-> address, pitch |-> pitch, width |-> width, height |-> height, bpp |-> bpp]
Tag(type, size, rgb, frame) == [type |-> type, size |-> size, rgb |-> rgb, frame |-> frame]
PlainFrame == Frame(4096, 4096, 1024, 768, 32)
Information(total, list) == [total |-> total, tags |-> list]
End == Tag("end", 8, FALSE, PlainFrame)
Framebuffer(f) == Tag("framebuffer", 38, TRUE, f)
NoInformation == Information(16, <<End>>)
\* A pitch around the one a row of w pixels of three bytes needs.
Pitch(w, gap) == IF w * 3 + gap < 0 THEN 0 ELSE w * 3 + gap
Widths == {0, 1, 30, 150, 151, 258, 420, 421, 640, 1920, 1921}
Informations ==
    { Information(64, <<Framebuffer(Frame(4096, Pitch(w, gap), w, h, bpp)), End>>) :
          w \in Widths, h \in {34, 600, 1080}, bpp \in {24, 31, 32}, gap \in {-1, 0, 640, 3840} }
    \cup { Information(64, <<Framebuffer(Frame(address, 4096, 1024, h, 32)), End>>) :
              address \in {0, 4096, MapLimit - 4096 * 768, MapLimit - 4096}, h \in {0, 768, 769, 1081} }
    \cup { Information(total, <<Tag("other", size, FALSE, PlainFrame), Framebuffer(PlainFrame), End>>) :
              total \in {8, 16, 24, 56, 72}, size \in {4, 8, 9, 16} }
    \cup { Information(96, <<[Framebuffer(PlainFrame) EXCEPT !.rgb = FALSE], Framebuffer(PlainFrame), End>>),
           Information(64, <<End, Framebuffer(PlainFrame)>>),
           Information(64, <<[Framebuffer(PlainFrame) EXCEPT !.size = 35], End>>) }

\* Disks and mice.
Disks == [exists : {"drive", "absent", "floating"}, prompt : BOOLEAN, fails : BOOLEAN]
NoDisk == [exists |-> "absent", prompt |-> TRUE, fails |-> FALSE]
NoMouse == [controller |-> TRUE, aux |-> FALSE, stale |-> FALSE]

Machine == [pages |-> 0, mouse |-> NoMouse, information |-> NoInformation, slots |-> <<>>,
            usb |-> PlainUsb, firmware |-> NoFirmware, disk |-> NoDisk]
\* With sixteen pages page tables, user process and USB driver have all they
\* want and nothing is left.
MCMachines ==
    { [Machine EXCEPT !.pages = n, !.slots = PlainBus, !.usb = ControllerWith(<<"works">>, "prompt")] :
          n \in 0..MaxSupply }
    \cup { [Machine EXCEPT !.pages = 16, !.slots = PlainBus, !.usb = u] : u \in UsbControllers }
    \cup { [Machine EXCEPT !.slots = bus] : bus \in Busses }
    \cup { [Machine EXCEPT !.firmware = f] : f \in Firmwares }
    \cup { [Machine EXCEPT !.information = i] : i \in Informations }
    \cup { [Machine EXCEPT !.disk = d] : d \in Disks }
    \cup { [Machine EXCEPT !.mouse = d] : d \in [controller : BOOLEAN, aux : BOOLEAN, stale : BOOLEAN] }
MCUsbMachines ==
    { [Machine EXCEPT !.pages = 16, !.slots = PlainBus, !.usb = u] : u \in UsbControllers }

MCMoves == {1, -1} \* bit 3 is clear in the one, set in the other
==============================================================================
