-------------------------------- MODULE Boot ---------------------------------
(***************************************************************************)
(* The boot sequence of kernel_main, src/kernel/main.c, from mouse_init to *)
(* the start of the main loop: the drivers and the paging code one after   *)
(* the other, on one machine, with one page allocator, one PCI table and   *)
(* one identity map between them, while the devices run on their own.      *)
(* The parts that keep nothing these share (CPU, audio, AI, desktop and    *)
(* scheduler set-up) are in other modules or left out.                     *)
(*                                                                         *)
(* The machine is chosen in Init.  Page tables are those of Paging.        *)
(***************************************************************************)
EXTENDS Paging, Mouse, Ui, Gpu, Acpi, Ata

CONSTANTS
    Machines,               \* what the kernel may be started on
    RingSize, UsbFunctions, MaxSlots, \* of Xhci
    ReadLimit               \* sectors read before the main loop (bound)

ASSUME UsbAssumption == RingSize \in Nat \ {0} /\ UsbFunctions \in Nat /\ MaxSlots \in Nat \ {0}
ASSUME MachinesAssumption == \A m \in Machines :
    /\ m.mouse \in [controller : BOOLEAN, aux : BOOLEAN, stale : BOOLEAN]
    /\ m.information \in InformationType
    /\ IsBus(m.slots)
    /\ IsFirmware(m.firmware)
    /\ m.disk \in [exists : {"drive", "absent", "floating"}, prompt : BOOLEAN, fails : BOOLEAN]

VARIABLES hardware, controller, dma, rings, hc, step, \* of Xhci
          stage,                                      \* the next call of kernel_main
          reads                                       \* sectors asked for so far

Usb == INSTANCE Xhci WITH MmioLimit <- MapLimit

usbVars  == <<hardware, controller, dma, rings, hc, step>>
bootVars == <<vars, mouseVars, uiVars, pciVars, gpuVars, usbVars, acpiVars, ataVars, stage, reads>>

BootInit ==
    /\ Init /\ MouseInit /\ UiInit /\ PciInit /\ GpuInit /\ Usb!XhciInit /\ AcpiInit /\ AtaInit
    /\ \E m \in Machines :
          /\ supply = m.pages /\ device = m.mouse /\ information = m.information
          /\ slots = m.slots /\ hardware = m.usb /\ firmware = m.firmware /\ disk = m.disk
    /\ stage = "mouse" /\ reads = 0

\* What the step of one part leaves alone.
Only(part) ==
    /\ IF part = "paging" THEN TRUE ELSE UNCHANGED vars
    /\ IF part = "mouse" THEN TRUE ELSE UNCHANGED mouseVars
    /\ IF part = "ui" THEN TRUE ELSE UNCHANGED uiVars
    /\ IF part = "pci" THEN TRUE ELSE UNCHANGED pciVars
    /\ IF part = "gpu" THEN TRUE ELSE UNCHANGED gpuVars
    /\ IF part = "usb" THEN TRUE ELSE UNCHANGED usbVars
    /\ IF part = "acpi" THEN TRUE ELSE UNCHANGED acpiVars
    /\ IF part = "ata" THEN TRUE ELSE UNCHANGED <<ataVars, reads>>

-----------------------------------------------------------------------------
CallMouse == stage = "mouse" /\ mouse_init /\ stage' = "ui" /\ Only("mouse")
CallUi    == stage = "ui" /\ ui_init /\ stage' = "paging" /\ Only("ui")

PagingStep == \/ paging_init \/ CreateKernelSpace \/ Switch
              \/ PrepareSpace \/ PrepareImage \/ PrepareCode \/ PrepareStack
CallPaging == /\ stage = "paging"
              /\ PagingStep
              /\ stage' = IF pc' = "running" THEN "pci" ELSE stage
              /\ Only("paging")

CallPci == stage = "pci" /\ pci_init /\ stage' = "gpu" /\ Only("pci")
CallGpu == stage = "gpu" /\ gpu_init /\ stage' = "usb" /\ Only("gpu")

\* The USB driver's pages come from the allocator the page tables come from.
UsbFrame == /\ UNCHANGED <<table, cr3, ready, table_pages, runtime, space, process, pc>>
            /\ UNCHANGED <<mouseVars, uiVars, pciVars, gpuVars, acpiVars, ataVars, reads>>
CallUsb == /\ stage = "usb"
           /\ Usb!Driver
           /\ stage' = IF step' = "done" THEN "acpi" ELSE stage
           /\ UsbFrame

CallAcpi == /\ stage = "acpi"
            /\ acpi_init
            /\ stage' = IF Faults THEN "fault" ELSE "ata"
            /\ Only("acpi")

CallAta == /\ stage = "ata"
           /\ Identify \/ Poll
           /\ stage' = IF asked' = None THEN "disk" ELSE stage
           /\ UNCHANGED reads
           /\ Only("ata")

\* fat32_init and fat32_list_root: some sectors, in the end no more.
ReadSector == /\ stage = "disk" /\ reads < ReadLimit
              /\ \E lba \in Lbas : ata_read_sector(lba)
              /\ reads' = reads + 1
              /\ UNCHANGED stage /\ Only("ata")
WaitForSector == stage = "disk" /\ Poll /\ UNCHANGED <<reads, stage>> /\ Only("ata")
EnableInterrupts == stage = "disk" /\ asked = None /\ stage' = "running" /\ Only("nothing")

Kernel == \/ CallMouse \/ CallUi \/ CallPaging \/ CallPci \/ CallGpu \/ CallUsb
          \/ CallAcpi \/ CallAta \/ ReadSector \/ WaitForSector \/ EnableInterrupts

\* The devices, and what goes on in the main loop.
UsbController == Usb!Controller /\ UsbFrame /\ UNCHANGED stage
DiskDrive     == Drive /\ UNCHANGED <<reads, stage>> /\ Only("ata")
MouseRunning  == stage = "running" /\ MouseRuns /\ UNCHANGED stage /\ Only("mouse")
UserPage      == stage = "running" /\ paging_alloc_user_page /\ UNCHANGED stage /\ Only("paging")
Idle          == stage \in {"running", "fault"} /\ UNCHANGED bootVars

BootNext == Kernel \/ UsbController \/ DiskDrive \/ MouseRunning \/ UserPage \/ Idle

\* The kernel runs on; a prompt device does what it was told.
BootSpec == /\ BootInit /\ [][BootNext]_bootVars
            /\ WF_bootVars(Kernel)
            /\ WF_bootVars(UsbController /\ hardware.answers = "prompt")
            /\ WF_bootVars(DiskDrive /\ disk.prompt)

-----------------------------------------------------------------------------
\* Whatever the devices do or fail to do, and however little memory there is,
\* the kernel reaches its main loop: every wait ends, every missing part is
\* passed over.  (Tables outside the identity map stop it.)
BootFinishes == ~Faults => <>(stage = "running")

\* The display and the USB controller in use are the ones the bus scan was for,
\* through a table of bounded size and two kinds of lookup.
DriversFindDevices ==
    /\ stage \notin {"mouse", "ui", "paging", "pci", "gpu"} => DisplayIsFirst /\ TransportIsReal
    /\ stage \notin {"mouse", "ui", "paging", "pci", "gpu", "usb"} => Usb!UsbIsFirst

SlotsAgree == Usb!SlotsAgree
AddressAnswered == Usb!AddressAnswered
==============================================================================
