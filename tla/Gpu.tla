--------------------------------- MODULE Gpu ---------------------------------
(***************************************************************************)
(* The display driver, src/arch/x86_64/gpu.c: which PCI function it takes  *)
(* for the display, and whether a virtio display has what its transport    *)
(* needs.  The counting of frames is left out.                              *)
(***************************************************************************)
EXTENDS Pci

CONSTANTS VirtioCap, \* PCI_CAPABILITY_VIRTIO
          Common, Notify, Device \* types of virtio capabilities

ASSUME VirtioAssumption == VirtioCap # 0

VARIABLES display \* gpu_info(); its place is Absent when there is none

gpuVars == <<display>>

NoDisplay == [place |-> Absent, kind |-> "none", mmio_base |-> 0, virtio_transport_ready |-> FALSE]
GpuInit == display = NoDisplay

\* The first VGA controller, or else the first virtio display, or else the
\* first 3D controller.
candidate ==
    LET vga == pci_find_class("vga", 0)
        virtio == first_index({ i \in 1..Len(devices) : devices[i].virtio_gpu })
        accelerator == pci_find_class("3d", 0)
    IN  IF vga # 0 THEN [index |-> vga, kind |-> "display"]
        ELSE IF virtio # 0 THEN [index |-> virtio, kind |-> "virtio"]
        ELSE [index |-> accelerator, kind |-> "acceleration"]

transport_ready(entry) ==
    \A type \in {Common, Notify, Device} :
        \E c \in entry.capabilities : c.id = VirtioCap /\ c.type = type

gpu_init ==
    LET entry == devices[candidate.index]
    IN  display' = IF candidate.index = 0 THEN NoDisplay
                   ELSE [place |-> entry.place, kind |-> candidate.kind,
                         mmio_base |-> memory_bar(entry),
                         virtio_transport_ready |->
                             candidate.kind = "virtio" /\ transport_ready(entry)]

-----------------------------------------------------------------------------
\* The display is the function the machine has for it, whatever else answers
\* on the bus: the first VGA controller of the table, or the first substitute.
OfClass(class) == { p \in InTable : header(p).class = class }
Virtio == { p \in InTable : header(p).virtio_gpu }
DisplayIsFirst ==
    display.place = FirstOf(IF OfClass("vga") # {} THEN OfClass("vga")
                            ELSE IF Virtio # {} THEN Virtio ELSE OfClass("3d"))

\* The capabilities a function has: those its chain reaches, each behind the
\* one before, and no more than the table holds.
Reaches(function, n) == { s \in [1..n -> DOMAIN function.config] :
    /\ n > 0 => s[1] = function.first_cap
    /\ \A i \in 1..n : s[i] \in FirstCap..LastCap
    /\ \A i \in 1..(n - 1) : s[i + 1] = function.config[s[i]].next /\ s[i + 1] > s[i] }
TransportIsReal ==
    display.kind = "virtio" =>
        LET f == header(display.place)
            has(type) == f.header_type = 0 /\ \E n \in 1..PCI_MAX_CAPABILITIES : \E s \in Reaches(f, n) :
                            \E i \in 1..n : /\ f.config[s[i]].id = VirtioCap
                                            /\ f.config[s[i]].type = type
        IN  display.virtio_transport_ready <=> has(Common) /\ has(Notify) /\ has(Device)
==============================================================================
