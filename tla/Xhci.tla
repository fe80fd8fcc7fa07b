-------------------------------- MODULE Xhci --------------------------------
(***************************************************************************)
(* The USB host controller driver, src/arch/x86_64/xhci.c: a straight line *)
(* from the PCI lookup to the first device's address, which polls a ring   *)
(* the controller writes meanwhile.                                        *)
(*                                                                         *)
(* The controller itself is external: the variable hardware says what this *)
(* one is like, and hc is its state.  It fetches commands at its own       *)
(* dequeue pointer, which only a Link TRB takes back, and stops posting    *)
(* events when the ring is full up to ERDP, which the driver leaves where  *)
(* it was.                                                                 *)
(***************************************************************************)
EXTENDS Pci

CONSTANTS
    MmioLimit,     \* end of the identity map
    RingSize,      \* entries of the event ring (256)
    UsbFunctions,  \* USB functions looked at (16)
    MaxSlots,      \* slots the controller has
    Null

VARIABLES
    supply, given, \* the page allocator's, see Paging
    hardware,      \* [valid, halts, resets : BOOLEAN, ports : Seq(kind), answers]
    controller,    \* xhci_info and the flags beside it
    dma,           \* pages asked for
    rings,         \* command ring, event ring and the driver's index into it
    hc,            \* the controller's state
    step           \* where the driver is

xhciVars == <<hardware, controller, dma, rings, hc, step>>

NoCommand == [owned |-> FALSE, command |-> Null]
NoEvent   == [cycle |-> FALSE, kind |-> Null, success |-> FALSE, slot |-> 0]

XhciInit ==
    /\ controller = [place |-> Absent, present |-> FALSE, ready |-> FALSE, rings_ready |-> FALSE,
                     active_port |-> 0, enabled_slot |-> 0, context_ready |-> FALSE,
                     address_ready |-> FALSE]
    /\ dma = <<>>
    /\ rings = [command |-> [i \in 0..1 |-> NoCommand],
                event |-> [i \in 0..(RingSize - 1) |-> NoEvent], index |-> 0]
    /\ hc = [dequeue |-> 0, enqueue |-> 0, doorbell |-> FALSE, port_events |-> 0, slots |-> {}]
    /\ step = "find"

-----------------------------------------------------------------------------
\* xhci_init
usable(entry) == memory_bar(entry) \in 1..(MmioLimit - 1) /\ hardware.valid

xhci_device ==
    LET found == { n \in 0..(UsbFunctions - 1) :
                      LET c == pci_find_class("usb", n) IN c # 0 /\ devices[c].interface = "xhci" }
    IN  IF found = {} THEN 0
        ELSE pci_find_class("usb", CHOOSE n \in found : \A k \in found : n <= k)

Find ==
    /\ step = "find"
    /\ IF xhci_device # 0 /\ usable(devices[xhci_device])
          THEN /\ controller' = [controller EXCEPT !.present = TRUE,
                                                   !.place = devices[xhci_device].place]
               /\ step' = "reset"
          ELSE step' = "done" /\ UNCHANGED controller
    /\ UNCHANGED <<supply, given, hardware, dma, rings, hc>>

\* Each wait is bounded; a controller that does not halt is not reset.
HaltAndReset ==
    /\ step = "reset"
    /\ LET done == hardware.halts /\ hardware.resets
       IN  /\ controller' = [controller EXCEPT !.ready = done]
           /\ step' = IF done THEN "alloc" ELSE "done"
    /\ UNCHANGED <<supply, given, hardware, dma, rings, hc>>

\* All pages of a group are asked for before any result is looked at.
alloc_page(last, next, failed) ==
    /\ given' = IF given < supply THEN given + 1 ELSE given
    /\ dma' = Append(dma, IF given < supply THEN given + 1 ELSE Null)
    /\ step' = IF Len(dma') < last THEN step
               ELSE IF \A i \in 1..last : dma'[i] # Null THEN next ELSE failed

AllocRings == /\ step = "alloc"
              /\ alloc_page(4, "rings", "done")
              /\ UNCHANGED <<supply, hardware, controller, rings, hc>>

connected == { p \in 1..Len(hardware.ports) : hardware.ports[p] # "empty" }

StartRings ==
    /\ step = "rings"
    /\ controller' = [controller EXCEPT !.rings_ready = TRUE]
    /\ hc' = [hc EXCEPT !.port_events = Cardinality(connected)]
    /\ step' = IF connected = {} THEN "done" ELSE "ports"
    /\ UNCHANGED <<supply, given, hardware, dma, rings>>

\* A reset ends with the port enabled, or disabled, or does not end in time.
xhci_reset_connected_ports ==
    /\ step = "ports"
    /\ LET works == { p \in connected : hardware.ports[p] = "works" }
           active == IF works = {} THEN 0 ELSE CHOOSE p \in works : \A q \in works : p <= q
           finished == { p \in connected : hardware.ports[p] # "stuck" /\ (works = {} \/ p <= active) }
       IN  /\ controller' = [controller EXCEPT !.active_port = active]
           /\ hc' = [hc EXCEPT !.port_events = @ + Cardinality(finished)]
           /\ step' = IF works = {} THEN "done" ELSE "slot"
    /\ UNCHANGED <<supply, given, hardware, dma, rings>>

-----------------------------------------------------------------------------
\* Commands go to the first entry of the ring, every time.
ring_command(command) ==
    /\ rings' = [rings EXCEPT !.command[0] = [owned |-> TRUE, command |-> command]]
    /\ hc' = [hc EXCEPT !.doorbell = TRUE]

xhci_enable_slot == /\ step = "slot"
                    /\ ring_command("enable_slot")
                    /\ step' = "enabling"
                    /\ UNCHANGED <<supply, given, hardware, controller, dma>>

xhci_address_device == /\ step = "address"
                       /\ ring_command("address_device")
                       /\ step' = "addressing"
                       /\ UNCHANGED <<supply, given, hardware, controller, dma>>

\* One turn of either polling loop that finds an event.
event == rings.event[rings.index]
is_completion_any(e) == TRUE \* mutant: the type of an event is not looked at
is_completion(e) == e.kind = "completion"

next_event ==
    /\ event.cycle
    /\ rings' = [rings EXCEPT !.event[rings.index].cycle = FALSE,
                              !.index = (rings.index + 1) % RingSize]

PollSlot ==
    /\ step = "enabling"
    /\ next_event
    /\ IF ~is_completion(event) THEN UNCHANGED <<controller, step>>
       ELSE IF event.success /\ event.slot \in 1..MaxSlots
            THEN /\ controller' = [controller EXCEPT !.enabled_slot = event.slot]
                 /\ step' = "context"
       ELSE step' = "done" /\ UNCHANGED controller
    /\ UNCHANGED <<supply, given, hardware, dma, hc>>

PollAddress ==
    /\ step = "addressing"
    /\ next_event
    /\ IF ~is_completion(event) THEN UNCHANGED <<controller, step>>
       ELSE /\ controller' = [controller EXCEPT !.address_ready =
                                  event.success /\ event.slot = controller.enabled_slot]
            /\ step' = "done"
    /\ UNCHANGED <<supply, given, hardware, dma, hc>>

room == (hc.enqueue + 1) % RingSize # 0
fetchable == rings.command[hc.dequeue].owned
working == room /\ (hc.port_events > 0 \/ (hc.doorbell /\ fetchable))

\* XHCI_WAIT_LIMIT: a prompt controller has finished by then what it can do.
limit_reached == hardware.answers = "prompt" => ~event.cycle /\ ~working

GiveUpSlot_never == \* mutant: the loop has no limit
    /\ step = "enabling" /\ limit_reached
    /\ UNCHANGED <<supply, given, hardware, controller, dma, rings, hc, step>>

GiveUpSlot ==
    /\ step = "enabling" /\ limit_reached
    /\ step' = "done"
    /\ UNCHANGED <<supply, given, hardware, controller, dma, rings, hc>>

GiveUpAddress ==
    /\ step = "addressing" /\ limit_reached
    /\ step' = "done"
    /\ UNCHANGED <<supply, given, hardware, controller, dma, rings, hc>>

xhci_prepare_device_context ==
    /\ step = "context"
    /\ alloc_page(7, "address", "done")
    /\ controller' = [controller EXCEPT !.context_ready = (step' = "address")]
    /\ UNCHANGED <<supply, hardware, rings, hc>>

-----------------------------------------------------------------------------
\* The controller (external).
post(e) == /\ room
           /\ rings' = [rings EXCEPT !.event[hc.enqueue] = e]
           /\ UNCHANGED <<supply, given, hardware, controller, dma, step>>

PostPortEvent ==
    /\ hc.port_events > 0
    /\ post([cycle |-> TRUE, kind |-> "port", success |-> TRUE, slot |-> 0])
    /\ hc' = [hc EXCEPT !.port_events = @ - 1, !.enqueue = @ + 1]

\* The slot it grants; a faulty one names a slot it does not have.
granted == IF hardware.answers = "refuses" THEN 0
           ELSE IF hardware.answers = "faulty" THEN MaxSlots + 1 ELSE 1

ExecuteCommand ==
    /\ hc.doorbell /\ fetchable /\ hardware.answers # "never"
    /\ post([cycle |-> TRUE, kind |-> "completion", success |-> granted # 0, slot |-> granted])
    /\ hc' = [hc EXCEPT !.dequeue = @ + 1, !.enqueue = @ + 1, !.slots = {granted} \ {0}]

StopFetching ==
    /\ hc.doorbell /\ ~fetchable
    /\ hc' = [hc EXCEPT !.doorbell = FALSE]
    /\ UNCHANGED <<supply, given, hardware, controller, dma, rings, step>>

Driver == \/ Find \/ HaltAndReset \/ AllocRings \/ StartRings \/ xhci_reset_connected_ports
          \/ xhci_enable_slot \/ PollSlot \/ xhci_prepare_device_context
          \/ xhci_address_device \/ PollAddress \/ GiveUpSlot \/ GiveUpAddress
Controller == PostPortEvent \/ ExecuteCommand \/ StopFetching

XhciSpec == XhciInit /\ [][Driver \/ Controller]_xhciVars

-----------------------------------------------------------------------------
\* The driver takes the first xHCI function in the table, if its registers are
\* where the kernel can reach them, and no other USB function.  It looks at the
\* first USB functions only: behind these an xHCI function is not found.
UsbIsFirst ==
    LET usb == { p \in InTable : header(p).class = "usb" }
        looked_at == { p \in usb : Cardinality({ q \in usb : Before(q, p) }) < UsbFunctions }
        first == FirstOf({ p \in looked_at : header(p).interface = "xhci" })
    IN  step # "find" =>
            /\ controller.present <=> first # Absent /\ usable(header(first))
            /\ controller.present => controller.place = first

\* Driver and controller agree on the slot: what the driver took for a slot is
\* one the controller enabled, whatever else was posted before, and a slot a
\* prompt controller enabled is not left unused.
SlotsAgree ==
    /\ controller.enabled_slot # 0 => controller.enabled_slot \in hc.slots
    /\ hardware.answers = "prompt" /\ step = "done" => hc.slots = {controller.enabled_slot} \ {0}

\* "xhci: address-device command failed or timed out": a device behind a
\* controller that answers every command in time gets its address.
AddressAnswered ==
    hardware.answers = "prompt" /\ step = "done" /\ controller.context_ready
        => controller.address_ready
==============================================================================
