-------------------------------- MODULE Mouse --------------------------------
(***************************************************************************)
(* The mouse driver, src/arch/x86_64/mouse.c: the enabling of the device   *)
(* through the keyboard controller's one output byte, and the assembly of  *)
(* packets of three bytes, of which some may be lost on the way (the       *)
(* keyboard's handler reads the same port).                                *)
(*                                                                         *)
(* Packets that move by more than 127 are left out: the driver takes the   *)
(* movement bytes for signed ones and does not look at the sign bits.      *)
(***************************************************************************)
EXTENDS Integers, Sequences

CONSTANTS
    Moves,                \* movements of a packet
    Buttons,              \* button states of a packet
    MOUSE_MAX_COORDINATE,
    NoPacket

ASSUME MoveAssumption == Moves \subseteq -127..127 /\ Buttons \subseteq 0..7
ASSUME CoordinateAssumption == MOUSE_MAX_COORDINATE \in Nat
ASSUME NoPacketAssumption == NoPacket \notin [dx : Moves, dy : Moves, buttons : Buttons]

VARIABLES
    device,               \* [controller, aux, stale]: there is a controller, and a
                          \* mouse behind it; a byte waits at boot
    initialized, present,
    packet,               \* bytes of the packet so far; packet_index is its length
    cursor_x, cursor_y, button_state,
    current, sent,        \* the device's packet, and how many bytes of it are gone
    in_step,              \* history: "no", "maybe" since a packet's start, or "yes"
    expected                \* history: where the packets lead since then

mouseVars == <<device, initialized, present, packet, cursor_x, cursor_y, button_state,
               current, sent, in_step, expected>>

cursor == [x |-> cursor_x, y |-> cursor_y, buttons |-> button_state]

Origin == [x |-> 0, y |-> 0, buttons |-> 0]

MouseInit == /\ initialized = FALSE /\ present = FALSE
             /\ packet = <<>>
             /\ cursor_x = 0 /\ cursor_y = 0 /\ button_state = 0
             /\ current = NoPacket /\ sent = 0
             /\ in_step = "yes" /\ expected = Origin

-----------------------------------------------------------------------------
\* mouse_init.  Every wait is bounded: one for a controller that is not there
\* ends without.  A byte already in the output buffer is taken for the answer to
\* the first command, and the answer for that to the next.
enable_auxiliary_irq == device.controller
send_mouse_command   == device.controller /\ device.aux /\ ~device.stale

mouse_init ==
    /\ ~initialized
    /\ initialized' = TRUE
    /\ present' = (enable_auxiliary_irq /\ send_mouse_command)
    /\ UNCHANGED <<device, packet, cursor_x, cursor_y, button_state, current, sent, in_step, expected>>

\* The bytes of a packet, and a byte read as signed.
byte(v) == v % 256
header_bits(p) == 8 + p.buttons + (IF p.dx < 0 THEN 16 ELSE 0) + (IF p.dy < 0 THEN 32 ELSE 0)
bytes(p) == <<header_bits(p), byte(p.dx), byte(p.dy)>>
int8(b) == IF b >= 128 THEN b - 256 ELSE b
bit3(b) == (b \div 8) % 2 = 1

clamp(v) == IF v < 0 THEN 0 ELSE IF v > MOUSE_MAX_COORDINATE THEN MOUSE_MAX_COORDINATE ELSE v

rejected_never(value) == FALSE \* mutant: no resynchronisation
rejected(value) == packet = <<>> /\ ~bit3(value)

mouse_interrupt(value) ==
    IF ~present \/ rejected(value) THEN UNCHANGED <<packet, cursor_x, cursor_y, button_state>>
    ELSE IF Len(packet) < 2
         THEN packet' = Append(packet, value) /\ UNCHANGED <<cursor_x, cursor_y, button_state>>
    ELSE /\ packet' = <<>>
         /\ cursor_x' = clamp(cursor_x + int8(packet[2]))
         /\ cursor_y' = clamp(cursor_y - int8(value))
         /\ button_state' = packet[1] % 8

-----------------------------------------------------------------------------
\* The device (external): it moves, and its bytes arrive in order or are lost.
moved(p) == [x |-> clamp(expected.x + p.dx), y |-> clamp(expected.y - p.dy), buttons |-> p.buttons]

Move == /\ present
        /\ current = NoPacket
        /\ \E p \in [dx : Moves, dy : Moves, buttons : Buttons] :
              /\ current' = p
              /\ expected' = IF in_step = "yes" THEN moved(p) ELSE expected
        /\ sent' = 0
        /\ in_step' = IF in_step = "yes" THEN "yes" ELSE "maybe"
        /\ UNCHANGED <<device, initialized, present, packet, cursor_x, cursor_y, button_state>>

gone == /\ sent' = IF sent = 2 THEN 0 ELSE sent + 1
        /\ current' = IF sent = 2 THEN NoPacket ELSE current
        /\ UNCHANGED <<device, initialized, present>>

\* A packet that arrives whole, without bit 3 in its movement bytes, puts the
\* driver in step wherever it was.
quiet == ~bit3(bytes(current)[2]) /\ ~bit3(bytes(current)[3])

Arrive ==
    /\ current # NoPacket
    /\ mouse_interrupt(bytes(current)[sent + 1])
    /\ gone
    /\ IF in_step = "maybe" /\ sent = 2 /\ quiet
          THEN in_step' = "yes" /\ expected' = cursor'
          ELSE UNCHANGED <<in_step, expected>>

LoseByte ==
    /\ current # NoPacket
    /\ gone
    /\ in_step' = "no" /\ expected' = Origin
    /\ UNCHANGED <<packet, cursor_x, cursor_y, button_state>>

MouseRuns == Move \/ Arrive \/ LoseByte
MouseSpec == /\ MouseInit /\ device \in [controller : BOOLEAN, aux : BOOLEAN, stale : BOOLEAN]
             /\ [][mouse_init \/ MouseRuns]_mouseVars

-----------------------------------------------------------------------------
\* Between packets the cursor and the buttons are where the device's packets
\* lead.  A lost byte ends that; the next packet that is whole and quiet
\* restores it, whatever was taken for what in between.
CursorFollows == in_step = "yes" /\ current = NoPacket => cursor = expected
==============================================================================
