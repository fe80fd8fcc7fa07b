----------------------------- MODULE Boot_proofs -----------------------------
(***************************************************************************)
(* Theorems about the boot sequence and the drivers it starts, for every   *)
(* machine: mouse, framebuffer, PCI and display, USB controller, ACPI      *)
(* tables and disk.  Each driver's part can be read by itself; the last    *)
(* part puts them together.                                                *)
(***************************************************************************)
EXTENDS Boot, Paging_proofs, SequenceTheorems, WellFoundedInduction

\* A set of numbers has a least element.
LEMMA LeastElement ==
    ASSUME NEW S \in SUBSET Nat, S # {}
    PROVE  \E m \in S : \A n \in S : m <= n
<1> DEFINE Less == { p \in Nat \X Nat : p[1] < p[2] }
<1>1. IsWellFoundedOn(Less, Nat)
  BY NatLessThanWellFounded DEF OpToRel
<1>2. \A m, n \in S : <<n, m>> \in Less <=> n < m
  OBVIOUS
<1>3. PICK m \in S : \A n \in S : <<n, m>> \notin Less
  <2> HIDE DEF Less
  <2> QED
    BY <1>1, WFMin
<1>4. ASSUME NEW n \in S PROVE m <= n
  <2>1. ~(n < m)
    BY <1>2, <1>3
  <2> QED
    BY <2>1
<1> QED
  BY <1>4

-----------------------------------------------------------------------------
(***************************************************************************)
(* The mouse driver: the cursor follows the packets, for every set of      *)
(* movements and buttons and every size of the screen.                     *)
(***************************************************************************)

Packets == [dx : Moves, dy : Moves, buttons : Buttons]

MouseType ==
    /\ present => initialized
    /\ packet \in Seq(Int) /\ Len(packet) \in {0, 1, 2}
    /\ cursor_x \in Int /\ cursor_y \in Int
    /\ current \in Packets \cup {NoPacket}
    /\ sent \in 0..2
    /\ current = NoPacket => sent = 0
    /\ current # NoPacket => present
    /\ in_step \in {"no", "maybe", "yes"}

(***************************************************************************)
(* The inductive invariant.  In step, the driver holds exactly the bytes   *)
(* sent of the current packet.  When it may be in step, it holds any       *)
(* number of bytes, but not one byte before the last one of a quiet        *)
(* packet: whichever number it started with, the quiet bytes complete its  *)
(* packet or are rejected, and it ends with none.                          *)
(***************************************************************************)
led(p) == [x |-> clamp(cursor_x + p.dx), y |-> clamp(cursor_y - p.dy), buttons |-> p.buttons]

InStep ==
    in_step = "yes" =>
       /\ Len(packet) = sent
       /\ current = NoPacket => cursor = expected
       /\ current # NoPacket => /\ expected = led(current)
                                /\ \A i \in 1..sent : packet[i] = bytes(current)[i]

MayBeInStep ==
    (in_step = "maybe" /\ current # NoPacket /\ sent = 2 /\ ~bit3(bytes(current)[2])) =>
       Len(packet) # 1

MouseIInv == MouseType /\ InStep /\ MayBeInStep

-----------------------------------------------------------------------------
\* What is sent of a packet is what the driver reads from it.
LEMMA BytesRead ==
    ASSUME NEW p \in Packets
    PROVE  /\ \A i \in 1..3 : bytes(p)[i] \in Int
           /\ bit3(bytes(p)[1])
           /\ bytes(p)[1] % 8 = p.buttons
           /\ int8(bytes(p)[2]) = p.dx
           /\ int8(bytes(p)[3]) = p.dy
<1>1. p.dx \in -127..127 /\ p.dy \in -127..127 /\ p.buttons \in 0..7
  BY MoveAssumption DEF Packets
<1>2. bytes(p)[1] = header_bits(p) /\ bytes(p)[2] = byte(p.dx) /\ bytes(p)[3] = byte(p.dy)
  BY DEF bytes
<1>3. header_bits(p) \in {8 + p.buttons, 24 + p.buttons, 40 + p.buttons, 56 + p.buttons}
  BY <1>1 DEF header_bits
<1>4. header_bits(p) \in Int /\ bit3(header_bits(p)) /\ header_bits(p) % 8 = p.buttons
  BY <1>1, <1>3 DEF bit3
<1>5. byte(p.dx) \in Int /\ int8(byte(p.dx)) = p.dx /\ byte(p.dy) \in Int /\ int8(byte(p.dy)) = p.dy
  BY <1>1 DEF byte, int8
<1>6. ASSUME NEW i \in 1..3 PROVE bytes(p)[i] \in Int
  <2>1. i = 1 \/ i = 2 \/ i = 3
    OBVIOUS
  <2> QED
    BY <1>2, <1>4, <1>5, <2>1
<1> QED
  BY <1>2, <1>4, <1>5, <1>6

LEMMA ClampType ==
    ASSUME NEW v \in Int PROVE clamp(v) \in Int
BY CoordinateAssumption DEF clamp

LEMMA Int8Type ==
    ASSUME NEW b \in Int PROVE int8(b) \in Int
BY DEF int8

LEMMA MouseInitIInv == MouseInit => MouseIInv
BY DEF MouseInit, MouseIInv, MouseType, InStep, MayBeInStep, cursor, Origin

\* What a byte does to the packet and the cursor.
LEMMA InterruptSteps ==
    ASSUME MouseType, present, NEW value \in Int, mouse_interrupt(value)
    PROVE  /\ packet' \in Seq(Int) /\ Len(packet') \in 0..2
           /\ cursor_x' \in Int /\ cursor_y' \in Int
           /\ Len(packet) = 0 /\ ~bit3(value) => Len(packet') = 0
           /\ Len(packet) = 1 => Len(packet') = 2
           /\ Len(packet) = 2 => Len(packet') = 0
<1>1. Len(packet) = 0 <=> packet = <<>>
  BY DEF MouseType
<1>2. CASE rejected(value)
  BY <1>1, <1>2 DEF mouse_interrupt, rejected, MouseType
<1>3. CASE ~rejected(value) /\ Len(packet) < 2
  <2>1. packet' = Append(packet, value) /\ UNCHANGED <<cursor_x, cursor_y>>
    BY <1>3 DEF mouse_interrupt
  <2>2. packet' \in Seq(Int) /\ Len(packet') = Len(packet) + 1
    BY <2>1 DEF MouseType
  <2> QED
    BY <1>1, <1>3, <2>1, <2>2 DEF MouseType, rejected
<1>4. CASE ~rejected(value) /\ ~(Len(packet) < 2)
  <2>1. /\ packet' = <<>>
        /\ cursor_x' = clamp(cursor_x + int8(packet[2]))
        /\ cursor_y' = clamp(cursor_y - int8(value))
    BY <1>4 DEF mouse_interrupt
  <2>2. Len(packet) = 2 /\ packet \in Seq(Int)
    <3>1. packet \in Seq(Int)
      BY DEF MouseType
    <3>2. Len(packet) \in {0, 1, 2} /\ ~(Len(packet) < 2)
      BY <1>4, Zenon DEF MouseType
    <3>3. \A n \in {0, 1, 2} : n < 2 \/ n = 2
      OBVIOUS
    <3>4. Len(packet) = 2
      BY <3>2, <3>3, Zenon
    <3> QED
      BY <3>1, <3>4
  <2>3. cursor_x' \in Int /\ cursor_y' \in Int
    <3>1. packet[2] \in Int
      <4>1. 2 \in 1..Len(packet)
        BY <2>2
      <4> QED
        BY <2>2, <4>1, ElementOfSeq, Zenon
    <3>2. int8(packet[2]) \in Int /\ int8(value) \in Int
      BY <3>1, Int8Type
    <3>3. cursor_x + int8(packet[2]) \in Int /\ cursor_y - int8(value) \in Int
      BY <3>2 DEF MouseType
    <3> QED
      BY <2>1, <3>3, ClampType
  <2>4. packet' \in Seq(Int) /\ Len(packet') = 0
    BY <2>1
  <2> QED
    BY <2>2, <2>3, <2>4
<1> QED
  BY <1>2, <1>3, <1>4

-----------------------------------------------------------------------------
LEMMA MouseMoveIInv == MouseIInv /\ Move => MouseIInv'
<1> SUFFICES ASSUME MouseIInv, Move PROVE MouseIInv'
  OBVIOUS
<1>1. PICK p \in Packets :
         /\ current' = p
         /\ expected' = IF in_step = "yes" THEN moved(p) ELSE expected
  BY DEF Move, Packets
<1>2. /\ present /\ current = NoPacket /\ sent' = 0
      /\ in_step' = IF in_step = "yes" THEN "yes" ELSE "maybe"
      /\ UNCHANGED <<device, initialized, present, packet, cursor_x, cursor_y, button_state>>
  BY DEF Move
<1>3. p # NoPacket
  BY NoPacketAssumption DEF Packets
<1>4. MouseType'
  BY <1>1, <1>2, <1>3 DEF MouseIInv, MouseType
<1>5. InStep'
  <2> SUFFICES ASSUME in_step' = "yes"
               PROVE  Len(packet) = 0 /\ expected' = led(p)'
    BY <1>1, <1>2, <1>3 DEF InStep
  <2>1. in_step = "yes"
    BY <1>2
  <2>2. Len(packet) = sent /\ cursor = expected
    BY <1>2, <2>1 DEF MouseIInv, InStep
  <2>3. expected' = moved(p) /\ led(p)' = led(p)
    BY <1>1, <1>2, <2>1 DEF led
  <2>4. expected.x = cursor_x /\ expected.y = cursor_y
    BY <2>2 DEF cursor
  <2> QED
    BY <1>2, <2>2, <2>3, <2>4 DEF moved, led, MouseIInv, MouseType
<1>6. MayBeInStep'
  BY <1>2 DEF MayBeInStep
<1> QED
  BY <1>4, <1>5, <1>6 DEF MouseIInv

LEMMA MouseArriveIInv == MouseIInv /\ Arrive => MouseIInv'
<1> SUFFICES ASSUME MouseIInv, Arrive PROVE MouseIInv'
  OBVIOUS
<1> DEFINE value == bytes(current)[sent + 1]
<1>1. /\ current # NoPacket /\ current \in Packets /\ sent \in 0..2 /\ present
      /\ mouse_interrupt(value)
  BY DEF Arrive, MouseIInv, MouseType
<1>2. /\ sent' = IF sent = 2 THEN 0 ELSE sent + 1
      /\ current' = IF sent = 2 THEN NoPacket ELSE current
      /\ UNCHANGED <<device, initialized, present>>
  BY DEF Arrive, gone
<1>3. IF in_step = "maybe" /\ sent = 2 /\ quiet
         THEN in_step' = "yes" /\ expected' = cursor'
         ELSE UNCHANGED <<in_step, expected>>
  BY DEF Arrive
<1>4. value \in Int
  <2>1. sent + 1 \in 1..3
    BY <1>1
  <2> QED
    BY <1>1, <2>1, BytesRead
<1> HIDE DEF value
<1>5. /\ packet' \in Seq(Int) /\ Len(packet') \in 0..2
      /\ cursor_x' \in Int /\ cursor_y' \in Int
      /\ Len(packet) = 0 /\ ~bit3(value) => Len(packet') = 0
      /\ Len(packet) = 1 => Len(packet') = 2
      /\ Len(packet) = 2 => Len(packet') = 0
  BY <1>1, <1>4, InterruptSteps DEF MouseIInv
<1>6. MouseType'
  <2>1. sent' \in 0..2 /\ (current' = NoPacket => sent' = 0)
    BY <1>1, <1>2
  <2>2. in_step' \in {"no", "maybe", "yes"}
    BY <1>3 DEF MouseIInv, MouseType
  <2> QED
    BY <1>1, <1>2, <1>5, <2>1, <2>2 DEF MouseIInv, MouseType
<1>7. MayBeInStep'
  <2> SUFFICES ASSUME in_step' = "maybe", current' # NoPacket, sent' = 2,
                      ~bit3(bytes(current')[2])
               PROVE  Len(packet') # 1
    BY DEF MayBeInStep
  <2>1. sent = 1 /\ current' = current /\ value = bytes(current)[2]
    BY <1>1, <1>2 DEF value
  <2>2. Len(packet) \in 0..2
    BY DEF MouseIInv, MouseType
  <2>3. ~bit3(value)
    BY <2>1
  <2>4. Len(packet) = 0 \/ Len(packet) = 1 \/ Len(packet) = 2
    BY <2>2
  <2>5. CASE Len(packet) = 0
    <3>1. Len(packet') = 0
      BY <1>5, <2>3, <2>5, Zenon
    <3> QED
      BY <3>1
  <2>6. CASE Len(packet) = 1
    <3>1. Len(packet') = 2
      BY <1>5, <2>6, Zenon
    <3> QED
      BY <3>1
  <2>7. CASE Len(packet) = 2
    <3>1. Len(packet') = 0
      BY <1>5, <2>7, Zenon
    <3> QED
      BY <3>1
  <2> QED
    BY <2>4, <2>5, <2>6, <2>7
<1>8. InStep'
  <2>1. CASE in_step = "yes"
    <3>1. in_step' = "yes" /\ expected' = expected
      BY <1>3, <2>1
    <3>2. /\ Len(packet) = sent /\ expected = led(current)
          /\ \A i \in 1..sent : packet[i] = bytes(current)[i]
      BY <1>1, <2>1 DEF MouseIInv, InStep
    <3>3. ~rejected(value)
      <4>1. sent = 0 => bit3(value)
        BY <1>1, BytesRead DEF value
      <4>2. packet = <<>> => sent = 0
        BY <3>2
      <4> QED
        BY <4>1, <4>2 DEF rejected
    <3>4. CASE sent # 2
      <4>1. /\ packet' = Append(packet, value)
            /\ UNCHANGED <<cursor_x, cursor_y, button_state>>
        BY <1>1, <3>2, <3>3, <3>4 DEF mouse_interrupt
      <4>2. sent' = sent + 1 /\ current' = current /\ current' # NoPacket
        BY <1>1, <1>2, <3>4
      <4>3. Len(packet') = sent' /\ \A i \in 1..sent' : packet'[i] = bytes(current)[i]
        <5>1. packet \in Seq(Int)
          BY DEF MouseIInv, MouseType
        <5>2. /\ Len(packet') = sent + 1
              /\ \A i \in 1..sent + 1 : packet'[i] = IF i = sent + 1 THEN value ELSE packet[i]
          BY <1>1, <1>4, <3>2, <4>1, <5>1
        <5> QED
          BY <1>1, <3>2, <4>2, <5>2 DEF value
      <4>4. led(current)' = led(current)
        BY <4>1, <4>2 DEF led
      <4> QED
        BY <3>1, <3>2, <4>2, <4>3, <4>4 DEF InStep
    <3>5. CASE sent = 2
      <4>1. /\ packet' = <<>>
            /\ cursor_x' = clamp(cursor_x + int8(packet[2]))
            /\ cursor_y' = clamp(cursor_y - int8(value))
            /\ button_state' = packet[1] % 8
        BY <1>1, <3>2, <3>3, <3>5 DEF mouse_interrupt
      <4>2. /\ packet[1] = bytes(current)[1] /\ packet[2] = bytes(current)[2]
            /\ value = bytes(current)[3]
        BY <3>2, <3>5 DEF value
      <4>3. cursor' = led(current)
        BY <1>1, <4>1, <4>2, BytesRead DEF cursor, led
      <4>4. sent' = 0 /\ current' = NoPacket /\ Len(packet') = 0
        BY <1>2, <3>5, <4>1
      <4> QED
        BY <3>1, <3>2, <4>3, <4>4 DEF InStep
    <3> QED
      BY <3>4, <3>5
  <2>2. CASE in_step = "maybe" /\ sent = 2 /\ quiet
    <3>1. expected' = cursor' /\ sent' = 0 /\ current' = NoPacket
      BY <1>2, <1>3, <2>2
    <3>2. ~bit3(bytes(current)[2]) /\ ~bit3(value)
      BY <2>2 DEF quiet, value
    <3>3. Len(packet) \in {0, 2}
      BY <1>1, <2>2, <3>2 DEF MouseIInv, MouseType, MayBeInStep
    <3>4. Len(packet') = 0
      BY <1>5, <3>2, <3>3
    <3> QED
      BY <3>1, <3>4 DEF InStep
  <2>3. CASE in_step # "yes" /\ ~(in_step = "maybe" /\ sent = 2 /\ quiet)
    BY <1>3, <2>3 DEF InStep
  <2> QED
    BY <2>1, <2>2, <2>3
<1> QED
  BY <1>6, <1>7, <1>8 DEF MouseIInv

LEMMA MouseNextIInv == MouseIInv /\ [mouse_init \/ MouseRuns]_mouseVars => MouseIInv'
<1> SUFFICES ASSUME MouseIInv, [mouse_init \/ MouseRuns]_mouseVars PROVE MouseIInv'
  OBVIOUS
<1>1. CASE UNCHANGED mouseVars
  BY <1>1 DEF mouseVars, MouseIInv, MouseType, InStep, MayBeInStep, cursor, led
<1>2. CASE mouse_init
  BY <1>2 DEF mouse_init, MouseIInv, MouseType, InStep, MayBeInStep, cursor, led
<1>3. CASE Move
  BY <1>3, MouseMoveIInv
<1>4. CASE Arrive
  BY <1>4, MouseArriveIInv
<1>5. CASE LoseByte
  BY <1>5 DEF LoseByte, gone, MouseIInv, MouseType, InStep, MayBeInStep
<1> QED
  BY <1>1, <1>2, <1>3, <1>4, <1>5 DEF MouseRuns

\* The cursor and the buttons follow the packets the device sends; after a lost
\* byte they do so again from the next whole packet without bit 3 in its
\* movement bytes, whatever mouse_interrupt had assembled in between.
THEOREM CursorFollowsPackets == MouseSpec => []CursorFollows
<1>1. MouseIInv => CursorFollows
  BY DEF MouseIInv, InStep, CursorFollows
<1> QED
  BY <1>1, MouseInitIInv, MouseNextIInv, PTL DEF MouseSpec

-----------------------------------------------------------------------------
(***************************************************************************)
(* The disk driver, for every set of sectors and every drive.              *)
(***************************************************************************)

(***************************************************************************)
(* The inductive invariant: as long as no call has failed, the drive has   *)
(* nothing to do between calls, and during one it has either not noticed   *)
(* the command yet or works on that very command.  This is why a status    *)
(* read too early does no harm: it shows a drive at rest.                  *)
(***************************************************************************)
AtaCommands == Lbas \cup {IdentifyData}

AtRest == ~drive.busy /\ ~drive.drq /\ ~drive.err

DriveAnswers == asked # None =>
                \/ drive.pending = asked /\ AtRest
                \/ drive.pending = None /\ drive.data = asked

AtaIInv ==
    /\ asked \in AtaCommands \cup {None}
    /\ drive \in [pending : AtaCommands \cup {None}, busy : BOOLEAN, drq : BOOLEAN,
                  err : BOOLEAN, data : AtaCommands \cup {None}]
    /\ ~trouble => /\ asked = None => drive.pending = None /\ AtRest
                   /\ DriveAnswers
    /\ SectorAsAsked

LEMMA AtaInitIInv == AtaInit => AtaIInv
BY DEF AtaInit, AtaIInv, Quiet, AtRest, DriveAnswers, SectorAsAsked, NoResult, Outcome

LEMMA TakenType ==
    ASSUME NEW command \in AtaCommands
    PROVE  taken(command) \in [pending : AtaCommands \cup {None}, busy : BOOLEAN, drq : BOOLEAN,
                               err : BOOLEAN, data : AtaCommands \cup {None}]
BY DEF taken

LEMMA AtaNextIInv == AtaIInv /\ [AtaNext]_ataVars => AtaIInv'
<1> SUFFICES ASSUME AtaIInv, [AtaNext]_ataVars PROVE AtaIInv'
  OBVIOUS
<1> USE DEF AtaIInv
<1>1. CASE UNCHANGED ataVars
  BY <1>1 DEF ataVars, AtRest, DriveAnswers, SectorAsAsked
<1>2. CASE Identify
  <2>1. CASE disk.exists = "drive"
    <3>1. asked' = IdentifyData /\ drive' = taken(IdentifyData) /\ UNCHANGED <<result, trouble>>
      BY <1>2, <2>1 DEF Identify
    <3>2. drive'.pending = None /\ drive'.data = IdentifyData
      BY <3>1 DEF taken
    <3>3. asked' # None
      BY <3>1, NoneAssumption
    <3> QED
      BY <3>1, <3>2, <3>3, TakenType DEF AtaCommands, DriveAnswers, SectorAsAsked
  <2>2. CASE disk.exists # "drive"
    BY <1>2, <2>2 DEF Identify, Error, Outcome, AtRest, DriveAnswers, SectorAsAsked
  <2> QED
    BY <2>1, <2>2
<1>3. ASSUME NEW lba \in Lbas, ata_read_sector(lba) PROVE AtaIInv'
  <2>1. CASE lba \in TooLarge
    BY <1>3, <2>1 DEF ata_read_sector, Error, Outcome, AtRest, DriveAnswers, SectorAsAsked
  <2>2. CASE lba \notin TooLarge
    <3>1. /\ asked = None /\ asked' = lba /\ result' = NoResult /\ trouble' = trouble
          /\ drive' = [drive EXCEPT !.pending = lba]
      BY <1>3, <2>2 DEF ata_read_sector
    <3>2. drive' \in [pending : AtaCommands \cup {None}, busy : BOOLEAN, drq : BOOLEAN,
                      err : BOOLEAN, data : AtaCommands \cup {None}]
      BY <3>1 DEF AtaCommands
    <3>3. asked' # None /\ drive'.pending = asked' /\ (~trouble => AtRest')
      BY <3>1, NoneAssumption DEF AtRest
    <3>4. SectorAsAsked'
      BY <3>1 DEF SectorAsAsked, NoResult, Outcome
    <3> QED
      BY <3>1, <3>2, <3>3, <3>4 DEF AtaCommands, DriveAnswers
  <2> QED
    BY <2>1, <2>2
<1>4. CASE SeesError \/ GiveUp
  BY <1>4 DEF SeesError, GiveUp, Error, Outcome, SectorAsAsked
<1>5. CASE SeesData
  <2>1. /\ asked # None /\ asked' = None /\ trouble' = trouble
        /\ ~drive.err /\ ~drive.busy /\ drive.drq
        /\ drive' = [drive EXCEPT !.drq = FALSE]
        /\ result' = Outcome("ok", asked, drive.data)
    BY <1>5 DEF SeesData, transfer
  <2>2. ~trouble => drive.pending = None /\ drive.data = asked
    BY <2>1 DEF DriveAnswers, AtRest
  <2>3. SectorAsAsked'
    BY <2>1, <2>2 DEF SectorAsAsked, Outcome
  <2> QED
    BY <2>1, <2>2, <2>3 DEF AtRest, DriveAnswers
<1>6. CASE Accept
  <2>1. /\ drive.pending # None /\ UNCHANGED <<asked, result, trouble>>
        /\ drive' = IF drive.busy \/ drive.drq THEN [drive EXCEPT !.pending = None]
                    ELSE taken(drive.pending)
    BY <1>6 DEF Accept, DriveUnchanged
  <2>2. drive.pending \in AtaCommands
    BY <2>1
  <2>3. drive' \in [pending : AtaCommands \cup {None}, busy : BOOLEAN, drq : BOOLEAN,
                    err : BOOLEAN, data : AtaCommands \cup {None}]
    BY <2>1, <2>2, TakenType
  <2>4. ~trouble => asked # None /\ drive.pending = asked /\ AtRest
    BY <2>1 DEF DriveAnswers
  <2>5. ~trouble => drive'.pending = None /\ drive'.data = asked
    BY <2>1, <2>4 DEF AtRest, taken
  <2> QED
    BY <2>1, <2>3, <2>4, <2>5 DEF DriveAnswers, SectorAsAsked
<1>7. CASE Deliver \/ Fail
  <2>1. /\ drive.busy /\ UNCHANGED <<asked, result, trouble>>
        /\ \/ drive' = [drive EXCEPT !.busy = FALSE, !.drq = TRUE]
           \/ drive' = [drive EXCEPT !.busy = FALSE, !.err = TRUE]
    BY <1>7 DEF Deliver, Fail, DriveUnchanged
  <2>2. ~trouble => asked # None /\ drive.pending = None /\ drive.data = asked
    BY <2>1 DEF AtRest, DriveAnswers
  <2> QED
    BY <2>1, <2>2 DEF DriveAnswers, SectorAsAsked
<1> QED
  BY <1>1, <1>2, <1>3, <1>4, <1>5, <1>6, <1>7 DEF AtaNext, Poll, Drive

\* A read that ata_read_sector reports as done delivered the sector it was asked
\* for, whenever the drive takes the command and answers, as long as no call
\* before it failed.
THEOREM ReadsTheSector == AtaSpec => []SectorAsAsked
<1>1. AtaIInv => SectorAsAsked
  BY DEF AtaIInv
<1> QED
  BY <1>1, AtaInitIInv, AtaNextIInv, PTL DEF AtaSpec

-----------------------------------------------------------------------------
(***************************************************************************)
(* The framebuffer: what ui_init accepts, no drawing leaves, for every     *)
(* frame and every screen the limits allow.                                *)
(***************************************************************************)

\* What ui_init accepts: a frame that is whole in the identity map.
UiIInv ==
    /\ information \in InformationType
    /\ framebuffer # NoFrame => framebuffer \in FrameType /\ usable(framebuffer)

LEMMA UiInitIInv == UiInit /\ information \in InformationType => UiIInv
BY DEF UiInit, UiIInv

LEMMA UiNextIInv == UiIInv /\ [ui_init]_uiVars => UiIInv'
<1> SUFFICES ASSUME UiIInv, [ui_init]_uiVars PROVE UiIInv'
  OBVIOUS
<1>1. CASE UNCHANGED uiVars
  BY <1>1 DEF uiVars, UiIInv
<1>2. CASE ui_init
  <2> DEFINE stops == { i \in 1..Len(information.tags) : ends(i) \/ accepts(information.tags[i]) }
             stop  == CHOOSE i \in stops : \A j \in stops : i <= j
  <2>1. /\ framebuffer' = IF information.total < 16 \/ stops = {} \/ ends(stop) THEN NoFrame
                          ELSE information.tags[stop].frame
        /\ information' = information
    BY <1>2 DEF ui_init
  <2>2. CASE framebuffer' # NoFrame
    <3>1. stops # {} /\ ~ends(stop) /\ framebuffer' = information.tags[stop].frame
      <4> HIDE DEF stop, stops
      <4> QED
        BY <2>1, <2>2
    <3>2. stop \in stops
      <4>1. stops \subseteq Nat
        OBVIOUS
      <4> HIDE DEF stops
      <4> QED
        BY <3>1, <4>1, LeastElement
    <3>3. stop \in 1..Len(information.tags) /\ accepts(information.tags[stop])
      BY <3>1, <3>2
    <3>4. information.tags[stop].frame \in FrameType
      <4> HIDE DEF stop
      <4>1. information.tags \in Seq(TagType)
        BY DEF UiIInv, InformationType
      <4>2. \A i \in 1..Len(information.tags) : information.tags[i] \in TagType
        BY <4>1
      <4> QED
        BY <3>3, <4>2 DEF TagType
    <3> QED
      <4> HIDE DEF stop, stops
      <4> QED
        BY <2>1, <3>1, <3>3, <3>4 DEF accepts, UiIInv, usable, pitch_holds
  <2>3. CASE framebuffer' = NoFrame
    BY <2>1, <2>3 DEF UiIInv
  <2> QED
    BY <2>2, <2>3
<1> QED
  BY <1>1, <1>2

\* Every coordinate is an unsigned 32-bit number, whatever it was computed from.
Words == 0..(WORD - 1)
WordRects == [x : Words, y : Words, width : Words, height : Words]

LEMMA ModWord == \A v \in Int : v % WORD \in Words
BY ScreenAssumption DEF Words

LEMMA RectType ==
    ASSUME NEW x \in Int, NEW y \in Int, NEW width \in Int, NEW height \in Int
    PROVE  Rect(x, y, width, height) \in WordRects
BY ModWord DEF Rect, WordRects

LEMMA RectanglesType ==
    ASSUME framebuffer \in FrameType
    PROVE  rectangles \subseteq WordRects
<1>1. /\ W \in Int /\ H \in Int /\ third \in Int /\ panel_width \in Int /\ panel_x \in Int
      /\ \A a, b \in Int : sum(a, b) \in Int
  <2>1. W \in Int /\ H \in Int
    BY DEF W, H, FrameType
  <2>2. \A a \in Int : a % WORD \in Int
    BY ScreenAssumption
  <2>3. third \in Int
    BY <2>1, <2>2 DEF third
  <2> QED
    BY <2>1, <2>2, <2>3 DEF panel_width, panel_x, sum
<1>2. panels \subseteq WordRects
  <2>1. ASSUME NEW k \in 0..2 PROVE Rect(sum(146, k * third), 540, third - 16, 86) \in WordRects
    <3>1. sum(146, k * third) \in Int /\ third - 16 \in Int
      BY <1>1
    <3> QED
      BY <3>1, RectType
  <2>2. ASSUME NEW y \in {86, 156, 226, 296} PROVE Rect(30, y, 64, 60) \in WordRects
    <3>1. y \in Int
      OBVIOUS
    <3> QED
      BY <3>1, RectType
  <2>3. ASSUME NEW width \in {panel_width, 5}
        PROVE  Rect(panel_x, 316, width, 104) \in WordRects /\ Rect(panel_x, 432, width, 86) \in WordRects
    <3>1. width \in Int
      BY <1>1
    <3> QED
      BY <1>1, <3>1, RectType
  <2>4. /\ H - 96 \in Int /\ W - 160 \in Int /\ H - 110 \in Int /\ W - 210 \in Int
        /\ W - 300 \in Int /\ H - 34 \in Int
    BY <1>1
  <2>5. Rect(0, 0, W, H) \in WordRects
    BY <1>1, <2>4, RectType
  <2>6. Rect(0, 0, W, 46) \in WordRects
    BY <1>1, <2>4, RectType
  <2>7. Rect(18, 11, 24, 24) \in WordRects
    BY <1>1, <2>4, RectType
  <2>8. Rect(22, 72, 80, H - 96) \in WordRects
    BY <1>1, <2>4, RectType
  <2>9. Rect(126, 72, W - 160, H - 110) \in WordRects
    BY <1>1, <2>4, RectType
  <2>10. Rect(146, 88, W - 210, 120) \in WordRects
    BY <1>1, <2>4, RectType
  <2>11. Rect(146, 238, W - 210, 170) \in WordRects
    BY <1>1, <2>4, RectType
  <2>12. Rect(W - 300, 72, 230, 220) \in WordRects
    BY <1>1, <2>4, RectType
  <2>13. Rect(146, 438, W - 210, 82) \in WordRects
    BY <1>1, <2>4, RectType
  <2>14. Rect(0, H - 34, W, 34) \in WordRects
    BY <1>1, <2>4, RectType
  <2> QED
    BY <2>1, <2>2, <2>3, <2>5, <2>6, <2>7, <2>8, <2>9, <2>10, <2>11, <2>12, <2>13, <2>14
       DEF panels
<1>3. \A t \in texts : t.x \in Int /\ t.y \in Int /\ t.scale \in Int
  <2> DEFINE OnInts(x, y, scale) == /\ At(x, y, scale).x \in Int /\ At(x, y, scale).y \in Int
                                    /\ At(x, y, scale).scale \in Int
  <2>1. \A x, y, scale \in Int : OnInts(x, y, scale)
    BY DEF At
  <2>2. /\ sum(146, third) + 26 \in Int /\ sum(146, 2 * third) + 24 \in Int
        /\ H - 26 \in Int /\ W - 270 \in Int /\ panel_x + 18 \in Int
    BY <1>1
  <2>3. ASSUME NEW y \in {172, 242, 312} \cup {260, 296, 330, 364} \cup {96, 132, 164, 196, 228}
        PROVE  OnInts(42, y, 2) /\ OnInts(170, y, 2) /\ OnInts(W - 270, y, 2)
    <3>1. y \in Int
      OBVIOUS
    <3> HIDE DEF OnInts
    <3> QED
      BY <2>1, <2>2, <3>1
  <2>4. ASSUME NEW dx \in {18, 72}, NEW dy \in {38, 58, 78} PROVE OnInts(panel_x + dx, 316 + dy, 1)
    <3>1. panel_x + dx \in Int /\ 316 + dy \in Int
      BY <1>1
    <3> HIDE DEF OnInts
    <3> QED
      BY <2>1, <3>1
  <2>5. /\ OnInts(56, 12, 3) /\ OnInts(46, 102, 2) /\ OnInts(168, 108, 3) /\ OnInts(168, 156, 2)
        /\ OnInts(170, 462, 2) /\ OnInts(172, 560, 2) /\ OnInts(sum(146, third) + 26, 560, 2)
        /\ OnInts(sum(146, 2 * third) + 24, 560, 2) /\ OnInts(18, H - 26, 2)
        /\ OnInts(64, 170, 2) /\ OnInts(64, 196, 2) /\ OnInts(panel_x + 18, 328, 2)
        /\ OnInts(panel_x + 18, 442, 2) /\ OnInts(panel_x + 18, 468, 1)
        /\ OnInts(panel_x + 18, 490, 1)
    <3> HIDE DEF OnInts
    <3> QED
      BY <2>1, <2>2
  <2> QED
    BY <2>3, <2>4, <2>5 DEF texts
<1>4. \A t \in texts : draw_text(t) \subseteq WordRects
  <2> SUFFICES ASSUME NEW t \in texts,
                      NEW character \in {0, LongestText - 1}, NEW column \in {0, 4}, NEW row \in {0, 6}
               PROVE  Rect(t.x + (6 * character + column) * t.scale, t.y + row * t.scale,
                           t.scale, t.scale) \in WordRects
    BY DEF draw_text
  <2>1. t.x \in Int /\ t.y \in Int /\ t.scale \in Int /\ character \in Int
    BY <1>3, ScreenAssumption
  <2>2. t.x + (6 * character + column) * t.scale \in Int /\ t.y + row * t.scale \in Int
    BY <2>1
  <2> QED
    BY <2>1, <2>2, RectType
<1> QED
  BY <1>2, <1>4 DEF rectangles

LEMMA FrameHoldsPixels ==
    ASSUME framebuffer \in FrameType, usable(framebuffer), NEW x \in Nat, NEW y \in Nat, x < W, y < H
    PROVE  LET Bpp == framebuffer.bpp \div 8
           IN  /\ put_pixel(x, y) = y * framebuffer.pitch + x * Bpp
               /\ x * Bpp + Bpp <= framebuffer.pitch
               /\ (y + 1) * framebuffer.pitch <= framebuffer.pitch * H
               /\ framebuffer.address + framebuffer.pitch * H <= MapLimit
<1> DEFINE Bpp == framebuffer.bpp \div 8
           P == framebuffer.pitch
<1>1. Bpp \in Nat /\ Bpp > 0 /\ P \in Nat /\ W \in Nat /\ H \in Nat /\ framebuffer.address \in Nat
  BY DEF FrameType, usable, W, H
<1>2. P >= W * Bpp /\ framebuffer.address + P * H <= MapLimit
  BY DEF usable, pitch_holds, W, H
<1>3. x * Bpp + Bpp <= W * Bpp
  BY <1>1
<1>4. y * P + P <= P * H
  BY <1>1
<1>5. (y + 1) * P = y * P + P /\ y * P \in Nat /\ x * Bpp \in Nat /\ P * H \in Nat
  BY <1>1
<1>6. y * P + x * Bpp < WORD /\ y * P < WORD
  <2> HIDE DEF P, Bpp
  <2> QED
    BY <1>1, <1>2, <1>3, <1>4, <1>5, ScreenAssumption
<1>7. put_pixel(x, y) = y * P + x * Bpp
  <2> DEFINE a == y * P
             b == x * Bpp
  <2>1. a \in Nat /\ b \in Nat /\ a < WORD /\ a + b < WORD
    BY <1>5, <1>6
  <2>2. a % WORD = a /\ (a + b) % WORD = a + b
    <3> HIDE DEF a, b
    <3> QED
      BY <2>1, ScreenAssumption
  <2> QED
    BY <2>2 DEF put_pixel, sum
<1> QED
  <2> HIDE DEF P, Bpp
  <2>1. x * Bpp + Bpp <= P
    BY <1>1, <1>2, <1>3, <1>5
  <2> QED
    BY <1>2, <1>4, <1>5, <1>7, <2>1 DEF P, Bpp

LEMMA FrameIsSafe == UiIInv => PixelsInFrame
<1> SUFFICES ASSUME UiIInv, framebuffer # NoFrame, NEW r \in rectangles,
                    fill_rect(r).left < fill_rect(r).right, fill_rect(r).top < fill_rect(r).bottom
             PROVE  LET area == fill_rect(r)
                        Bpp == framebuffer.bpp \div 8
                    IN  /\ area.right <= W /\ area.bottom <= H
                        /\ put_pixel(area.right - 1, area.top) + Bpp
                              <= (area.top + 1) * framebuffer.pitch
                        /\ put_pixel(area.right - 1, area.bottom - 1) + Bpp
                              <= framebuffer.pitch * H
                        /\ framebuffer.address + put_pixel(area.right - 1, area.bottom - 1) + Bpp
                              <= MapLimit
  BY DEF PixelsInFrame
<1> DEFINE area == fill_rect(r)
           Bpp == framebuffer.bpp \div 8
           P == framebuffer.pitch
<1>1. framebuffer \in FrameType /\ usable(framebuffer)
  BY DEF UiIInv
<1>2. r \in WordRects
  BY <1>1, RectanglesType
<1>3. W \in Nat /\ H \in Nat /\ P \in Nat /\ Bpp \in Nat /\ framebuffer.address \in Nat
  BY <1>1 DEF FrameType, W, H
<1>4. /\ area.left \in Nat /\ area.right \in Nat /\ area.top \in Nat /\ area.bottom \in Nat
      /\ area.right <= W /\ area.bottom <= H
  <2>1. \A a, b \in Words : sum(a, b) \in Nat
    BY ScreenAssumption DEF sum, Words
  <2>2. /\ r.x \in Words /\ r.y \in Words /\ r.width \in Words /\ r.height \in Words
        /\ Words \subseteq Nat
    BY <1>2, ScreenAssumption DEF WordRects, Words
  <2>3. sum(r.x, r.width) \in Nat /\ sum(r.y, r.height) \in Nat /\ r.x \in Nat /\ r.y \in Nat
    BY <2>1, <2>2
  <2>4. CASE r.x >= W \/ r.y >= H
    BY <1>3, <2>4 DEF fill_rect
  <2>5. CASE ~(r.x >= W \/ r.y >= H)
    BY <1>3, <2>3, <2>5 DEF fill_rect
  <2> QED
    BY <2>4, <2>5
<1>5. /\ area.right - 1 \in Nat /\ area.right - 1 < W
      /\ area.top \in Nat /\ area.top < H
      /\ area.bottom - 1 \in Nat /\ area.bottom - 1 < H
  <2> HIDE DEF area
  <2> QED
    BY <1>3, <1>4 DEF area
<1>6. /\ put_pixel(area.right - 1, area.top) = area.top * P + (area.right - 1) * Bpp
      /\ (area.right - 1) * Bpp + Bpp <= P
      /\ (area.top + 1) * P <= P * H
      /\ framebuffer.address + P * H <= MapLimit
  <2> HIDE DEF area
  <2> QED
    BY <1>1, <1>5, FrameHoldsPixels
<1>7. /\ put_pixel(area.right - 1, area.bottom - 1) = (area.bottom - 1) * P + (area.right - 1) * Bpp
      /\ area.bottom * P <= P * H
  <2> HIDE DEF area
  <2>1. area.bottom - 1 + 1 = area.bottom
    BY <1>4 DEF area
  <2> QED
    BY <1>1, <1>5, <2>1, FrameHoldsPixels
<1>8. /\ (area.top + 1) * P = area.top * P + P /\ area.bottom * P = (area.bottom - 1) * P + P
      /\ area.top * P \in Nat /\ (area.bottom - 1) * P \in Nat /\ (area.right - 1) * Bpp \in Nat
      /\ P * H \in Nat
  <2> HIDE DEF area, P, Bpp
  <2> QED
    BY <1>3, <1>4, <1>5
<1> QED
  <2> HIDE DEF area, P, Bpp
  <2> QED
    BY <1>3, <1>4, <1>6, <1>7, <1>8, ScreenAssumption DEF P, Bpp, area

\* On whatever framebuffer ui_init accepts, no pixel of a panel or a text lies
\* outside the framebuffer or outside the identity map.
THEOREM ScreenIsSafe == UiSpec => []PixelsInFrame
BY UiInitIInv, UiNextIInv, FrameIsSafe, PTL DEF UiSpec

-----------------------------------------------------------------------------
(***************************************************************************)
(* The MADT: the walk over entries of lengths the firmware chose.          *)
(***************************************************************************)

Walks(f, D, stops, next) == f = [o \in D |-> IF o \in stops THEN {} ELSE {o} \cup f[next[o]]]

\* A walk that goes from place to place until it meets a stop is well defined,
\* whatever the places: what it visits is what every closed set contains.
LEMMA WalkExists ==
    ASSUME NEW D, NEW stops \in SUBSET D, NEW next, \A o \in D \ stops : next[o] \in D
    PROVE  \E f : Walks(f, D, stops, next)
<1> DEFINE Closed(S) == \A x \in S \ stops : next[x] \in S
           R(o) == { p \in D \ stops : \A S \in SUBSET D : o \in S /\ Closed(S) => p \in S }
           g == [o \in D |-> R(o)]
<1>1. ASSUME NEW o \in stops PROVE R(o) = {}
  <2>1. {o} \in SUBSET D /\ o \in {o} /\ Closed({o})
    OBVIOUS
  <2> QED
    BY <2>1
<1>2. ASSUME NEW o \in D \ stops PROVE R(o) = {o} \cup R(next[o])
  <2>1. o \in R(o)
    OBVIOUS
  <2>2. ASSUME NEW p \in R(next[o]) PROVE p \in R(o)
    <3>1. ASSUME NEW S \in SUBSET D, o \in S, Closed(S) PROVE p \in S
      <4>1. next[o] \in S
        BY <3>1
      <4> QED
        BY <3>1, <4>1
    <3> QED
      BY <3>1
  <2>3. ASSUME NEW p \in R(o), p # o PROVE p \in R(next[o])
    <3>1. ASSUME NEW S \in SUBSET D, next[o] \in S, Closed(S) PROVE p \in S
      <4>1. S \cup {o} \in SUBSET D /\ Closed(S \cup {o})
        BY <3>1
      <4>2. p \in S \cup {o}
        BY <4>1
      <4> QED
        BY <2>3, <4>2
    <3> QED
      BY <3>1
  <2> QED
    BY <2>1, <2>2, <2>3
<1>3. \A o \in D : g[o] = IF o \in stops THEN {} ELSE {o} \cup g[next[o]]
  <2> HIDE DEF R
  <2> QED
    BY <1>1, <1>2
<1>4. g = [o \in D |-> IF o \in stops THEN {} ELSE {o} \cup g[next[o]]]
  <2> HIDE DEF R
  <2> QED
    BY <1>3
<1> QED
  BY <1>4 DEF Walks

\* The entries that lie whole in a table, before the first malformed one.
Whole(t) == { i \in DOMAIN t.madt : \A j \in DOMAIN t.madt :
                 j <= i => t.madt[j].length >= 2 /\ j + t.madt[j].length <= t.length }

LEMMA WalkUnfolds ==
    ASSUME NEW t, t.length \in Nat, LaidOut(t.madt), MadtHeader <= t.length
    PROVE  \E f : /\ walk(t) = f[MadtHeader]
                  /\ \A o \in MadtHeader..t.length :
                        f[o] = IF \/ o + 2 > t.length \/ entry_at(t, o).length < 2
                                  \/ o + entry_at(t, o).length > t.length
                               THEN {} ELSE {o} \cup f[o + entry_at(t, o).length]
<1> DEFINE D == MadtHeader..t.length
           at(o) == entry_at(t, o).length
           halt(o) == o + 2 > t.length \/ at(o) < 2 \/ o + at(o) > t.length
           stops == { o \in D : halt(o) }
           next == [o \in D |-> o + at(o)]
           from == CHOOSE f : f = [o \in D |-> IF halt(o) THEN {} ELSE {o} \cup f[o + at(o)]]
<1>1. \A o \in D : at(o) \in Nat
  BY DEF entry_at, LaidOut
<1>2. \A o \in D \ stops : next[o] \in D
  BY <1>1, HeaderAssumption
<1>3. \E f : Walks(f, D, stops, next)
  <2> HIDE DEF D, stops, next
  <2>1. stops \in SUBSET D
    BY DEF stops
  <2> QED
    BY <1>2, <2>1, WalkExists
<1>4. \E f : f = [o \in D |-> IF halt(o) THEN {} ELSE {o} \cup f[o + at(o)]]
  <2>1. PICK f : Walks(f, D, stops, next)
    BY <1>3
  <2>2. f = [o \in D |-> IF halt(o) THEN {} ELSE {o} \cup f[o + at(o)]]
    <3> HIDE DEF D, halt, at
    <3> QED
      BY <2>1 DEF Walks
  <2> QED
    BY <2>2
<1>5. from = [o \in D |-> IF halt(o) THEN {} ELSE {o} \cup from[o + at(o)]]
  <2> HIDE DEF D, halt, at
  <2> QED
    BY <1>4
<1>6. walk(t) = from[MadtHeader]
  <2>1. ~(t.length < MadtHeader)
    BY HeaderAssumption
  <2> QED
    BY <2>1 DEF walk, outside
<1>7. \A o \in D : from[o] = IF halt(o) THEN {} ELSE {o} \cup from[o + at(o)]
  <2> HIDE DEF D, halt, at, from
  <2> QED
    BY <1>5
<1> QED
  <2> HIDE DEF from
  <2> QED
    BY <1>6, <1>7

\* Entries that follow one another: the next entry begins where one ends.
LEMMA NextEntry ==
    ASSUME NEW t, LaidOut(t.madt), NEW j \in DOMAIN t.madt, t.madt[j].length >= 2,
           NEW x \in DOMAIN t.madt, x > j
    PROVE  /\ j + t.madt[j].length \in DOMAIN t.madt
           /\ j + t.madt[j].length <= x
<1> DEFINE S == { k \in DOMAIN t.madt : k > j }
<1>1. S \in SUBSET Nat /\ S # {}
  BY DEF LaidOut
<1>2. PICK m \in S : \A n \in S : m <= n
  <2> HIDE DEF S
  <2> QED
    BY <1>1, LeastElement
<1>3. m \in Nat /\ j \in Nat /\ m > j /\ MadtHeader <= j /\ m \in DOMAIN t.madt
  BY <1>1, <1>2 DEF LaidOut
<1>4. PICK p \in DOMAIN t.madt : /\ p < m /\ \A k \in DOMAIN t.madt : k <= p \/ k >= m
                                 /\ t.madt[p].length >= 2 => p + t.madt[p].length = m
  BY <1>3, HeaderAssumption DEF LaidOut
<1>5. p = j
  <2>1. p \in Nat
    BY DEF LaidOut
  <2>2. ~(p > j)
    BY <1>2, <1>3, <1>4, <2>1
  <2>3. j <= p
    BY <1>3, <1>4
  <2> QED
    BY <1>3, <2>1, <2>2, <2>3
<1> QED
  BY <1>2, <1>3, <1>4, <1>5

LEMMA FirstEntry ==
    ASSUME NEW t, LaidOut(t.madt), NEW x \in DOMAIN t.madt
    PROVE  MadtHeader \in DOMAIN t.madt
<1>1. DOMAIN t.madt \in SUBSET Nat /\ DOMAIN t.madt # {}
  BY DEF LaidOut
<1>2. PICK m \in DOMAIN t.madt : \A n \in DOMAIN t.madt : m <= n
  BY <1>1, LeastElement
<1> QED
  BY <1>1, <1>2 DEF LaidOut

\* The loop of parse_madt looks at exactly the whole entries.
LEMMA WalkIsWhole ==
    ASSUME NEW t, t.length \in Nat, LaidOut(t.madt)
    PROVE  walk(t) = Whole(t)
<1>1. Whole(t) \subseteq DOMAIN t.madt /\ DOMAIN t.madt \subseteq Nat
  BY DEF Whole, LaidOut
<1>2. \A i \in DOMAIN t.madt : i \in Nat /\ t.madt[i].length \in Nat /\ MadtHeader <= i
  BY DEF LaidOut
<1>3. CASE t.length < MadtHeader
  <2>1. walk(t) = {}
    BY <1>3 DEF walk
  <2>2. ASSUME NEW i \in Whole(t) PROVE FALSE
    <3>1. t.madt[i].length >= 2 /\ i + t.madt[i].length <= t.length
      BY <1>1, <2>2 DEF Whole
    <3> QED
      BY <1>1, <1>2, <1>3, <3>1, HeaderAssumption
  <2> QED
    BY <2>1, <2>2
<1>4. CASE MadtHeader <= t.length
  <2> DEFINE D == MadtHeader..t.length
             at(o) == entry_at(t, o).length
             halt(o) == o + 2 > t.length \/ at(o) < 2 \/ o + at(o) > t.length
             OnChain(o) == o = MadtHeader \/ \E j \in Whole(t) : o = j + t.madt[j].length
             From(o) == { x \in Whole(t) : x >= o }
  <2>1. PICK f : /\ walk(t) = f[MadtHeader]
                 /\ \A o \in D : f[o] = IF halt(o) THEN {} ELSE {o} \cup f[o + at(o)]
    BY <1>4, WalkUnfolds
  <2>2. ASSUME NEW i \in Whole(t)
        PROVE  /\ i \in D /\ at(i) = t.madt[i].length /\ at(i) \in Nat /\ ~halt(i)
               /\ i + at(i) \in D
    <3>1. t.madt[i].length >= 2 /\ i + t.madt[i].length <= t.length
      BY <1>1, <2>2 DEF Whole
    <3>2. at(i) = t.madt[i].length
      BY <1>1, <2>2 DEF entry_at
    <3> QED
      BY <1>1, <1>2, <3>1, <3>2, HeaderAssumption
  <2>3. ASSUME NEW o \in D, OnChain(o), NEW x \in Whole(t), x >= o PROVE o \in Whole(t)
    <3>1. o \in DOMAIN t.madt
      <4>1. CASE o = MadtHeader
        BY <1>1, <4>1, FirstEntry
      <4>2. ASSUME NEW j \in Whole(t), o = j + t.madt[j].length PROVE o \in DOMAIN t.madt
        <5>1. t.madt[j].length >= 2 /\ j \in DOMAIN t.madt /\ x \in DOMAIN t.madt
          BY <1>1 DEF Whole
        <5>2. x > j
          BY <1>2, <2>3, <4>2, <5>1
        <5> QED
          BY <4>2, <5>1, <5>2, NextEntry
      <4> QED
        BY <2>3, <4>1, <4>2
    <3>2. ASSUME NEW j \in DOMAIN t.madt, j <= o
          PROVE  t.madt[j].length >= 2 /\ j + t.madt[j].length <= t.length
      <4>1. j <= x
        BY <1>1, <1>2, <2>3, <3>1, <3>2
      <4> QED
        BY <4>1 DEF Whole
    <3> QED
      BY <3>1, <3>2 DEF Whole
  <2>4. ASSUME NEW o \in D, OnChain(o), ~halt(o) PROVE o \in Whole(t)
    <3>1. o \in DOMAIN t.madt /\ at(o) = t.madt[o].length
      BY <2>4 DEF entry_at
    <3>2. ASSUME NEW j \in DOMAIN t.madt, j <= o
          PROVE  t.madt[j].length >= 2 /\ j + t.madt[j].length <= t.length
      <4>1. CASE j = o
        BY <2>4, <3>1, <4>1, <1>2, <1>4, HeaderAssumption
      <4>2. CASE j # o
        <5>1. j < o
          BY <1>2, <3>1, <3>2, <4>2
        <5>2. PICK k \in Whole(t) : o = k + t.madt[k].length
          BY <1>2, <2>4, <5>1
        <5>3. k \in DOMAIN t.madt /\ t.madt[k].length >= 2
          BY <1>1 DEF Whole
        <5>4. ~(j > k)
          BY <1>2, <5>1, <5>2, <5>3, NextEntry
        <5>5. j <= k
          BY <1>2, <5>3, <5>4
        <5> QED
          BY <5>5 DEF Whole
      <4> QED
        BY <4>1, <4>2
    <3> QED
      BY <3>1, <3>2 DEF Whole
  <2>5. ASSUME NEW o \in D, OnChain(o), o \notin Whole(t) PROVE f[o] = From(o)
    <3>1. f[o] = {}
      <4> HIDE DEF halt, D, OnChain, at
      <4> QED
        BY <2>1, <2>4, <2>5
    <3>2. From(o) = {}
      BY <2>3, <2>5
    <3> QED
      BY <3>1, <3>2
  <2>6. ASSUME NEW o \in Whole(t)
        PROVE  /\ o + at(o) \in D /\ o + at(o) > o /\ OnChain(o + at(o))
               /\ f[o] = {o} \cup f[o + at(o)]
               /\ From(o) = {o} \cup From(o + at(o))
    <3>1. o \in Nat /\ at(o) \in Nat /\ at(o) >= 2 /\ o \in D /\ o \in DOMAIN t.madt
      BY <1>1, <1>2, <2>2 DEF Whole
    <3>2. OnChain(o + at(o)) /\ o + at(o) \in D
      BY <2>2
    <3>3. f[o] = {o} \cup f[o + at(o)]
      <4> HIDE DEF halt, D, at
      <4> QED
        BY <2>1, <2>2
    <3>4. ASSUME NEW x \in Whole(t), x >= o PROVE x = o \/ x >= o + at(o)
      <4>1. x \in Nat /\ x \in DOMAIN t.madt /\ at(o) = t.madt[o].length
        BY <1>1, <2>2
      <4>2. CASE x > o
        BY <3>1, <4>1, <4>2, NextEntry
      <4> QED
        BY <3>1, <3>4, <4>1, <4>2
    <3>5. From(o) = {o} \cup From(o + at(o))
      <4>1. \A x \in Whole(t) : x \in Nat
        BY <1>1
      <4>2. \A x \in Whole(t) : x >= o <=> x = o \/ x >= o + at(o)
        <5> HIDE DEF at
        <5> QED
          BY <3>1, <3>4, <4>1
      <4> HIDE DEF at
      <4> QED
        BY <4>2
    <3> QED
      <4> HIDE DEF OnChain, From, at, D
      <4> QED
        BY <3>1, <3>2, <3>3, <3>5
  <2>7. \A o \in D : OnChain(o) => f[o] = From(o)
    <3> DEFINE Bad == { o \in D : OnChain(o) /\ f[o] # From(o) }
               Depth == { t.length - o : o \in Bad }
    <3>1. ASSUME Bad # {} PROVE FALSE
      <4>1. Depth \in SUBSET Nat /\ Depth # {}
        <5>1. \A o \in D : t.length - o \in Nat
          BY <1>4, HeaderAssumption
        <5> HIDE DEF D, OnChain, From
        <5> QED
          BY <3>1, <5>1
      <4>2. PICK d \in Depth : \A e \in Depth : d <= e
        <5> HIDE DEF Depth
        <5> QED
          BY <4>1, LeastElement
      <4>3. PICK o \in Bad : d = t.length - o
        BY <4>2
      <4>4. o \in D /\ OnChain(o) /\ f[o] # From(o)
        BY <4>3
      <4>5. o \in Whole(t)
        <5> HIDE DEF OnChain, From, D
        <5> QED
          BY <2>5, <4>4
      <4>6. o + at(o) \notin Bad
        <5>1. ASSUME o + at(o) \in Bad PROVE FALSE
          <6>1. t.length - (o + at(o)) \in Depth
            BY <5>1
          <6>2. o + at(o) > o /\ o \in Nat /\ o + at(o) \in Nat
            BY <2>6, <4>5, <4>4, HeaderAssumption
          <6> QED
            <7> HIDE DEF Depth, at
            <7> QED
              BY <4>2, <4>3, <6>1, <6>2
        <5> QED
          BY <5>1
      <4>7. f[o + at(o)] = From(o + at(o))
        <5> HIDE DEF OnChain, From, D, at
        <5> QED
          BY <2>6, <4>5, <4>6
      <4> QED
        <5> HIDE DEF OnChain, From, D, at
        <5> QED
          BY <2>6, <4>4, <4>5, <4>7
    <3> QED
      BY <3>1
  <2>8. MadtHeader \in D
    BY <1>4, HeaderAssumption
  <2>9. From(MadtHeader) = Whole(t)
    BY <1>1, <1>2
  <2>10. f[MadtHeader] = From(MadtHeader)
    <3> HIDE DEF From, D
    <3> QED
      BY <2>7, <2>8
  <2> QED
    BY <2>1, <2>9, <2>10
<1> QED
  BY <1>3, <1>4, HeaderAssumption

-----------------------------------------------------------------------------
AcpiIInv == IsFirmware(firmware) /\ MadtComplete

LEMMA AcpiInitIInv == AcpiInit /\ IsFirmware(firmware) => AcpiIInv
BY DEF AcpiInit, AcpiIInv, MadtComplete, Nothing

LEMMA ScannedType ==
    ASSUME IsFirmware(firmware)
    PROVE  scanned \in Seq(RootType(0..Len(firmware.tables)))
<1> DEFINE R == RootType(0..Len(firmware.tables))
<1>1. firmware.ebda \in Seq(R) /\ firmware.bios \in Seq(R)
  BY DEF IsFirmware
<1>2. <<>> \in Seq(R)
  OBVIOUS
<1>3. \A s, u \in Seq(R) : s \o u \in Seq(R)
  OBVIOUS
<1> HIDE DEF R
<1>4. (IF firmware.ebda_in_range THEN firmware.ebda ELSE <<>>) \in Seq(R)
  BY <1>1, <1>2
<1> QED
  BY <1>1, <1>3, <1>4 DEF scanned, R

LEMMA AcpiNextIInv == AcpiIInv /\ [acpi_init]_acpiVars => AcpiIInv'
<1> SUFFICES ASSUME AcpiIInv, [acpi_init]_acpiVars PROVE AcpiIInv'
  OBVIOUS
<1>1. CASE UNCHANGED acpiVars
  BY <1>1 DEF acpiVars, AcpiIInv, MadtComplete, scanned
<1>2. CASE acpi_init /\ madt'.table = 0
  BY <1>2 DEF acpi_init, AcpiIInv, MadtComplete
<1>3. CASE acpi_init /\ madt'.table # 0
  <2>1. firmware' = firmware /\ rsdp # 0 /\ find_table # 0 /\ madt' = discover_madt
    BY <1>3 DEF acpi_init, discover_madt, Nothing
  <2> DEFINE t == firmware.tables[find_table]
  <2>2. /\ madt'.rsdp = rsdp /\ madt'.table = find_table
        /\ madt'.processors = parse_madt(t).processors /\ madt'.ioapics = parse_madt(t).ioapics
    BY <2>1 DEF discover_madt
  <2>3. /\ rsdp \in 1..Len(scanned) /\ accept_rsdp(scanned[rsdp])
        /\ \A i \in 1..(rsdp - 1) : ~accept_rsdp(scanned[i])
    <3> DEFINE taken_in == { i \in 1..Len(scanned) : accept_rsdp(scanned[i]) }
    <3>1. taken_in # {} /\ rsdp = CHOOSE i \in taken_in : \A j \in taken_in : i <= j
      BY <2>1 DEF rsdp
    <3>2. taken_in \in SUBSET Nat
      OBVIOUS
    <3>3. rsdp \in taken_in /\ \A j \in taken_in : rsdp <= j
      <4> HIDE DEF taken_in
      <4> QED
        BY <3>1, <3>2, LeastElement
    <3>4. Len(scanned) \in Nat
      BY ScannedType
    <3>5. \A i \in 1..(rsdp - 1) : i \in 1..Len(scanned) /\ ~(rsdp <= i)
      BY <3>3, <3>4
    <3> QED
      BY <3>3, <3>5
  <2>4. find_table \in 1..Len(firmware.tables)
    <3>1. found # {} /\ find_table = entries[first]
      BY <2>1 DEF find_table
    <3>2. found \in SUBSET Nat
      BY DEF found
    <3>3. first \in found
      BY <3>1, <3>2, LeastElement DEF first
    <3>4. scanned[rsdp] \in RootType(0..Len(firmware.tables))
      BY <2>3, ScannedType DEF AcpiIInv
    <3>5. root \in 0..Len(firmware.tables)
      BY <3>4 DEF root, RootType
    <3>6. entries \in Seq(0..Len(firmware.tables))
      <4>1. root # 0 => firmware.tables[root].entries \in Seq(0..Len(firmware.tables))
        BY <3>5 DEF AcpiIInv, IsFirmware
      <4>2. <<>> \in Seq(0..Len(firmware.tables))
        OBVIOUS
      <4> QED
        BY <4>1, <4>2 DEF entries
    <3> QED
      BY <3>1, <3>3, <3>6 DEF found
  <2>5. t.length \in Nat /\ LaidOut(t.madt)
    BY <2>4 DEF AcpiIInv, IsFirmware
  <2>6. walk(t) = Whole(t)
    BY <2>5, WalkIsWhole
  <2>7. \A i \in Whole(t) : entry_at(t, i) = t.madt[i]
    BY DEF Whole, entry_at
  <2>8. /\ parse_madt(t).processors = Cardinality({ i \in Whole(t) : is_processor(t.madt[i]) })
        /\ parse_madt(t).ioapics = smaller(Cardinality({ i \in Whole(t) : is_ioapic(t.madt[i]) }),
                                           ACPI_MAX_IOAPICS)
    <3> HIDE DEF t
    <3>1. { i \in walk(t) : is_processor(entry_at(t, i)) } = { i \in Whole(t) : is_processor(t.madt[i]) }
      BY <2>6, <2>7
    <3>2. { i \in walk(t) : is_ioapic(entry_at(t, i)) } = { i \in Whole(t) : is_ioapic(t.madt[i]) }
      BY <2>6, <2>7
    <3> QED
      BY <3>1, <3>2 DEF parse_madt
  <2>9. scanned' = scanned
    BY <2>1 DEF scanned
  <2>10. MadtComplete'
    <3>1. firmware'.tables[madt'.table] = t
      BY <2>1, <2>2
    <3>2. \A c : accept_rsdp(c)' <=> accept_rsdp(c)
      BY DEF accept_rsdp
    <3> HIDE DEF t
    <3> QED
      BY <2>2, <2>3, <2>8, <2>9, <3>1, <3>2 DEF MadtComplete, Whole
  <2> QED
    BY <2>1, <2>10 DEF AcpiIInv
<1> QED
  BY <1>1, <1>2, <1>3

\* For every firmware whose entries follow one another, the processors and
\* interrupt controllers counted are those of the whole entries of the table.
THEOREM MadtIsComplete == AcpiSpec => []MadtComplete
<1>1. AcpiIInv => MadtComplete
  BY DEF AcpiIInv
<1> QED
  BY <1>1, AcpiInitIInv, AcpiNextIInv, PTL DEF AcpiSpec

-----------------------------------------------------------------------------
(***************************************************************************)
(* The PCI table and the lookups of the display driver.                    *)
(***************************************************************************)

\* Recursion over the numbers up to N is well defined: the function its
\* equation describes is there.
Recursion(f, N, start, next) == f = [n \in 0..N |-> IF n = 0 THEN start ELSE next[n][f[n - 1]]]

LEMMA RecursionExists ==
    ASSUME NEW S, NEW N \in Nat, NEW start \in S, NEW next \in [1..N -> [S -> S]]
    PROVE  \E f \in [0..N -> S] : Recursion(f, N, start, next)
<1> DEFINE Value(f, n) == IF n = 0 THEN start ELSE next[n][f[n - 1]]
           Bad == { m \in 0..N : ~\E f \in [0..m -> S] : \A n \in 0..m : f[n] = Value(f, n) }
<1>1. Bad = {}
  <2>1. SUFFICES ASSUME Bad # {} PROVE FALSE
    OBVIOUS
  <2>2. Bad \in SUBSET Nat
    OBVIOUS
  <2>3. PICK m \in Bad : \A k \in Bad : m <= k
    <3> HIDE DEF Bad
    <3> QED
      BY <2>1, <2>2, LeastElement
  <2>4. m \in 0..N /\ ~\E f \in [0..m -> S] : \A n \in 0..m : f[n] = Value(f, n)
    BY <2>3
  <2>5. CASE m = 0
    <3> DEFINE f == [n \in 0..0 |-> start]
    <3>1. f \in [0..m -> S] /\ \A n \in 0..m : f[n] = Value(f, n)
      BY <2>5
    <3> QED
      BY <2>4, <3>1
  <2>6. CASE m # 0
    <3>1. m - 1 \in 0..N /\ m - 1 \notin Bad /\ m \in 1..N
      <4>1. m - 1 \in 0..N /\ m \in 1..N /\ ~(m <= m - 1)
        BY <2>4, <2>6
      <4> HIDE DEF Bad
      <4> QED
        BY <2>3, <4>1
    <3>2. PICK g \in [0..(m - 1) -> S] : \A n \in 0..(m - 1) : g[n] = Value(g, n)
      BY <3>1
    <3> DEFINE f == [n \in 0..m |-> IF n = m THEN next[m][g[m - 1]] ELSE g[n]]
    <3>3. next[m][g[m - 1]] \in S
      BY <3>1, <3>2
    <3>4. f \in [0..m -> S] /\ f[m] = next[m][g[m - 1]]
      BY <2>4, <2>6, <3>2, <3>3
    <3>5. \A n \in 0..(m - 1) : f[n] = g[n]
      BY <3>1
    <3>6. ASSUME NEW n \in 0..m PROVE f[n] = Value(f, n)
      <4> HIDE DEF f
      <4>1. CASE n = m
        BY <2>6, <3>1, <3>4, <3>5, <4>1
      <4>2. CASE n # m /\ n = 0
        BY <3>1, <3>2, <3>5, <4>2
      <4>3. CASE n # m /\ n # 0
        <5>1. n \in 0..(m - 1) /\ n - 1 \in 0..(m - 1)
          BY <3>1, <4>3
        <5> QED
          BY <3>2, <3>5, <4>3, <5>1
      <4> QED
        BY <4>1, <4>2, <4>3
    <3> HIDE DEF f
    <3> QED
      BY <2>4, <3>4, <3>6
  <2> QED
    BY <2>5, <2>6
<1>2. PICK f \in [0..N -> S] : \A n \in 0..N : f[n] = Value(f, n)
  BY <1>1
<1>3. f = [n \in 0..N |-> Value(f, n)]
  <2> HIDE DEF Value
  <2> QED
    BY <1>2
<1> QED
  BY <1>3 DEF Recursion

-----------------------------------------------------------------------------
\* The places of the bus in the order of the scan.
Places == (1..Len(slots)) \X (1..MaxFunctions)
number(p) == (p[1] - 1) * MaxFunctions + p[2]

LEMMA PlaceNumbers ==
    ASSUME IsBus(slots)
    PROVE  /\ places \in Nat
           /\ \A n \in 1..places : place_at(n) \in Places /\ number(place_at(n)) = n
           /\ \A p \in Places : number(p) \in 1..places /\ place_at(number(p)) = p
           /\ \A p, q \in Places : Before(p, q) <=> number(p) < number(q)
<1> DEFINE L == Len(slots)
<1>0. L \in Nat /\ MaxFunctions \in Nat /\ MaxFunctions >= 1 /\ places = L * MaxFunctions
  BY SizesAssumption DEF IsBus, places
<1> HIDE DEF L
<1>1. places \in Nat
  BY <1>0
<1>2. ASSUME NEW n \in 1..places PROVE place_at(n) \in Places /\ number(place_at(n)) = n
  <2> DEFINE a == (n - 1) \div MaxFunctions
             b == (n - 1) % MaxFunctions
  <2>1. n - 1 \in Nat /\ n - 1 < L * MaxFunctions
    BY <1>0, <1>1
  <2>2. a \in Nat /\ b \in 0..(MaxFunctions - 1) /\ n - 1 = a * MaxFunctions + b
    BY <1>0, <2>1
  <2>3. a < L
    <3> HIDE DEF a, b
    <3> QED
      BY <1>0, <2>1, <2>2
  <2>4. place_at(n) = <<a + 1, b + 1>>
    BY DEF place_at
  <2> HIDE DEF a, b
  <2>5. <<a + 1, b + 1>> \in Places
    BY <1>0, <2>2, <2>3 DEF Places, L
  <2>6. number(<<a + 1, b + 1>>) = n
    BY <1>0, <2>2 DEF number
  <2> QED
    BY <2>4, <2>5, <2>6
<1>3. ASSUME NEW p \in Places PROVE number(p) \in 1..places /\ place_at(number(p)) = p
  <2>1. PICK i \in 1..L, j \in 1..MaxFunctions : p = <<i, j>>
    BY DEF Places, L
  <2>2. i - 1 \in Nat /\ i - 1 + 1 = i /\ i - 1 <= L - 1 /\ j - 1 \in 0..(MaxFunctions - 1)
    BY <1>0
  <2>3. number(p) = (i - 1) * MaxFunctions + j
    BY <2>1 DEF number
  <2>4. (i - 1) * MaxFunctions \in Nat /\ (i - 1) * MaxFunctions <= (L - 1) * MaxFunctions
    BY <1>0, <2>2
  <2>5. number(p) \in 1..places
    BY <1>0, <2>3, <2>4
  <2>6. number(p) - 1 = (i - 1) * MaxFunctions + (j - 1)
    BY <1>0, <2>3, <2>4
  <2>7. (number(p) - 1) \div MaxFunctions = i - 1 /\ (number(p) - 1) % MaxFunctions = j - 1
    <3>1. \A x \in Nat, y \in 0..(MaxFunctions - 1) :
              (x * MaxFunctions + y) \div MaxFunctions = x /\ (x * MaxFunctions + y) % MaxFunctions = y
      BY <1>0
    <3> QED
      BY <2>2, <2>6, <3>1
  <2> QED
    BY <1>0, <2>1, <2>2, <2>5, <2>7 DEF place_at
<1>4. ASSUME NEW p \in Places, NEW q \in Places PROVE Before(p, q) <=> number(p) < number(q)
  <2>1. PICK i \in 1..L, j \in 1..MaxFunctions : p = <<i, j>>
    BY DEF Places, L
  <2>2. PICK k \in 1..L, l \in 1..MaxFunctions : q = <<k, l>>
    BY DEF Places, L
  <2>3. number(p) = (i - 1) * MaxFunctions + j /\ number(q) = (k - 1) * MaxFunctions + l
    BY <2>1, <2>2 DEF number
  <2>4. CASE i = k
    BY <1>0, <2>1, <2>2, <2>3, <2>4 DEF Before
  <2>5. CASE i < k
    <3>1. i * MaxFunctions <= (k - 1) * MaxFunctions
      BY <1>0, <2>5
    <3>2. (i - 1) * MaxFunctions + j <= i * MaxFunctions
      BY <1>0
    <3> QED
      BY <1>0, <2>1, <2>2, <2>3, <2>5, <3>1, <3>2 DEF Before
  <2>6. CASE k < i
    <3>1. k * MaxFunctions <= (i - 1) * MaxFunctions
      BY <1>0, <2>6
    <3>2. (k - 1) * MaxFunctions + l <= k * MaxFunctions
      BY <1>0
    <3> QED
      BY <1>0, <2>1, <2>2, <2>3, <2>6, <3>1, <3>2 DEF Before
  <2> QED
    BY <1>0, <2>4, <2>5, <2>6
<1> QED
  BY <1>1, <1>2, <1>3, <1>4

\* A place answers to the scan exactly when there is something that answers.
LEMMA ScanLooksEverywhere ==
    ASSUME IsBus(slots), NEW p \in Places
    PROVE  responds(p) <=> p \in Answering
<1>1. PICK i \in 1..Len(slots), j \in 1..MaxFunctions : p = <<i, j>>
  BY DEF Places
<1> DEFINE leading == header(<<i, 1>>)
<1>2. leading # Absent => leading.multifunction \in BOOLEAN
  BY DEF header, IsBus, IsFunction
<1>3. function_limit(i) = IF leading = Absent \/ leading.multifunction THEN MaxFunctions ELSE 1
  BY DEF function_limit
<1> HIDE DEF leading
<1>4. j \in Nat /\ 1 <= j /\ j <= MaxFunctions
  BY SizesAssumption
<1>5. j <= function_limit(i) <=> j = 1 \/ leading = Absent \/ leading.multifunction
  <2>1. CASE leading = Absent \/ leading.multifunction
    BY <1>3, <1>4, <2>1
  <2>2. CASE ~(leading = Absent \/ leading.multifunction)
    BY <1>3, <1>4, <2>2
  <2> QED
    BY <2>1, <2>2
<1>6. responds(p) <=> j <= function_limit(i) /\ header(p) # Absent
  BY <1>1 DEF responds
<1>7. p \in Answering <=> header(p) # Absent /\ (j = 1 \/ leading = Absent \/ leading.multifunction)
  BY <1>1 DEF Answering, leading, Places
<1> QED
  BY <1>5, <1>6, <1>7

LEMMA ScanUnfolds ==
    ASSUME IsBus(slots)
    PROVE  /\ scan[0] = <<>>
           /\ \A n \in 0..places : scan[n] \in Seq(Places)
           /\ \A n \in 1..places : scan[n] = IF responds(place_at(n))
                                             THEN Append(scan[n - 1], place_at(n))
                                             ELSE scan[n - 1]
<1> DEFINE S == Seq(Places)
           next == [n \in 1..places |-> [x \in S |-> IF responds(place_at(n))
                                                     THEN Append(x, place_at(n)) ELSE x]]
<1>1. places \in Nat /\ \A n \in 1..places : place_at(n) \in Places
  BY PlaceNumbers
<1>2. <<>> \in S
  OBVIOUS
<1>3. \A n \in 1..places, x \in S : Append(x, place_at(n)) \in S
  BY <1>1
<1>4. next \in [1..places -> [S -> S]]
  <2> HIDE DEF S
  <2> QED
    BY <1>3
<1>5. \A n \in 1..places, x \in S :
         next[n][x] = IF responds(place_at(n)) THEN Append(x, place_at(n)) ELSE x
  <2> HIDE DEF S
  <2> QED
    OBVIOUS
<1>6. PICK f \in [0..places -> S] : Recursion(f, places, <<>>, next)
  <2> HIDE DEF S, next
  <2> QED
    BY <1>1, <1>2, <1>4, RecursionExists
<1>7. \A n \in 0..places : f[n] = IF n = 0 THEN <<>> ELSE next[n][f[n - 1]]
  <2> HIDE DEF S, next
  <2> QED
    BY <1>6 DEF Recursion
<1>8. \A n \in 1..places : n \in 0..places /\ n - 1 \in 0..places /\ n # 0
  BY <1>1
<1>9. \A n \in 0..places : f[n] = IF n = 0 THEN <<>>
          ELSE IF responds(place_at(n)) THEN Append(f[n - 1], place_at(n)) ELSE f[n - 1]
  <2> SUFFICES ASSUME NEW n \in 0..places
               PROVE  f[n] = IF n = 0 THEN <<>>
          ELSE IF responds(place_at(n)) THEN Append(f[n - 1], place_at(n)) ELSE f[n - 1]
    OBVIOUS
  <2>1. CASE n = 0
    BY <1>7, <2>1
  <2>2. CASE n # 0
    <3>1. n \in 1..places /\ n - 1 \in 0..places
      BY <1>1, <2>2
    <3>2. f[n] = next[n][f[n - 1]] /\ f[n - 1] \in S
      <4> HIDE DEF S, next
      <4> QED
        BY <1>6, <1>7, <2>2, <3>1
    <3> HIDE DEF S, next
    <3> QED
      BY <1>5, <2>2, <3>1, <3>2
  <2> QED
    BY <2>1, <2>2
<1>10. f = [n \in 0..places |-> IF n = 0 THEN <<>>
          ELSE IF responds(place_at(n)) THEN Append(f[n - 1], place_at(n)) ELSE f[n - 1]]
  <2> HIDE DEF S
  <2> QED
    BY <1>6, <1>9
<1>11. scan = [n \in 0..places |-> IF n = 0 THEN <<>>
          ELSE IF responds(place_at(n)) THEN Append(scan[n - 1], place_at(n)) ELSE scan[n - 1]]
  BY <1>10 DEF scan
<1>12. \A n \in 0..places : scan[n] = IF n = 0 THEN <<>>
          ELSE IF responds(place_at(n)) THEN Append(scan[n - 1], place_at(n)) ELSE scan[n - 1]
  BY <1>11
<1>13. \A n \in 0..places : scan[n] \in S
  <2> DEFINE Bad == { n \in 0..places : scan[n] \notin S }
  <2>1. SUFFICES ASSUME Bad # {} PROVE FALSE
    OBVIOUS
  <2>2. Bad \in SUBSET Nat
    BY <1>1
  <2>3. PICK n \in Bad : \A k \in Bad : n <= k
    <3> HIDE DEF Bad
    <3> QED
      BY <2>1, <2>2, LeastElement
  <2>4. n \in 0..places /\ scan[n] \notin S
    BY <2>3
  <2>5. n # 0
    BY <1>2, <1>12, <2>4
  <2>6. n \in 1..places /\ n - 1 \in 0..places /\ ~(n <= n - 1)
    BY <1>1, <2>4, <2>5
  <2>7. scan[n - 1] \in S
    <3>1. n - 1 \notin Bad
      <4> HIDE DEF Bad
      <4> QED
        BY <2>3, <2>6
    <3> QED
      BY <2>6, <3>1
  <2> HIDE DEF S
  <2> QED
    BY <1>3, <1>12, <2>4, <2>5, <2>6, <2>7
<1> QED
  <2>1. scan[0] = <<>>
    <3>1. 0 \in 0..places
      BY <1>1
    <3> QED
      BY <1>12, <3>1
  <2> HIDE DEF S
  <2>2. \A n \in 1..places : scan[n] = IF responds(place_at(n))
                                       THEN Append(scan[n - 1], place_at(n)) ELSE scan[n - 1]
    BY <1>8, <1>12
  <2> QED
    BY <1>13, <2>1, <2>2 DEF S

-----------------------------------------------------------------------------
\* How many answer before a place, and so where the place is in the table.
Earlier(n) == { p \in Answering : number(p) <= n }
rank(p) == Cardinality({ q \in Answering : Before(q, p) })

Ranked(n) ==
    /\ IsFiniteSet(Earlier(n)) /\ Cardinality(Earlier(n)) = Len(scan[n])
    /\ \A p \in Earlier(n) : rank(p) + 1 \in 1..Len(scan[n]) /\ scan[n][rank(p) + 1] = p
    /\ \A i \in 1..Len(scan[n]) : \E p \in Earlier(n) : i = rank(p) + 1

LEMMA NextRanked ==
    ASSUME IsBus(slots), NEW n \in 1..places, Ranked(n - 1)
    PROVE  Ranked(n)
<1>0. places \in Nat /\ n \in Nat /\ n \in 0..places /\ n - 1 \in 0..places
  BY PlaceNumbers
<1>1. place_at(n) \in Places /\ number(place_at(n)) = n
  BY PlaceNumbers
<1>2. Answering \subseteq Places
  BY DEF Answering, Places
<1>3. \A p \in Answering : number(p) \in 1..places /\ (number(p) = n => p = place_at(n))
  BY <1>2, PlaceNumbers
<1>4. responds(place_at(n)) <=> place_at(n) \in Answering
  BY <1>1, ScanLooksEverywhere
<1>5. scan[n] = IF responds(place_at(n)) THEN Append(scan[n - 1], place_at(n)) ELSE scan[n - 1]
  BY ScanUnfolds
<1>6. scan[n - 1] \in Seq(Places)
  BY <1>0, ScanUnfolds
<1>7. CASE ~responds(place_at(n))
  <2>1. Earlier(n) = Earlier(n - 1)
    BY <1>0, <1>3, <1>4, <1>7 DEF Earlier
  <2> QED
    BY <1>5, <1>7, <2>1 DEF Ranked
<1>8. CASE responds(place_at(n))
  <2> DEFINE p0 == place_at(n)
             old == Earlier(n - 1)
  <2>1. p0 \in Answering /\ p0 \notin old /\ Earlier(n) = old \cup {p0}
    BY <1>0, <1>1, <1>3, <1>4, <1>8 DEF Earlier
  <2>2. { q \in Answering : Before(q, p0) } = old
    <3>1. \A q \in Answering : Before(q, p0) <=> number(q) < n
      BY <1>1, <1>2, PlaceNumbers
    <3>2. \A q \in Answering : number(q) < n <=> number(q) <= n - 1
      BY <1>0, <1>3
    <3> QED
      BY <3>1, <3>2 DEF Earlier
  <2>3. rank(p0) = Len(scan[n - 1])
    BY <2>2 DEF rank, Ranked
  <2>4. IsFiniteSet(Earlier(n)) /\ Cardinality(Earlier(n)) = Len(scan[n - 1]) + 1
    <3>1. IsFiniteSet(old) /\ Cardinality(old) = Len(scan[n - 1])
      BY DEF Ranked
    <3> HIDE DEF p0, old
    <3> QED
      BY <2>1, <3>1, FS_AddElement
  <2>5. scan[n] = Append(scan[n - 1], p0)
    BY <1>5, <1>8
  <2> HIDE DEF p0
  <2>6. /\ Len(scan[n - 1]) \in Nat /\ Len(scan[n]) = Len(scan[n - 1]) + 1
        /\ scan[n][Len(scan[n - 1]) + 1] = p0
        /\ \A i \in 1..Len(scan[n - 1]) : scan[n][i] = scan[n - 1][i]
    BY <1>1, <1>6, <2>5 DEF p0
  <2>7. ASSUME NEW p \in Earlier(n)
        PROVE  rank(p) + 1 \in 1..Len(scan[n]) /\ scan[n][rank(p) + 1] = p
    <3>1. CASE p = p0
      BY <2>3, <2>6, <3>1
    <3>2. CASE p \in old
      <4>1. rank(p) + 1 \in 1..Len(scan[n - 1]) /\ scan[n - 1][rank(p) + 1] = p
        BY <3>2 DEF Ranked
      <4> QED
        BY <2>6, <4>1
    <3> QED
      BY <2>1, <3>1, <3>2
  <2>8. ASSUME NEW i \in 1..Len(scan[n]) PROVE \E p \in Earlier(n) : i = rank(p) + 1
    <3>1. CASE i = Len(scan[n])
      BY <2>1, <2>3, <2>6, <3>1
    <3>2. CASE i # Len(scan[n])
      <4>1. i \in 1..Len(scan[n - 1])
        BY <2>6, <3>2
      <4>2. PICK p \in old : i = rank(p) + 1
        BY <4>1 DEF Ranked
      <4> QED
        BY <2>1, <4>2
    <3> QED
      BY <3>1, <3>2
  <2> QED
    BY <2>4, <2>6, <2>7, <2>8 DEF Ranked
<1> QED
  BY <1>7, <1>8

LEMMA AllRanked ==
    ASSUME IsBus(slots)
    PROVE  \A n \in 0..places : Ranked(n)
<1> DEFINE Bad == { n \in 0..places : ~Ranked(n) }
<1>1. SUFFICES ASSUME Bad # {} PROVE FALSE
  OBVIOUS
<1>2. places \in Nat /\ Bad \in SUBSET Nat
  BY PlaceNumbers
<1>3. PICK n \in Bad : \A k \in Bad : n <= k
  <2> HIDE DEF Bad
  <2> QED
    BY <1>1, <1>2, LeastElement
<1>4. n \in 0..places /\ ~Ranked(n)
  BY <1>3
<1>5. CASE n = 0
  <2>1. scan[0] = <<>> /\ Earlier(0) = {}
    <3>1. \A p \in Answering : number(p) \in 1..places
      BY PlaceNumbers DEF Answering, Places
    <3>2. \A p \in Answering : ~(number(p) <= 0)
      BY <1>2, <3>1
    <3> QED
      BY <3>2, ScanUnfolds DEF Earlier
  <2>2. Ranked(0)
    <3>1. Len(scan[0]) = 0 /\ 1..Len(scan[0]) = {}
      BY <2>1
    <3>2. IsFiniteSet({}) /\ Cardinality({}) = 0
      BY FS_EmptySet
    <3> QED
      BY <2>1, <3>1, <3>2 DEF Ranked
  <2> QED
    BY <1>4, <1>5, <2>2
<1>6. CASE n # 0
  <2>1. n \in 1..places /\ n - 1 \in 0..places /\ ~(n <= n - 1)
    BY <1>2, <1>4, <1>6
  <2>2. n - 1 \notin Bad
    <3> HIDE DEF Bad
    <3> QED
      BY <1>3, <2>1
  <2>3. Ranked(n - 1)
    BY <2>1, <2>2
  <2> QED
    BY <1>4, <2>1, <2>3, NextRanked
<1> QED
  BY <1>5, <1>6

LEMMA RanksGrow ==
    ASSUME IsBus(slots)
    PROVE  /\ IsFiniteSet(Answering)
           /\ \A p \in Answering : rank(p) \in Nat
           /\ \A p, q \in Answering : p = q \/ Before(p, q) \/ Before(q, p)
           /\ \A p, q \in Answering : Before(p, q) <=> rank(p) < rank(q)
<1>1. Answering \subseteq Places
  BY DEF Answering, Places
<1>2. places \in Nat /\ \A p \in Answering : number(p) \in 1..places /\ place_at(number(p)) = p
  BY <1>1, PlaceNumbers
<1>3. Earlier(places) = Answering
  BY <1>2 DEF Earlier
<1>4. IsFiniteSet(Answering)
  BY <1>2, <1>3, AllRanked DEF Ranked
<1>5. \A p, q \in Answering : Before(p, q) <=> number(p) < number(q)
  BY <1>1, PlaceNumbers
<1>6. \A p, q \in Answering : p = q \/ Before(p, q) \/ Before(q, p)
  <2> SUFFICES ASSUME NEW p \in Answering, NEW q \in Answering
               PROVE  p = q \/ Before(p, q) \/ Before(q, p)
    OBVIOUS
  <2>1. number(p) \in Nat /\ number(q) \in Nat
    BY <1>2
  <2>2. number(p) = number(q) => p = q
    BY <1>2
  <2> QED
    BY <1>5, <2>1, <2>2
<1> DEFINE Under(p) == { q \in Answering : Before(q, p) }
<1>7. \A p \in Answering : IsFiniteSet(Under(p)) /\ rank(p) \in Nat /\ rank(p) = Cardinality(Under(p))
  <2> SUFFICES ASSUME NEW p \in Answering
               PROVE  IsFiniteSet(Under(p)) /\ rank(p) \in Nat /\ rank(p) = Cardinality(Under(p))
    OBVIOUS
  <2>1. Under(p) \in SUBSET Answering /\ rank(p) = Cardinality(Under(p))
    BY DEF rank
  <2> HIDE DEF Under
  <2>2. IsFiniteSet(Under(p))
    BY <1>4, <2>1, FS_Subset
  <2> QED
    BY <2>1, <2>2, FS_CardinalityType
<1>8. ASSUME NEW p \in Answering, NEW q \in Answering, Before(p, q) PROVE rank(p) < rank(q)
  <2>1. Under(p) \cup {p} \subseteq Under(q) /\ p \notin Under(p)
    <3>1. \A r \in Answering : Before(r, p) => Before(r, q)
      BY <1>2, <1>5, <1>8
    <3>2. ~Before(p, p)
      BY <1>2, <1>5
    <3> QED
      BY <1>8, <3>1, <3>2
  <2> HIDE DEF Under
  <2>2. Cardinality(Under(p) \cup {p}) = rank(p) + 1
    BY <1>7, <2>1, FS_AddElement
  <2>3. Cardinality(Under(p) \cup {p}) <= Cardinality(Under(q))
    BY <1>7, <2>1, FS_Subset
  <2> QED
    BY <1>7, <2>2, <2>3
<1>9. \A p, q \in Answering : Before(p, q) <=> rank(p) < rank(q)
  <2> SUFFICES ASSUME NEW p \in Answering, NEW q \in Answering, rank(p) < rank(q)
               PROVE  Before(p, q)
    BY <1>8
  <2>1. p # q /\ ~(rank(q) < rank(p))
    <3>1. rank(p) \in Nat /\ rank(q) \in Nat
      BY <1>7
    <3>2. rank(p) # rank(q) /\ ~(rank(q) < rank(p))
      BY <3>1
    <3> QED
      BY <3>2
  <2> QED
    BY <1>6, <1>8, <2>1
<1> QED
  BY <1>4, <1>6, <1>7, <1>9

-----------------------------------------------------------------------------
\* The table holds the places of InTable, each at its rank.
TableHolds ==
    /\ Len(devices) \in Nat
    /\ \A p \in InTable : rank(p) + 1 \in 1..Len(devices) /\ devices[rank(p) + 1] = read_device(p)
    /\ \A i \in 1..Len(devices) : \E p \in InTable : i = rank(p) + 1

LEMMA TableIsFilled == IsBus(slots) /\ pci_init => TableHolds'
<1> SUFFICES ASSUME IsBus(slots), pci_init PROVE TableHolds'
  OBVIOUS
<1> DEFINE limit == IF Len(discovered) < PCI_MAX_DEVICES THEN Len(discovered) ELSE PCI_MAX_DEVICES
<1>1. places \in Nat /\ discovered = scan[places] /\ discovered \in Seq(Places)
  BY PlaceNumbers, ScanUnfolds DEF discovered
<1>2. limit \in Nat /\ \A i \in Nat : i < limit <=> i < Len(discovered) /\ i < PCI_MAX_DEVICES
  BY <1>1, SizesAssumption
<1>3. devices' = [i \in 1..limit |-> read_device(discovered[i])] /\ slots' = slots
  BY DEF pci_init
<1> HIDE DEF limit
<1>4. Len(devices') = limit /\ \A i \in 1..limit : devices'[i] = read_device(discovered[i])
  BY <1>2, <1>3
<1>5. Earlier(places) = Answering
  <2>1. \A p \in Answering : number(p) \in 1..places
    BY PlaceNumbers DEF Answering, Places
  <2> QED
    BY <1>1, <2>1 DEF Earlier
<1>6. /\ \A p \in Answering : rank(p) + 1 \in 1..Len(discovered) /\ discovered[rank(p) + 1] = p
      /\ \A i \in 1..Len(discovered) : \E p \in Answering : i = rank(p) + 1
  <2>1. Ranked(places)
    BY <1>1, AllRanked
  <2> QED
    BY <1>1, <1>5, <2>1 DEF Ranked
<1>7. \A p : p \in InTable <=> p \in Answering /\ rank(p) < PCI_MAX_DEVICES
  BY DEF InTable, rank
<1>8. InTable' = InTable /\ \A p : rank(p)' = rank(p) /\ read_device(p)' = read_device(p)
  <2>1. Answering' = Answering /\ \A p : header(p)' = header(p)
    BY <1>3 DEF Answering, header
  <2>2. InTable' = InTable
    BY <2>1 DEF InTable
  <2>3. ASSUME NEW p PROVE rank(p)' = rank(p)
    BY <2>1 DEF rank
  <2>4. ASSUME NEW p PROVE read_device(p)' = read_device(p)
    BY <2>1 DEF read_device
  <2> QED
    BY <2>2, <2>3, <2>4
<1>9. \A p \in Answering : rank(p) \in Nat
  BY RanksGrow
<1>10. \A p \in InTable : rank(p) + 1 \in 1..limit /\ devices'[rank(p) + 1] = read_device(p)
  <2> SUFFICES ASSUME NEW p \in InTable
               PROVE  rank(p) + 1 \in 1..limit /\ devices'[rank(p) + 1] = read_device(p)
    OBVIOUS
  <2>1. rank(p) \in Nat /\ rank(p) < PCI_MAX_DEVICES /\ rank(p) + 1 \in 1..Len(discovered)
        /\ discovered[rank(p) + 1] = p
    BY <1>6, <1>7, <1>9
  <2>2. rank(p) < limit
    BY <1>1, <1>2, <2>1
  <2>3. rank(p) + 1 \in 1..limit
    BY <1>2, <2>1, <2>2
  <2> QED
    BY <1>4, <2>1, <2>3
<1>11. \A i \in 1..limit : \E p \in InTable : i = rank(p) + 1
  <2> SUFFICES ASSUME NEW i \in 1..limit PROVE \E p \in InTable : i = rank(p) + 1
    OBVIOUS
  <2>1. i - 1 \in Nat /\ i - 1 < limit
    BY <1>2
  <2>2. i \in 1..Len(discovered) /\ i - 1 < PCI_MAX_DEVICES
    BY <1>1, <1>2, <2>1
  <2>3. PICK p \in Answering : i = rank(p) + 1
    BY <1>6, <2>2
  <2> QED
    BY <1>7, <1>9, <2>2, <2>3
<1> QED
  BY <1>2, <1>4, <1>8, <1>10, <1>11 DEF TableHolds

\* The first of some entries of the table is the first of their places.
LEMMA FirstEntryIsFirst ==
    ASSUME IsBus(slots), TableHolds, NEW T, T \subseteq InTable, NEW S, S \subseteq 1..Len(devices),
           \A p \in InTable : p \in T <=> rank(p) + 1 \in S
    PROVE  \/ S = {} /\ T = {} /\ first_index(S) = 0 /\ FirstOf(T) = Absent
           \/ /\ first_index(S) \in S /\ FirstOf(T) \in T
              /\ \A i \in S : first_index(S) <= i
              /\ first_index(S) = rank(FirstOf(T)) + 1
              /\ devices[first_index(S)] = read_device(FirstOf(T))
<1>1. CASE S = {}
  <2>1. T = {}
    BY <1>1
  <2> QED
    BY <1>1, <2>1 DEF first_index, FirstOf
<1>2. CASE S # {}
  <2>1. S \in SUBSET Nat
    BY DEF TableHolds
  <2>2. first_index(S) \in S /\ \A i \in S : first_index(S) <= i
    <3>1. \E m \in S : \A i \in S : m <= i
      BY <1>2, <2>1, LeastElement
    <3> QED
      BY <1>2, <3>1 DEF first_index
  <2> DEFINE m == first_index(S)
  <2>3. PICK p \in InTable : m = rank(p) + 1
    BY <2>2 DEF TableHolds
  <2> HIDE DEF m
  <2>4. p \in T /\ p \in Answering /\ T \subseteq Answering
    BY <2>2, <2>3 DEF m, InTable
  <2>5. \A q \in T \ {p} : Before(p, q)
    <3> SUFFICES ASSUME NEW q \in T, q # p PROVE Before(p, q)
      OBVIOUS
    <3>1. rank(q) + 1 \in S /\ rank(p) \in Nat /\ rank(q) \in Nat
      BY <2>4, RanksGrow
    <3>2. rank(p) <= rank(q)
      BY <2>2, <2>3, <3>1 DEF m
    <3>3. ~(rank(q) < rank(p))
      BY <3>1, <3>2
    <3> QED
      BY <2>4, <3>3, RanksGrow
  <2>6. \A q \in T : (\A r \in T \ {q} : Before(q, r)) => q = p
    <3> SUFFICES ASSUME NEW q \in T, \A r \in T \ {q} : Before(q, r), q # p PROVE FALSE
      OBVIOUS
    <3>1. Before(q, p) /\ Before(p, q)
      BY <2>4, <2>5
    <3>2. rank(p) \in Nat /\ rank(q) \in Nat /\ rank(p) < rank(q) /\ rank(q) < rank(p)
      BY <2>4, <3>1, RanksGrow
    <3> QED
      BY <3>2
  <2>7. FirstOf(T) = p
    BY <2>4, <2>5, <2>6 DEF FirstOf
  <2>8. devices[m] = read_device(p)
    BY <2>3 DEF TableHolds
  <2> QED
    BY <2>2, <2>3, <2>4, <2>7, <2>8 DEF m
<1> QED
  BY <1>1, <1>2

-----------------------------------------------------------------------------
\* The chain of capabilities, as the scan follows it.
Chain(f, at) ==
    /\ at[0] = f.first_cap
    /\ \A k \in 1..PCI_MAX_CAPABILITIES :
          LET next == capability(f, at[k - 1]).next
          IN  at[k] = IF at[k - 1] \notin FirstCap..LastCap \/ next <= at[k - 1] THEN 0 ELSE next

LEMMA ChainIsFollowed ==
    ASSUME NEW f, IsFunction(f), f.header_type = 0
    PROVE  \E at \in [0..PCI_MAX_CAPABILITIES -> Nat] :
              /\ Chain(f, at)
              /\ read_capabilities(f) =
                    { capability(f, at[k]) :
                        k \in { k \in 0..(PCI_MAX_CAPABILITIES - 1) : at[k] \in FirstCap..LastCap } }
<1> DEFINE N == PCI_MAX_CAPABILITIES
           after(o) == IF o \notin FirstCap..LastCap \/ capability(f, o).next <= o
                       THEN 0 ELSE capability(f, o).next
           next == [k \in 1..N |-> [o \in Nat |-> after(o)]]
           visited(at) == { k \in 0..(N - 1) : at[k] \in FirstCap..LastCap }
<1>1. N \in Nat /\ f.first_cap \in Nat
  BY SizesAssumption DEF IsFunction
<1>2. \A o \in Nat : after(o) \in Nat
  BY DEF capability, IsFunction
<1> HIDE DEF after
<1>3. next \in [1..N -> [Nat -> Nat]] /\ \A k \in 1..N, o \in Nat : next[k][o] = after(o)
  BY <1>2
<1> HIDE DEF N, next
<1>4. PICK at \in [0..N -> Nat] : Recursion(at, N, f.first_cap, next)
  BY <1>1, <1>3, RecursionExists
<1>5. \A k \in 0..N : at[k] = IF k = 0 THEN f.first_cap ELSE after(at[k - 1])
  <2> SUFFICES ASSUME NEW k \in 0..N
               PROVE  at[k] = IF k = 0 THEN f.first_cap ELSE after(at[k - 1])
    OBVIOUS
  <2>1. at[k] = IF k = 0 THEN f.first_cap ELSE next[k][at[k - 1]]
    BY <1>4 DEF Recursion
  <2>2. k # 0 => k \in 1..N /\ at[k - 1] \in Nat
    BY <1>1, <1>4
  <2> QED
    BY <1>3, <2>1, <2>2
<1>6. at = [k \in 0..N |-> IF k = 0 THEN f.first_cap ELSE after(at[k - 1])]
  BY <1>4, <1>5
<1> DEFINE from == CHOOSE g : g = [k \in 0..N |-> IF k = 0 THEN f.first_cap ELSE after(g[k - 1])]
<1>7. from = [k \in 0..N |-> IF k = 0 THEN f.first_cap ELSE after(from[k - 1])]
  BY <1>6
<1>8. read_capabilities(f) = { capability(f, from[k]) : k \in visited(from) }
  BY DEF read_capabilities, N, after
<1> HIDE DEF from
<1>9. \A k \in 0..N : from[k] = IF k = 0 THEN f.first_cap ELSE after(from[k - 1])
  BY <1>7
<1>10. \A k \in 0..N : from[k] \in Nat
  <2> DEFINE Bad == { k \in 0..N : from[k] \notin Nat }
  <2>1. SUFFICES ASSUME Bad # {} PROVE FALSE
    OBVIOUS
  <2>2. Bad \in SUBSET Nat
    BY <1>1
  <2>3. PICK k \in Bad : \A j \in Bad : k <= j
    <3> HIDE DEF Bad
    <3> QED
      BY <2>1, <2>2, LeastElement
  <2>4. k \in 0..N /\ from[k] \notin Nat /\ k # 0
    BY <1>1, <1>9, <2>3
  <2>5. k - 1 \in 0..N /\ ~(k <= k - 1)
    BY <1>1, <2>4
  <2>6. from[k - 1] \in Nat
    <3>1. k - 1 \notin Bad
      <4> HIDE DEF Bad
      <4> QED
        BY <2>3, <2>5
    <3> QED
      BY <2>5, <3>1
  <2> QED
    BY <1>2, <1>9, <2>4, <2>6
<1>11. from \in [0..N -> Nat]
  BY <1>7, <1>10
<1>12. Chain(f, from)
  <2>1. 0 \in 0..N /\ \A k \in 1..N : k \in 0..N /\ k # 0
    BY <1>1
  <2>2. from[0] = f.first_cap /\ \A k \in 1..N : from[k] = after(from[k - 1])
    BY <1>9, <2>1
  <2> QED
    BY <2>2 DEF Chain, N, after
<1> QED
  BY <1>8, <1>11, <1>12 DEF N

\* What the scan has read of a chain is what the chain reaches.
LEMMA ReadIsReached ==
    ASSUME NEW f, IsFunction(f), f.header_type = 0, NEW type
    PROVE  (\E c \in read_capabilities(f) : c.id = VirtioCap /\ c.type = type)
           <=> \E n \in 1..PCI_MAX_CAPABILITIES : \E s \in Reaches(f, n) : \E i \in 1..n :
                   f.config[s[i]].id = VirtioCap /\ f.config[s[i]].type = type
<1> DEFINE N == PCI_MAX_CAPABILITIES
           inside(o) == o \in FirstCap..LastCap
<1>1. PICK at \in [0..N -> Nat] :
          /\ Chain(f, at)
          /\ read_capabilities(f) =
                { capability(f, at[k]) : k \in { k \in 0..(N - 1) : inside(at[k]) } }
  BY ChainIsFollowed
<1>2. N \in Nat /\ ~inside(0) /\ \A o : inside(o) => o \in Nat
  BY SizesAssumption
<1> HIDE DEF inside
<1>3. \A k \in 1..N : /\ k - 1 \in 0..(N - 1) /\ at[k - 1] \in Nat
                      /\ at[k] = IF ~inside(at[k - 1]) \/ capability(f, at[k - 1]).next <= at[k - 1]
                                 THEN 0 ELSE capability(f, at[k - 1]).next
  BY <1>1, <1>2 DEF Chain, inside
<1>4. \A o : /\ o \in DOMAIN f.config => capability(f, o) = f.config[o]
             /\ o \notin DOMAIN f.config => capability(f, o).id = 0 /\ capability(f, o).next = 0
  BY DEF capability
<1>5. ASSUME NEW c \in read_capabilities(f), c.id = VirtioCap, c.type = type
      PROVE  \E n \in 1..N : \E s \in Reaches(f, n) : \E i \in 1..n :
                 f.config[s[i]].id = VirtioCap /\ f.config[s[i]].type = type
  <2>1. PICK k \in 0..(N - 1) : inside(at[k]) /\ c = capability(f, at[k])
    BY <1>1
  <2>2. at[k] \in DOMAIN f.config
    BY <1>4, <1>5, <2>1, VirtioAssumption
  <2>3. \A j \in 0..k : inside(at[j]) /\ at[j] \in DOMAIN f.config
    <3> DEFINE Bad == { d \in 0..k : ~(inside(at[k - d]) /\ at[k - d] \in DOMAIN f.config) }
    <3>1. Bad = {}
      <4>1. SUFFICES ASSUME Bad # {} PROVE FALSE
        OBVIOUS
      <4>2. Bad \in SUBSET Nat
        OBVIOUS
      <4>3. PICK d \in Bad : \A e \in Bad : d <= e
        <5> HIDE DEF Bad
        <5> QED
          BY <4>1, <4>2, LeastElement
      <4>4. d \in 0..k /\ ~(inside(at[k - d]) /\ at[k - d] \in DOMAIN f.config)
        BY <4>3
      <4>5. d # 0
        BY <2>1, <2>2, <4>4
      <4>6. d - 1 \in 0..k /\ ~(d <= d - 1) /\ k - (d - 1) = (k - d) + 1
            /\ (k - d) + 1 \in 1..N /\ ((k - d) + 1) - 1 = k - d /\ k - d \in 0..k
        BY <1>2, <2>1, <4>4, <4>5
      <4>7. inside(at[(k - d) + 1])
        <5>1. d - 1 \notin Bad
          <6> HIDE DEF Bad
          <6> QED
            BY <4>3, <4>6
        <5> QED
          BY <4>6, <5>1
      <4>8. at[(k - d) + 1] = 0
        <5>1. at[k - d] \in Nat
          BY <1>3, <4>6
        <5>2. ~inside(at[k - d]) \/ capability(f, at[k - d]).next <= at[k - d]
          BY <1>4, <4>4, <5>1
        <5> QED
          BY <1>3, <4>6, <5>2
      <4> QED
        BY <1>2, <4>7, <4>8
    <3> SUFFICES ASSUME NEW j \in 0..k PROVE inside(at[j]) /\ at[j] \in DOMAIN f.config
      OBVIOUS
    <3>2. k - j \in 0..k /\ k - (k - j) = j
      OBVIOUS
    <3>3. k - j \notin Bad
      BY <3>1
    <3> QED
      BY <3>2, <3>3
  <2> DEFINE n == k + 1
             s == [i \in 1..n |-> at[i - 1]]
  <2>4. n \in 1..N /\ \A i \in 1..n : i - 1 \in 0..k /\ s[i] = at[i - 1]
    BY <1>2, <2>1
  <2>5. s \in [1..n -> DOMAIN f.config] /\ \A i \in 1..n : s[i] \in FirstCap..LastCap
    BY <2>3, <2>4 DEF inside
  <2>6. s[1] = f.first_cap
    <3>1. 1 \in 1..n /\ at[0] = f.first_cap
      BY <1>1, <2>4 DEF Chain
    <3> QED
      BY <2>4, <3>1
  <2>7. \A i \in 1..(n - 1) : s[i + 1] = f.config[s[i]].next /\ s[i + 1] > s[i]
    <3> SUFFICES ASSUME NEW i \in 1..k PROVE s[i + 1] = f.config[s[i]].next /\ s[i + 1] > s[i]
      BY <2>1
    <3>1. /\ i \in 1..n /\ i + 1 \in 1..n /\ i \in 1..N /\ i - 1 \in 0..k /\ i \in 0..k
          /\ (i + 1) - 1 = i
      BY <1>2, <2>1
    <3>2. s[i] = at[i - 1] /\ s[i + 1] = at[i]
      BY <3>1
    <3>3. inside(at[i]) /\ inside(at[i - 1]) /\ at[i - 1] \in DOMAIN f.config /\ at[i - 1] \in Nat
      BY <1>3, <2>3, <3>1
    <3>4. capability(f, at[i - 1]) = f.config[at[i - 1]] /\ f.config[at[i - 1]].next \in Nat
      BY <1>4, <3>3 DEF IsFunction
    <3>5. at[i] # 0
      BY <1>2, <3>3
    <3>6. at[i] = f.config[at[i - 1]].next /\ ~(f.config[at[i - 1]].next <= at[i - 1])
      BY <1>3, <3>1, <3>3, <3>4, <3>5
    <3> HIDE DEF s
    <3> QED
      BY <3>2, <3>3, <3>4, <3>6
  <2>8. s \in Reaches(f, n)
    <3> HIDE DEF s, n
    <3> QED
      BY <2>5, <2>6, <2>7 DEF Reaches
  <2>9. n \in 1..n /\ s[n] = at[k] /\ f.config[at[k]] = c
    BY <1>4, <2>1, <2>2, <2>4
  <2> HIDE DEF s, n
  <2> QED
    BY <1>5, <2>4, <2>8, <2>9
<1>6. ASSUME NEW n \in 1..N, NEW s \in Reaches(f, n), NEW i \in 1..n,
             f.config[s[i]].id = VirtioCap, f.config[s[i]].type = type
      PROVE  \E c \in read_capabilities(f) : c.id = VirtioCap /\ c.type = type
  <2>1. /\ n \in Nat /\ n > 0 /\ n <= N
        /\ \A j \in 1..n : s[j] \in DOMAIN f.config /\ inside(s[j])
        /\ s[1] = f.first_cap
        /\ \A j \in 1..(n - 1) : s[j + 1] = f.config[s[j]].next /\ s[j + 1] > s[j]
    BY <1>2 DEF Reaches, inside
  <2>2. \A j \in 1..n : at[j - 1] = s[j]
    <3> DEFINE Bad == { j \in 1..n : at[j - 1] # s[j] }
    <3>1. SUFFICES ASSUME Bad # {} PROVE FALSE
      OBVIOUS
    <3>2. Bad \in SUBSET Nat
      OBVIOUS
    <3>3. PICK j \in Bad : \A k \in Bad : j <= k
      <4> HIDE DEF Bad
      <4> QED
        BY <3>1, <3>2, LeastElement
    <3>4. j \in 1..n /\ at[j - 1] # s[j]
      BY <3>3
    <3>5. j # 1
      BY <1>1, <2>1, <3>4 DEF Chain
    <3>6. /\ j - 1 \in 1..n /\ j - 1 \in 1..(n - 1) /\ ~(j <= j - 1) /\ j - 1 \in 1..N
          /\ (j - 1) + 1 = j
      <4>1. n \in Nat /\ n <= N /\ N \in Nat /\ j \in 1..n /\ j # 1
        BY <1>2, <2>1, <3>4, <3>5
      <4> HIDE DEF N, Bad
      <4> QED
        BY <4>1
    <3>7. at[(j - 1) - 1] = s[j - 1]
      <4>1. j - 1 \notin Bad
        <5> HIDE DEF Bad
        <5> QED
          BY <3>3, <3>6
      <4> QED
        BY <3>6, <4>1
    <3> DEFINE o == s[j - 1]
    <3>8. /\ inside(o) /\ o \in DOMAIN f.config /\ s[j] = f.config[o].next /\ s[j] > o
          /\ o \in Nat /\ f.config[o].next \in Nat
      BY <1>2, <2>1, <3>6 DEF IsFunction
    <3>9. at[j - 1] = IF ~inside(o) \/ capability(f, o).next <= o THEN 0 ELSE capability(f, o).next
      BY <1>3, <3>6, <3>7
    <3>10. capability(f, o) = f.config[o] /\ ~(f.config[o].next <= o)
      BY <1>4, <3>8
    <3> HIDE DEF o
    <3> QED
      BY <3>4, <3>8, <3>9, <3>10
  <2>3. i - 1 \in 0..(N - 1) /\ at[i - 1] = s[i] /\ inside(s[i]) /\ s[i] \in DOMAIN f.config
    <3>1. i - 1 \in 0..(N - 1)
      BY <1>2, <2>1
    <3> QED
      BY <2>1, <2>2, <3>1
  <2>4. capability(f, at[i - 1]) \in read_capabilities(f)
    BY <1>1, <2>3
  <2>5. capability(f, at[i - 1]) = f.config[s[i]]
    BY <1>4, <2>3
  <2> QED
    BY <1>6, <2>4, <2>5
<1> QED
  BY <1>5, <1>6

-----------------------------------------------------------------------------
\* The first entry of a class is the one no other precedes.
LEMMA ClassZero ==
    ASSUME Len(devices) \in Nat, NEW class
    PROVE  pci_find_class(class, 0) = first_index(of_class(class, Len(devices)))
<1> DEFINE S == of_class(class, Len(devices))
           Z == { i \in S : Cardinality(of_class(class, i - 1)) = 0 }
<1>1. \A i \in S : i \in Nat /\ i \in 1..Len(devices)
  BY DEF of_class
<1>2. \A i \in S : IsFiniteSet(of_class(class, i - 1))
                   /\ (Cardinality(of_class(class, i - 1)) = 0 <=> of_class(class, i - 1) = {})
  <2> SUFFICES ASSUME NEW i \in S
               PROVE  IsFiniteSet(of_class(class, i - 1))
                      /\ (Cardinality(of_class(class, i - 1)) = 0 <=> of_class(class, i - 1) = {})
    OBVIOUS
  <2>1. i - 1 \in Int /\ 1 \in Int
    BY <1>1
  <2>2. IsFiniteSet(1..(i - 1)) /\ of_class(class, i - 1) \in SUBSET (1..(i - 1))
    BY <2>1, FS_Interval DEF of_class
  <2>3. IsFiniteSet(of_class(class, i - 1))
    BY <2>2, FS_Subset
  <2> QED
    BY <2>3, FS_EmptySet
<1>3. \A i \in S : of_class(class, i - 1) = {} <=> \A j \in S : i <= j
  <2> SUFFICES ASSUME NEW i \in S
               PROVE  of_class(class, i - 1) = {} <=> \A j \in S : i <= j
    OBVIOUS
  <2>1. of_class(class, i - 1) = { j \in S : j < i }
    BY <1>1 DEF of_class
  <2>2. \A j \in S : j < i <=> ~(i <= j)
    BY <1>1
  <2> QED
    BY <2>1, <2>2
<1>4. Z = { i \in S : \A j \in S : i <= j }
  BY <1>2, <1>3
<1>5. pci_find_class(class, 0) = first_index(Z)
  BY DEF pci_find_class
<1> HIDE DEF Z, S
<1>6. CASE S = {}
  BY <1>4, <1>5, <1>6 DEF S
<1>7. CASE S # {}
  <2>1. S \in SUBSET Nat
    BY <1>1
  <2>2. PICK m \in S : \A j \in S : m <= j
    BY <1>7, <2>1, LeastElement
  <2>3. Z = {m}
    <3>1. \A i \in S : (\A j \in S : i <= j) => i = m
      BY <2>1, <2>2
    <3> QED
      BY <1>4, <2>2, <3>1
  <2>4. first_index(Z) = m
    BY <2>1, <2>3 DEF first_index
  <2>5. \A i \in S : (\A j \in S : i <= j) => i = m
    BY <2>1, <2>2
  <2>6. first_index(S) = m
    BY <1>7, <2>2, <2>5 DEF first_index
  <2> QED
    BY <1>5, <2>4, <2>6 DEF S
<1> QED
  BY <1>6, <1>7

\* What a driver finds by class is the first place of that class.
LEMMA ClassIsFirst ==
    ASSUME IsBus(slots), TableHolds, NEW class
    PROVE  LET T == OfClass(class)
               i == pci_find_class(class, 0)
           IN  \/ T = {} /\ i = 0 /\ FirstOf(T) = Absent
               \/ T # {} /\ i # 0 /\ FirstOf(T) \in T /\ devices[i] = read_device(FirstOf(T))
<1> DEFINE T == OfClass(class)
           S == of_class(class, Len(devices))
<1>1. S \subseteq 1..Len(devices) /\ T \subseteq InTable
  BY DEF of_class, OfClass
<1>2. \A p \in InTable : p \in T <=> rank(p) + 1 \in S
  <2> SUFFICES ASSUME NEW p \in InTable PROVE p \in T <=> rank(p) + 1 \in S
    OBVIOUS
  <2>1. rank(p) + 1 \in 1..Len(devices) /\ devices[rank(p) + 1].class = header(p).class
    <3>1. rank(p) + 1 \in 1..Len(devices) /\ devices[rank(p) + 1] = read_device(p)
      BY DEF TableHolds
    <3>2. read_device(p).class = header(p).class
      BY DEF read_device
    <3> QED
      BY <3>1, <3>2
  <2> QED
    BY <2>1 DEF OfClass, of_class
<1>3. pci_find_class(class, 0) = first_index(S)
  BY ClassZero DEF TableHolds
<1> HIDE DEF T, S
<1>4. \A j \in S : j # 0
  BY <1>1 DEF TableHolds
<1>5. \/ S = {} /\ T = {} /\ first_index(S) = 0 /\ FirstOf(T) = Absent
      \/ first_index(S) \in S /\ FirstOf(T) \in T /\ devices[first_index(S)] = read_device(FirstOf(T))
  BY <1>1, <1>2, FirstEntryIsFirst
<1> QED
  BY <1>3, <1>4, <1>5 DEF T

LEMMA VirtioIsFirst ==
    ASSUME IsBus(slots), TableHolds
    PROVE  LET i == first_index({ i \in 1..Len(devices) : devices[i].virtio_gpu })
           IN  \/ Virtio = {} /\ i = 0 /\ FirstOf(Virtio) = Absent
               \/ /\ Virtio # {} /\ i # 0 /\ FirstOf(Virtio) \in Virtio
                  /\ devices[i] = read_device(FirstOf(Virtio))
<1> DEFINE S == { i \in 1..Len(devices) : devices[i].virtio_gpu }
<1>1. S \subseteq 1..Len(devices) /\ Virtio \subseteq InTable
  BY DEF Virtio
<1>2. \A p \in InTable : p \in Virtio <=> rank(p) + 1 \in S
  <2> SUFFICES ASSUME NEW p \in InTable PROVE p \in Virtio <=> rank(p) + 1 \in S
    OBVIOUS
  <2>1. rank(p) + 1 \in 1..Len(devices) /\ devices[rank(p) + 1].virtio_gpu = header(p).virtio_gpu
    <3>1. rank(p) + 1 \in 1..Len(devices) /\ devices[rank(p) + 1] = read_device(p)
      BY DEF TableHolds
    <3>2. read_device(p).virtio_gpu = header(p).virtio_gpu
      BY DEF read_device
    <3> QED
      BY <3>1, <3>2
  <2> QED
    BY <2>1 DEF Virtio
<1> HIDE DEF S
<1>3. \A j \in S : j # 0
  BY <1>1 DEF TableHolds
<1>4. \/ S = {} /\ Virtio = {} /\ first_index(S) = 0 /\ FirstOf(Virtio) = Absent
      \/ /\ first_index(S) \in S /\ FirstOf(Virtio) \in Virtio
         /\ devices[first_index(S)] = read_device(FirstOf(Virtio))
  BY <1>1, <1>2, FirstEntryIsFirst
<1> QED
  BY <1>3, <1>4 DEF S

\* The capabilities a function has for its transport.
HasTransport(f) ==
    LET has(type) == f.header_type = 0 /\ \E n \in 1..PCI_MAX_CAPABILITIES : \E s \in Reaches(f, n) :
                        \E i \in 1..n : /\ f.config[s[i]].id = VirtioCap
                                        /\ f.config[s[i]].type = type
    IN  has(Common) /\ has(Notify) /\ has(Device)

LEMMA TransportFollowed ==
    ASSUME IsBus(slots), NEW place \in InTable
    PROVE  transport_ready(read_device(place)) <=> HasTransport(header(place))
<1> DEFINE f == header(place)
           has(type) == f.header_type = 0 /\ \E n \in 1..PCI_MAX_CAPABILITIES :
                            \E s \in Reaches(f, n) : \E i \in 1..n :
                                f.config[s[i]].id = VirtioCap /\ f.config[s[i]].type = type
<1>1. HasTransport(header(place)) <=> has(Common) /\ has(Notify) /\ has(Device)
  BY DEF HasTransport
<1>2. IsFunction(f)
  BY DEF InTable, Answering, header, IsBus
<1>3. read_device(place).capabilities = read_capabilities(f)
  BY DEF read_device
<1> HIDE DEF f
<1>4. ASSUME NEW type
      PROVE  (\E c \in read_capabilities(f) : c.id = VirtioCap /\ c.type = type) <=> has(type)
  <2>1. CASE f.header_type = 0
    BY <1>2, <2>1, ReadIsReached
  <2>2. CASE f.header_type # 0
    BY <2>2 DEF read_capabilities
  <2> QED
    BY <2>1, <2>2
<1> HIDE DEF has
<1> QED
  BY <1>1, <1>3, <1>4 DEF transport_ready

LEMMA DisplayFound == IsBus(slots) /\ TableHolds /\ gpu_init /\ UNCHANGED slots
                         => DisplayIsFirst' /\ TransportIsReal'
<1> SUFFICES ASSUME IsBus(slots), TableHolds, gpu_init, slots' = slots
             PROVE  DisplayIsFirst' /\ TransportIsReal'
  OBVIOUS
<1> DEFINE vga == pci_find_class("vga", 0)
           virtio == first_index({ i \in 1..Len(devices) : devices[i].virtio_gpu })
           accelerator == pci_find_class("3d", 0)
           Choice == IF OfClass("vga") # {} THEN OfClass("vga")
                     ELSE IF Virtio # {} THEN Virtio ELSE OfClass("3d")
           place == FirstOf(Choice)
           index == candidate.index
           kind == candidate.kind
<1>1. /\ index = IF vga # 0 THEN vga ELSE IF virtio # 0 THEN virtio ELSE accelerator
      /\ kind = IF vga # 0 THEN "display" ELSE IF virtio # 0 THEN "virtio" ELSE "acceleration"
  BY DEF candidate
<1>2. \/ OfClass("vga") = {} /\ vga = 0 /\ FirstOf(OfClass("vga")) = Absent
      \/ /\ OfClass("vga") # {} /\ vga # 0 /\ FirstOf(OfClass("vga")) \in OfClass("vga")
         /\ devices[vga] = read_device(FirstOf(OfClass("vga")))
  BY ClassIsFirst
<1>3. \/ OfClass("3d") = {} /\ accelerator = 0 /\ FirstOf(OfClass("3d")) = Absent
      \/ /\ OfClass("3d") # {} /\ accelerator # 0 /\ FirstOf(OfClass("3d")) \in OfClass("3d")
         /\ devices[accelerator] = read_device(FirstOf(OfClass("3d")))
  BY ClassIsFirst
<1>4. \/ Virtio = {} /\ virtio = 0 /\ FirstOf(Virtio) = Absent
      \/ /\ Virtio # {} /\ virtio # 0 /\ FirstOf(Virtio) \in Virtio
         /\ devices[virtio] = read_device(FirstOf(Virtio))
  BY VirtioIsFirst
<1> HIDE DEF vga, virtio, accelerator
<1>5. \/ index = 0 /\ place = Absent
      \/ index # 0 /\ place \in InTable /\ devices[index] = read_device(place)
  <2>1. OfClass("vga") \subseteq InTable /\ OfClass("3d") \subseteq InTable /\ Virtio \subseteq InTable
    BY DEF OfClass, Virtio
  <2> HIDE DEF index, kind
  <2>2. CASE vga # 0
    BY <1>1, <1>2, <2>1, <2>2
  <2>3. CASE vga = 0 /\ virtio # 0
    BY <1>1, <1>2, <1>4, <2>1, <2>3
  <2>4. CASE vga = 0 /\ virtio = 0
    BY <1>1, <1>2, <1>3, <1>4, <2>1, <2>4
  <2> QED
    BY <2>2, <2>3, <2>4
<1>6. display' = IF index = 0 THEN NoDisplay
                 ELSE [place |-> devices[index].place, kind |-> kind,
                       mmio_base |-> memory_bar(devices[index]),
                       virtio_transport_ready |-> kind = "virtio" /\ transport_ready(devices[index])]
  BY DEF gpu_init
<1> HIDE DEF index, kind
<1>7. display'.place = place
  BY <1>5, <1>6 DEF read_device, NoDisplay
<1>8. Choice' = Choice /\ place' = place
  BY DEF OfClass, Virtio, InTable, Answering, header
<1>9. DisplayIsFirst'
  <2>1. DisplayIsFirst <=> display.place = place
    BY DEF DisplayIsFirst
  <2> QED
    BY <1>7, <1>8 DEF DisplayIsFirst
<1>10. TransportIsReal'
  <2>1. TransportIsReal' <=> (display'.kind = "virtio" =>
             (display'.virtio_transport_ready <=> HasTransport(header(display.place)')))
    BY DEF TransportIsReal, HasTransport
  <2>2. SUFFICES ASSUME display'.kind = "virtio"
                 PROVE  display'.virtio_transport_ready <=> HasTransport(header(place))
    <3>1. header(display.place)' = header(display'.place)
      BY DEF header
    <3> HIDE DEF place
    <3> QED
      BY <1>7, <2>1, <3>1
  <2>3. index # 0 /\ place \in InTable /\ devices[index] = read_device(place) /\ kind = "virtio"
    BY <1>5, <1>6, <2>2 DEF NoDisplay
  <2>4. display'.virtio_transport_ready <=> transport_ready(devices[index])
    BY <1>6, <2>3
  <2> QED
    BY <2>3, <2>4, TransportFollowed
<1> QED
  BY <1>9, <1>10

-----------------------------------------------------------------------------
(***************************************************************************)
(* The USB controller's driver, beside a controller that posts what it     *)
(* will in its own time.                                                   *)
(***************************************************************************)

RingEntries == 0..(RingSize - 1)
UsbCommands == [owned : BOOLEAN, command : {Null, "enable_slot", "address_device"}]
UsbEvents == [cycle : BOOLEAN, kind : {Null, "port", "completion"}, success : BOOLEAN,
              slot : {0, 1, MaxSlots + 1}]
Early == {"find", "reset", "alloc", "rings", "ports", "slot"}
Late  == {"context", "address", "addressing"}

UsbType ==
    /\ DOMAIN controller = {"place", "present", "ready", "rings_ready", "active_port",
                            "enabled_slot", "context_ready", "address_ready"}
    /\ DOMAIN hc = {"dequeue", "enqueue", "doorbell", "port_events", "slots"}
    /\ hc.dequeue \in {0, 1} /\ hc.enqueue \in RingEntries
    /\ rings \in [command : [0..1 -> UsbCommands], event : [RingEntries -> UsbEvents], index : RingEntries]
    /\ step \in Early \cup {"enabling", "done"} \cup Late

\* The events the driver has not seen are those between the two positions:
\* the controller stops before it would come round.
EventsWaiting ==
    /\ rings.index <= hc.enqueue
    /\ \A i \in RingEntries : rings.event[i].cycle <=> rings.index <= i /\ i < hc.enqueue

\* The controller executes the first command, and never another: its dequeue
\* pointer goes on to an entry the driver does not write.
OneCommand ==
    /\ ~rings.command[1].owned
    /\ step \in Early => ~rings.command[0].owned /\ hc.dequeue = 0
    /\ step \in Late => hc.dequeue = 1
    /\ step = "enabling" /\ hc.dequeue = 0 => rings.command[0].owned /\ hc.doorbell
    /\ hardware.answers = "prompt" /\ step = "done" /\ hc.dequeue = 0
          => ~Usb!room \/ ~rings.command[0].owned

Posted == 0..(hc.enqueue - 1)
Completes(c) ==
    /\ rings.event[c].kind = "completion"
    /\ \A i \in Posted : rings.event[i].kind = "completion" => i = c
    /\ rings.event[c].success <=> rings.event[c].slot # 0
    /\ hardware.answers = "prompt" => rings.event[c].slot \in 0..MaxSlots
    /\ hc.slots = {rings.event[c].slot} \ {0}
    /\ step = "enabling" => rings.index <= c /\ controller.enabled_slot = 0
    /\ step # "enabling" => controller.enabled_slot \in {0, rings.event[c].slot}
    /\ step # "enabling" /\ (step # "done" \/ hardware.answers = "prompt")
          => controller.enabled_slot = rings.event[c].slot

\* So there is one completion at most, and the slot is the one it names.
OneCompletion ==
    /\ hc.dequeue = 0 => /\ hc.slots = {} /\ controller.enabled_slot = 0
                         /\ \A i \in Posted : rings.event[i].kind # "completion"
    /\ hc.dequeue = 1 => \E c \in Posted : Completes(c)

UsbIInv == UsbType /\ EventsWaiting /\ OneCommand /\ OneCompletion

LEMMA UsbInitIInv == Usb!XhciInit => UsbIInv
<1> SUFFICES ASSUME Usb!XhciInit PROVE UsbIInv
  OBVIOUS
<1> USE UsbAssumption DEF Usb!XhciInit
<1>1. UsbType
  BY DEF UsbType, RingEntries, UsbCommands, UsbEvents, Usb!NoCommand, Usb!NoEvent, Early
<1>2. EventsWaiting
  BY DEF EventsWaiting, RingEntries, Usb!NoEvent
<1>3. OneCommand
  BY DEF OneCommand, Usb!NoCommand, Early, Late
<1>4. OneCompletion
  BY DEF OneCompletion, Posted
<1> QED
  BY <1>1, <1>2, <1>3, <1>4 DEF UsbIInv

\* What a step of the driver that leaves the rings alone may do.
LEMMA DriverKeeps ==
    ASSUME UsbIInv, UNCHANGED <<hardware, rings>>, UsbType',
           hc' = hc \/ hc' = [hc EXCEPT !.port_events = hc'.port_events],
           controller'.enabled_slot = controller.enabled_slot,
           \/ step \in Early /\ step' \in Early \cup {"done"}
           \/ step \in Late /\ step' \in Late \cup {"done"}
           \/ step = "enabling" /\ step' = "done" /\
              (hardware.answers = "prompt" => ~Usb!event.cycle /\ ~Usb!working)
    PROVE  UsbIInv'
<1>1. /\ hc'.dequeue = hc.dequeue /\ hc'.enqueue = hc.enqueue /\ hc'.doorbell = hc.doorbell
      /\ hc'.slots = hc.slots
  BY DEF UsbIInv, UsbType
<1>2. EventsWaiting'
  BY <1>1 DEF UsbIInv, EventsWaiting
<1>3. OneCommand'
  <2>1. CASE step = "enabling"
    <3>1. step' = "done" /\ (hardware.answers = "prompt" => ~Usb!working)
      BY <2>1 DEF Early, Late
    <3>2. hc.dequeue = 0 => rings.command[0].owned /\ hc.doorbell
      BY <2>1 DEF UsbIInv, OneCommand
    <3>3. hardware.answers = "prompt" /\ hc.dequeue = 0 => ~Usb!room
      BY <3>1, <3>2 DEF Usb!working, Usb!fetchable
    <3> QED
      BY <1>1, <3>1, <3>3 DEF UsbIInv, OneCommand, Usb!room, Early, Late
  <2>2. CASE step # "enabling"
    BY <1>1, <2>2 DEF UsbIInv, OneCommand, Usb!room, Early, Late
  <2> QED
    BY <2>1, <2>2
<1>4. OneCompletion'
  <2>1. CASE hc.dequeue = 0
    BY <1>1, <2>1 DEF UsbIInv, OneCompletion, Posted
  <2>2. CASE hc.dequeue = 1
    <3>1. PICK c \in Posted : Completes(c)
      BY <2>2 DEF UsbIInv, OneCompletion
    <3>2. step \notin Early
      BY <2>2 DEF UsbIInv, OneCommand
    <3>3. CASE step = "enabling"
      <4>1. hardware.answers # "prompt"
        <5>1. SUFFICES ASSUME ~Usb!event.cycle PROVE FALSE
          BY <3>3 DEF Early, Late
        <5>2. rings.index \in RingEntries /\ hc.enqueue \in RingEntries /\ rings.index <= c /\ c < hc.enqueue
          BY <3>1, <3>3 DEF UsbIInv, UsbType, Completes, Posted, RingEntries
        <5>3. Usb!event.cycle
          BY <5>2, UsbAssumption DEF Usb!event, UsbIInv, EventsWaiting, RingEntries, Posted
        <5> QED
          BY <5>1, <5>3
      <4> QED
        BY <1>1, <2>2, <3>1, <3>3, <4>1 DEF OneCompletion, Completes, Posted, Early, Late
    <3>4. CASE step # "enabling"
      BY <1>1, <2>2, <3>1, <3>2, <3>4 DEF OneCompletion, Completes, Posted, Early, Late
    <3> QED
      BY <3>3, <3>4
  <2> QED
    BY <2>1, <2>2 DEF UsbIInv, UsbType
<1> QED
  BY <1>2, <1>3, <1>4 DEF UsbIInv

LEMMA AllocStep ==
    ASSUME NEW last, NEW next, NEW failed, Usb!alloc_page(last, next, failed)
    PROVE  step' \in {step, next, failed}
BY DEF Usb!alloc_page

\* A command is written while the controller waits at the first entry, or has
\* gone past it.
LEMMA CommandStep ==
    ASSUME UsbIInv, NEW command \in {"enable_slot", "address_device"}, Usb!ring_command(command),
           UNCHANGED <<hardware, controller>>,
           \/ step = "slot" /\ step' = "enabling"
           \/ step = "address" /\ step' = "addressing"
    PROVE  UsbIInv'
<1>1. /\ rings' = [rings EXCEPT !.command[0] = [owned |-> TRUE, command |-> command]]
      /\ hc' = [hc EXCEPT !.doorbell = TRUE]
  BY DEF Usb!ring_command
<1>2. UsbType
  BY DEF UsbIInv
<1>3. /\ hc'.dequeue = hc.dequeue /\ hc'.enqueue = hc.enqueue /\ hc'.slots = hc.slots
      /\ hc'.doorbell = TRUE /\ DOMAIN hc' = DOMAIN hc
  BY <1>1, <1>2 DEF UsbType
<1>4. /\ rings' \in [command : [0..1 -> UsbCommands], event : [RingEntries -> UsbEvents], index : RingEntries]
      /\ rings'.event = rings.event /\ rings'.index = rings.index
      /\ rings'.command[0].owned = TRUE /\ rings'.command[1] = rings.command[1]
  <2> DEFINE trb == [owned |-> TRUE, command |-> command]
  <2>1. trb \in UsbCommands /\ trb.owned = TRUE
    BY DEF UsbCommands
  <2> HIDE DEF trb
  <2>2. rings' = [rings EXCEPT !.command = [rings.command EXCEPT ![0] = trb]]
    BY <1>1 DEF trb
  <2>3. /\ rings.command \in [0..1 -> UsbCommands]
        /\ rings \in [command : [0..1 -> UsbCommands], event : [RingEntries -> UsbEvents], index : RingEntries]
    BY <1>2 DEF UsbType
  <2>4. /\ [rings.command EXCEPT ![0] = trb] \in [0..1 -> UsbCommands]
        /\ [rings.command EXCEPT ![0] = trb][0] = trb
        /\ [rings.command EXCEPT ![0] = trb][1] = rings.command[1]
    BY <2>1, <2>3
  <2> QED
    BY <2>1, <2>2, <2>3, <2>4
<1>5. UsbType'
  BY <1>2, <1>3, <1>4 DEF UsbType, Late
<1>6. EventsWaiting'
  BY <1>3, <1>4 DEF UsbIInv, EventsWaiting
<1>7. OneCommand'
  BY <1>3, <1>4 DEF UsbIInv, OneCommand, Early, Late
<1>8. OneCompletion'
  BY <1>3, <1>4 DEF UsbIInv, OneCompletion, OneCommand, Completes, Posted, Early, Late
<1> QED
  BY <1>5, <1>6, <1>7, <1>8 DEF UsbIInv

\* What a poll that finds an event leaves behind.
LEMMA NextEvent ==
    ASSUME UsbIInv, Usb!next_event, UNCHANGED <<hardware, hc>>
    PROVE  /\ rings' \in [command : [0..1 -> UsbCommands], event : [RingEntries -> UsbEvents], index : RingEntries]
           /\ rings'.command = rings.command
           /\ rings'.index = rings.index + 1 /\ rings.index \in Posted
           /\ \A i \in RingEntries : /\ rings'.event[i].kind = rings.event[i].kind
                                 /\ rings'.event[i].success = rings.event[i].success
                                 /\ rings'.event[i].slot = rings.event[i].slot
           /\ EventsWaiting'
<1>1. /\ Usb!event.cycle
      /\ rings' = [rings EXCEPT !.event[rings.index].cycle = FALSE,
                                !.index = (rings.index + 1) % RingSize]
  BY DEF Usb!next_event
<1>2. UsbType /\ rings.index \in RingEntries /\ hc.enqueue \in RingEntries
  BY DEF UsbIInv, UsbType
<1>3. rings.index < hc.enqueue /\ rings.index \in Posted
  BY <1>1, <1>2, UsbAssumption DEF UsbIInv, EventsWaiting, Usb!event, Posted, RingEntries
<1>4. (rings.index + 1) % RingSize = rings.index + 1
  <2>1. rings.index + 1 \in Nat /\ rings.index + 1 < RingSize
    BY <1>2, <1>3, UsbAssumption DEF RingEntries
  <2> QED
    BY <2>1, UsbAssumption
<1>5. rings.index + 1 \in RingEntries
  BY <1>2, <1>3, UsbAssumption DEF RingEntries
<1>6. rings'.index = rings.index + 1 /\ rings'.command = rings.command
  BY <1>1, <1>2, <1>4 DEF UsbType
<1>7. rings'.event = [rings.event EXCEPT ![rings.index].cycle = FALSE]
  BY <1>1, <1>2 DEF UsbType
<1>8. /\ rings'.event \in [RingEntries -> UsbEvents]
      /\ rings'.event[rings.index].cycle = FALSE
      /\ \A i \in RingEntries : i # rings.index => rings'.event[i] = rings.event[i]
      /\ \A i \in RingEntries : /\ rings'.event[i].kind = rings.event[i].kind
                            /\ rings'.event[i].success = rings.event[i].success
                            /\ rings'.event[i].slot = rings.event[i].slot
  <2>1. rings.event \in [RingEntries -> UsbEvents] /\ rings.event[rings.index] \in UsbEvents
    BY <1>2 DEF UsbType
  <2> DEFINE seen == [rings.event[rings.index] EXCEPT !.cycle = FALSE]
  <2>2. /\ seen \in UsbEvents /\ seen.cycle = FALSE
        /\ seen.kind = rings.event[rings.index].kind
        /\ seen.success = rings.event[rings.index].success
        /\ seen.slot = rings.event[rings.index].slot
    BY <2>1 DEF UsbEvents
  <2>3. rings'.event = [rings.event EXCEPT ![rings.index] = seen]
    BY <1>7
  <2> HIDE DEF seen
  <2>4. rings'.event \in [RingEntries -> UsbEvents] /\ rings'.event[rings.index] = seen
    BY <1>2, <2>1, <2>2, <2>3
  <2>5. \A i \in RingEntries : i # rings.index => rings'.event[i] = rings.event[i]
    BY <1>2, <2>1, <2>3
  <2> QED
    BY <2>2, <2>4, <2>5
<1>9. rings' \in [command : [0..1 -> UsbCommands], event : [RingEntries -> UsbEvents], index : RingEntries]
  <2>1. rings' = [rings EXCEPT !.event = rings'.event, !.index = rings'.index]
    BY <1>1, <1>2 DEF UsbType
  <2>2. rings'.index \in RingEntries /\ rings'.event \in [RingEntries -> UsbEvents]
    BY <1>5, <1>6, <1>8
  <2> QED
    BY <1>2, <2>1, <2>2 DEF UsbType
<1>10. EventsWaiting'
  <2>1. \A i \in RingEntries : i \in Nat
    BY UsbAssumption DEF RingEntries
  <2>2. rings'.index <= hc'.enqueue
    BY <1>2, <1>3, <1>6, <2>1
  <2>3. ASSUME NEW i \in RingEntries
        PROVE  rings'.event[i].cycle <=> rings'.index <= i /\ i < hc'.enqueue
    <3>1. CASE i = rings.index
      BY <1>2, <1>6, <1>8, <2>1, <3>1
    <3>2. CASE i # rings.index
      BY <1>2, <1>6, <1>8, <2>1, <3>2 DEF UsbIInv, EventsWaiting
    <3> QED
      BY <3>1, <3>2
  <2> QED
    BY <2>2, <2>3 DEF EventsWaiting
<1> QED
  BY <1>3, <1>6, <1>8, <1>9, <1>10

LEMMA PollStep ==
    ASSUME UsbIInv, Usb!next_event, UNCHANGED <<hardware, hc>>, UsbType',
           \/ /\ step = "enabling"
              /\ IF ~Usb!is_completion(Usb!event) THEN UNCHANGED <<controller, step>>
                 ELSE IF Usb!event.success /\ Usb!event.slot \in 1..MaxSlots
                 THEN controller'.enabled_slot = Usb!event.slot /\ step' = "context"
                 ELSE step' = "done" /\ UNCHANGED controller
           \/ /\ step = "addressing" /\ step' \in {"addressing", "done"}
              /\ controller'.enabled_slot = controller.enabled_slot
    PROVE  UsbIInv'
<1>1. /\ rings'.command = rings.command
      /\ rings'.index = rings.index + 1 /\ rings.index \in Posted
      /\ \A i \in RingEntries : /\ rings'.event[i].kind = rings.event[i].kind
                            /\ rings'.event[i].success = rings.event[i].success
                            /\ rings'.event[i].slot = rings.event[i].slot
      /\ EventsWaiting'
  BY NextEvent
<1>2. Posted' = Posted /\ Posted \subseteq RingEntries
  BY UsbAssumption DEF UsbIInv, UsbType, Posted, RingEntries
<1>3. step # "enabling" => step \in Late /\ hc.dequeue = 1
  BY DEF UsbIInv, OneCommand, Late
<1>4. CASE hc.dequeue = 0
  <2>1. step = "enabling" /\ ~Usb!is_completion(Usb!event) /\ UNCHANGED <<controller, step>>
    BY <1>1, <1>3, <1>4 DEF Usb!is_completion, Usb!event, UsbIInv, OneCompletion
  <2>2. OneCommand'
    BY <1>1, <2>1 DEF UsbIInv, OneCommand, Early, Late
  <2>3. OneCompletion'
    BY <1>1, <1>2, <1>4, <2>1 DEF UsbIInv, OneCompletion
  <2> QED
    BY <1>1, <2>2, <2>3 DEF UsbIInv
<1>5. CASE hc.dequeue = 1
  <2>1. PICK c \in Posted : Completes(c)
    BY <1>5 DEF UsbIInv, OneCompletion
  <2>2. c \in RingEntries /\ c \in Nat /\ rings.index \in Nat /\ rings.event[c].slot \in Nat
    <3>1. c \in RingEntries /\ rings.index \in RingEntries
      BY <1>1, <1>2, <2>1
    <3>2. rings.event[c] \in UsbEvents
      BY <3>1 DEF UsbIInv, UsbType
    <3> QED
      BY <3>1, <3>2, UsbAssumption DEF RingEntries, UsbEvents
  <2>3. OneCommand'
    BY <1>1, <1>5 DEF UsbIInv, OneCommand, Early, Late
  <2>4. step = "enabling" => (Usb!is_completion(Usb!event) <=> rings.index = c)
    BY <1>1, <2>1 DEF Usb!is_completion, Usb!event, Completes
  <2>5. Completes(c)'
    <3>0. /\ rings'.event[c].kind = rings.event[c].kind
          /\ rings'.event[c].success = rings.event[c].success
          /\ rings'.event[c].slot = rings.event[c].slot
          /\ \A i \in Posted : rings'.event[i].kind = rings.event[i].kind
          /\ hc' = hc /\ hardware' = hardware
      BY <1>1, <1>2, <2>2
    <3>1. CASE step = "enabling" /\ ~Usb!is_completion(Usb!event)
      <4>1. rings.index # c /\ controller' = controller /\ step' = step
        BY <2>4, <3>1
      <4>2. rings'.index <= c
        <5>1. rings.index <= c
          BY <2>1, <3>1 DEF Completes
        <5> QED
          BY <1>1, <2>2, <4>1, <5>1
      <4> QED
        BY <1>2, <2>1, <3>0, <3>1, <4>1, <4>2 DEF Completes
    <3>2. CASE step = "enabling" /\ Usb!is_completion(Usb!event) /\ Usb!event.success /\ Usb!event.slot \in 1..MaxSlots
      <4>1. rings.index = c /\ controller'.enabled_slot = rings.event[c].slot /\ step' = "context"
        BY <2>4, <3>2 DEF Usb!event
      <4> QED
        BY <1>2, <2>1, <2>2, <3>0, <3>2, <4>1 DEF Completes
    <3>3. CASE step = "enabling" /\ Usb!is_completion(Usb!event) /\ ~(Usb!event.success /\ Usb!event.slot \in 1..MaxSlots)
      <4>1. rings.index = c /\ controller' = controller /\ step' = "done"
        BY <2>4, <3>3 DEF Usb!event
      <4>2. controller.enabled_slot = 0 /\ ~(rings.event[c].success /\ rings.event[c].slot \in 1..MaxSlots)
        BY <2>1, <3>3, <4>1 DEF Completes, Usb!event
      <4>3. hardware.answers = "prompt" => rings.event[c].slot = 0
        <5>1. MaxSlots \in Nat /\ (rings.event[c].success <=> rings.event[c].slot # 0)
          BY <2>1, UsbAssumption DEF Completes
        <5>2. hardware.answers = "prompt" => rings.event[c].slot \in 0..MaxSlots
          BY <2>1 DEF Completes
        <5> QED
          BY <2>2, <4>2, <5>1, <5>2
      <4> QED
        BY <1>2, <2>1, <2>2, <3>0, <3>3, <4>1, <4>2, <4>3 DEF Completes
    <3>4. CASE step = "addressing"
      BY <1>2, <2>1, <2>2, <3>0, <3>4 DEF Completes
    <3> QED
      BY <3>1, <3>2, <3>3, <3>4
  <2>6. OneCompletion'
    BY <1>2, <1>5, <2>1, <2>5 DEF OneCompletion
  <2> QED
    BY <1>1, <2>3, <2>6 DEF UsbIInv
<1> QED
  BY <1>4, <1>5 DEF UsbIInv, UsbType

\* An event that is posted is the next one to wait.
LEMMA PostStep ==
    ASSUME UsbIInv, NEW e \in UsbEvents, e.cycle, Usb!post(e), DOMAIN hc' = DOMAIN hc,
           hc'.enqueue = hc.enqueue + 1,
           \/ /\ e.kind = "port" /\ hc'.slots = hc.slots
              /\ hc'.dequeue = hc.dequeue /\ hc'.doorbell = hc.doorbell
           \/ /\ e.kind = "completion" /\ Usb!fetchable
              /\ hc'.dequeue = hc.dequeue + 1 /\ hc'.slots = {e.slot} \ {0}
              /\ e.success <=> e.slot # 0
              /\ hardware.answers = "prompt" => e.slot \in 0..MaxSlots
    PROVE  UsbIInv'
<1>1. /\ Usb!room /\ rings' = [rings EXCEPT !.event[hc.enqueue] = e]
      /\ UNCHANGED <<hardware, controller, step>>
  BY DEF Usb!post
<1>2. UsbType /\ hc.enqueue \in RingEntries /\ rings.index \in RingEntries /\ rings.event \in [RingEntries -> UsbEvents]
  BY DEF UsbIInv, UsbType
<1>3. hc.enqueue + 1 \in RingEntries
  <2>1. hc.enqueue + 1 <= RingSize /\ hc.enqueue \in Nat
    BY <1>2, UsbAssumption DEF RingEntries
  <2>2. RingSize % RingSize = 0
    BY UsbAssumption
  <2>3. hc.enqueue + 1 # RingSize
    BY <1>1, <2>2 DEF Usb!room
  <2> QED
    BY <2>1, <2>3, UsbAssumption DEF RingEntries
<1>4. /\ rings' \in [command : [0..1 -> UsbCommands], event : [RingEntries -> UsbEvents], index : RingEntries]
      /\ rings'.command = rings.command /\ rings'.index = rings.index
      /\ rings'.event = [rings.event EXCEPT ![hc.enqueue] = e]
  BY <1>1, <1>2 DEF UsbType
<1>5. /\ rings'.event[hc.enqueue] = e
      /\ \A i \in RingEntries : i # hc.enqueue => rings'.event[i] = rings.event[i]
  BY <1>2, <1>4
<1>6. EventsWaiting'
  <2>1. \A i \in RingEntries : i \in Nat
    BY UsbAssumption DEF RingEntries
  <2>2. rings'.index <= hc'.enqueue
    BY <1>2, <1>4, <2>1 DEF UsbIInv, EventsWaiting
  <2>3. ASSUME NEW i \in RingEntries
        PROVE  rings'.event[i].cycle <=> rings'.index <= i /\ i < hc'.enqueue
    <3>1. CASE i = hc.enqueue
      BY <1>2, <1>4, <1>5, <2>1, <3>1 DEF UsbIInv, EventsWaiting
    <3>2. CASE i # hc.enqueue
      BY <1>2, <1>4, <1>5, <2>1, <3>2 DEF UsbIInv, EventsWaiting
    <3> QED
      BY <3>1, <3>2
  <2> QED
    BY <2>2, <2>3 DEF EventsWaiting
<1>7. Posted' = Posted \cup {hc.enqueue} /\ Posted \subseteq RingEntries /\ hc.enqueue \notin Posted
  BY <1>2, UsbAssumption DEF Posted, RingEntries
<1>8. CASE /\ e.kind = "port" /\ hc'.slots = hc.slots
           /\ hc'.dequeue = hc.dequeue /\ hc'.doorbell = hc.doorbell
  <2>1. UsbType'
    BY <1>1, <1>2, <1>3, <1>4, <1>8 DEF UsbType
  <2>2. OneCommand'
    BY <1>1, <1>4, <1>8 DEF UsbIInv, OneCommand, Usb!room
  <2>3. OneCompletion'
    <3>1. CASE hc.dequeue = 0
      BY <1>1, <1>5, <1>7, <1>8, <3>1 DEF UsbIInv, OneCompletion
    <3>2. CASE hc.dequeue = 1
      <4>1. PICK c \in Posted : Completes(c)
        BY <3>2 DEF UsbIInv, OneCompletion
      <4>2. rings'.event[c] = rings.event[c]
        BY <1>5, <1>7
      <4>3. Completes(c)'
        BY <1>1, <1>4, <1>5, <1>7, <1>8, <4>1, <4>2 DEF Completes
      <4> QED
        BY <1>7, <1>8, <3>2, <4>3 DEF OneCompletion
    <3> QED
      BY <1>2, <3>1, <3>2 DEF UsbType
  <2> QED
    BY <1>6, <2>1, <2>2, <2>3 DEF UsbIInv
<1>9. CASE /\ e.kind = "completion" /\ Usb!fetchable
           /\ hc'.dequeue = hc.dequeue + 1 /\ hc'.slots = {e.slot} \ {0}
           /\ e.success <=> e.slot # 0
           /\ hardware.answers = "prompt" => e.slot \in 0..MaxSlots
  <2>1. hc.dequeue = 0 /\ rings.command[0].owned
    BY <1>2, <1>9 DEF Usb!fetchable, UsbIInv, OneCommand, UsbType
  <2>2. step \notin Early /\ step \notin Late
    BY <2>1 DEF UsbIInv, OneCommand
  <2>3. step = "done" => hardware.answers # "prompt"
    BY <1>1, <2>1 DEF UsbIInv, OneCommand
  <2>4. UsbType'
    BY <1>1, <1>2, <1>3, <1>4, <1>9, <2>1 DEF UsbType
  <2>5. OneCommand'
    BY <1>1, <1>4, <1>9, <2>1, <2>2 DEF UsbIInv, OneCommand, Usb!room
  <2>6. ASSUME NEW c, c = hc.enqueue PROVE Completes(c)'
    <3>1. rings.index <= hc.enqueue /\ controller.enabled_slot = 0
      BY <2>1 DEF UsbIInv, EventsWaiting, OneCompletion
    <3>2. \A i \in Posted : rings'.event[i].kind # "completion"
      BY <1>5, <1>7, <2>1 DEF UsbIInv, OneCompletion
    <3>3. step \in {"enabling", "done"}
      BY <1>2, <2>2 DEF UsbType
    <3>4. /\ rings'.event[hc.enqueue].kind = "completion"
          /\ rings'.event[hc.enqueue].slot = e.slot
          /\ rings'.event[hc.enqueue].success = e.success
      BY <1>5, <1>9
    <3>5. \A i \in Posted' : rings'.event[i].kind = "completion" => i = hc.enqueue
      BY <1>7, <3>2
    <3>6. /\ hc'.slots = {e.slot} \ {0} /\ (e.success <=> e.slot # 0)
          /\ rings'.index <= hc.enqueue /\ controller'.enabled_slot = 0
          /\ step' = step /\ hardware' = hardware
          /\ hardware.answers = "prompt" => e.slot \in 0..MaxSlots
      BY <1>1, <1>4, <1>9, <3>1
    <3> QED
      BY <2>3, <2>6, <3>3, <3>4, <3>5, <3>6 DEF Completes
  <2>7. OneCompletion'
    <3>1. hc.enqueue \in Posted' /\ hc'.dequeue = 1
      BY <1>7, <1>9, <2>1
    <3> QED
      BY <2>6, <3>1 DEF OneCompletion
  <2> QED
    BY <1>6, <2>4, <2>5, <2>7 DEF UsbIInv
<1> QED
  BY <1>8, <1>9

LEMMA UsbNextIInv == UsbIInv /\ [Usb!Driver \/ Usb!Controller]_usbVars => UsbIInv'
<1> SUFFICES ASSUME UsbIInv, [Usb!Driver \/ Usb!Controller]_usbVars PROVE UsbIInv'
  OBVIOUS
<1>0. UsbType
  BY DEF UsbIInv
<1>1. CASE UNCHANGED usbVars
  BY <1>1 DEF usbVars, UsbIInv, UsbType, EventsWaiting, OneCommand, OneCompletion, Completes,
              Posted, Usb!room
<1>2. CASE Usb!Find
  <2>1. UsbType' /\ controller'.enabled_slot = controller.enabled_slot
    BY <1>0, <1>2 DEF Usb!Find, UsbType, Early
  <2> QED
    BY <1>2, <2>1, DriverKeeps DEF Usb!Find, Early
<1>3. CASE Usb!HaltAndReset
  <2>1. UsbType' /\ controller'.enabled_slot = controller.enabled_slot
    BY <1>0, <1>3 DEF Usb!HaltAndReset, UsbType, Early
  <2>2. step = "reset" /\ step' \in {"alloc", "done"}
    BY <1>3 DEF Usb!HaltAndReset
  <2> QED
    BY <1>3, <2>1, <2>2, DriverKeeps DEF Usb!HaltAndReset, Early
<1>4. CASE Usb!AllocRings
  <2>1. step' \in {step, "rings", "done"}
    BY <1>4, AllocStep DEF Usb!AllocRings
  <2>2. UsbType'
    BY <1>0, <1>4, <2>1 DEF Usb!AllocRings, UsbType, Early
  <2> QED
    BY <1>4, <2>1, <2>2, DriverKeeps DEF Usb!AllocRings, Early
<1>5. CASE Usb!StartRings
  <2>1. /\ controller' = [controller EXCEPT !.rings_ready = TRUE]
        /\ hc' = [hc EXCEPT !.port_events = Usb!Cardinality(Usb!connected)]
        /\ UNCHANGED <<hardware, rings>> /\ step = "rings" /\ step' \in {"done", "ports"}
    BY <1>5 DEF Usb!StartRings
  <2>2. hc' = [hc EXCEPT !.port_events = hc'.port_events]
    BY <1>0, <2>1 DEF UsbType
  <2>3. UsbType' /\ controller'.enabled_slot = controller.enabled_slot
    BY <1>0, <2>1 DEF UsbType, Early
  <2> QED
    BY <2>1, <2>2, <2>3, DriverKeeps DEF Early
<1>6. CASE Usb!xhci_reset_connected_ports
  <2>1. PICK active, finished :
            /\ controller' = [controller EXCEPT !.active_port = active]
            /\ hc' = [hc EXCEPT !.port_events = @ + Usb!Cardinality(finished)]
    BY <1>6 DEF Usb!xhci_reset_connected_ports
  <2>2. UNCHANGED <<hardware, rings>> /\ step = "ports" /\ step' \in {"done", "slot"}
    BY <1>6 DEF Usb!xhci_reset_connected_ports
  <2>3. hc' = [hc EXCEPT !.port_events = hc'.port_events]
    BY <1>0, <2>1 DEF UsbType
  <2>4. UsbType' /\ controller'.enabled_slot = controller.enabled_slot
    BY <1>0, <2>1, <2>2 DEF UsbType, Early
  <2> QED
    BY <2>2, <2>3, <2>4, DriverKeeps DEF Early
<1>7. CASE Usb!xhci_enable_slot
  BY <1>7, CommandStep DEF Usb!xhci_enable_slot
<1>8. CASE Usb!xhci_address_device
  BY <1>8, CommandStep DEF Usb!xhci_address_device
<1>9. CASE Usb!PollSlot
  <2>1. Usb!next_event /\ UNCHANGED <<hardware, hc>> /\ step = "enabling"
    BY <1>9 DEF Usb!PollSlot
  <2>2. IF ~Usb!is_completion(Usb!event) THEN UNCHANGED <<controller, step>>
        ELSE IF Usb!event.success /\ Usb!event.slot \in 1..MaxSlots
        THEN controller' = [controller EXCEPT !.enabled_slot = Usb!event.slot] /\ step' = "context"
        ELSE step' = "done" /\ UNCHANGED controller
    BY <1>9 DEF Usb!PollSlot
  <2>3. rings' \in [command : [0..1 -> UsbCommands], event : [RingEntries -> UsbEvents], index : RingEntries]
    BY <2>1, NextEvent
  <2>4. UsbType'
    BY <1>0, <2>1, <2>2, <2>3 DEF UsbType, Late
  <2>5. controller' = [controller EXCEPT !.enabled_slot = Usb!event.slot]
           => controller'.enabled_slot = Usb!event.slot
    BY <1>0 DEF UsbType
  <2> QED
    BY <2>1, <2>2, <2>4, <2>5, PollStep
<1>10. CASE Usb!PollAddress
  <2>1. Usb!next_event /\ UNCHANGED <<hardware, hc>> /\ step = "addressing"
    BY <1>10 DEF Usb!PollAddress
  <2>2. /\ step' \in {"addressing", "done"}
        /\ \/ controller' = controller
           \/ \E v : controller' = [controller EXCEPT !.address_ready = v]
    BY <1>10 DEF Usb!PollAddress
  <2>3. rings' \in [command : [0..1 -> UsbCommands], event : [RingEntries -> UsbEvents], index : RingEntries]
    BY <2>1, NextEvent
  <2>4. DOMAIN controller' = DOMAIN controller /\ controller'.enabled_slot = controller.enabled_slot
    BY <1>0, <2>2 DEF UsbType
  <2>5. UsbType'
    BY <1>0, <2>1, <2>2, <2>3, <2>4 DEF UsbType, Late
  <2> QED
    BY <2>1, <2>2, <2>4, <2>5, PollStep
<1>11. CASE Usb!GiveUpSlot \/ Usb!GiveUpAddress
  <2>1. UsbType'
    BY <1>0, <1>11 DEF Usb!GiveUpSlot, Usb!GiveUpAddress, UsbType
  <2>2. step = "enabling" \/ step \in Late
    BY <1>11 DEF Usb!GiveUpSlot, Usb!GiveUpAddress, Late
  <2> QED
    BY <1>11, <2>1, <2>2, DriverKeeps DEF Usb!GiveUpSlot, Usb!GiveUpAddress, Usb!limit_reached
<1>12. CASE Usb!xhci_prepare_device_context
  <2>1. /\ step = "context" /\ step' \in {step, "address", "done"}
        /\ controller' = [controller EXCEPT !.context_ready = (step' = "address")]
        /\ UNCHANGED <<hardware, rings, hc>>
    BY <1>12, AllocStep DEF Usb!xhci_prepare_device_context
  <2>2. UsbType' /\ controller'.enabled_slot = controller.enabled_slot
    BY <1>0, <2>1 DEF UsbType, Late
  <2> QED
    BY <2>1, <2>2, DriverKeeps DEF Late
<1>13. CASE Usb!PostPortEvent
  <2> DEFINE e == [cycle |-> TRUE, kind |-> "port", success |-> TRUE, slot |-> 0]
  <2>1. Usb!post(e) /\ hc' = [hc EXCEPT !.port_events = @ - 1, !.enqueue = @ + 1]
    BY <1>13 DEF Usb!PostPortEvent
  <2>2. e \in UsbEvents /\ e.cycle /\ e.kind = "port"
    BY DEF UsbEvents
  <2>3. /\ DOMAIN hc' = DOMAIN hc /\ hc'.enqueue = hc.enqueue + 1 /\ hc'.slots = hc.slots
        /\ hc'.dequeue = hc.dequeue /\ hc'.doorbell = hc.doorbell
    BY <1>0, <2>1 DEF UsbType
  <2> HIDE DEF e
  <2> QED
    BY <2>1, <2>2, <2>3, PostStep
<1>14. CASE Usb!ExecuteCommand
  <2> DEFINE granted == Usb!granted
             e == [cycle |-> TRUE, kind |-> "completion", success |-> granted # 0, slot |-> granted]
  <2>1. /\ Usb!post(e) /\ Usb!fetchable
        /\ hc' = [hc EXCEPT !.dequeue = @ + 1, !.enqueue = @ + 1, !.slots = {granted} \ {0}]
    BY <1>14 DEF Usb!ExecuteCommand
  <2>2. /\ granted \in {0, 1, MaxSlots + 1}
        /\ hardware.answers = "prompt" => granted \in 0..MaxSlots
    BY UsbAssumption DEF Usb!granted
  <2> HIDE DEF granted
  <2>3. /\ e \in UsbEvents /\ e.cycle /\ e.kind = "completion" /\ e.slot = granted
        /\ e.success <=> e.slot # 0
    BY <2>2 DEF UsbEvents
  <2>4. /\ DOMAIN hc' = DOMAIN hc /\ hc'.enqueue = hc.enqueue + 1
        /\ hc'.dequeue = hc.dequeue + 1 /\ hc'.slots = {granted} \ {0}
    BY <1>0, <2>1 DEF UsbType
  <2> HIDE DEF e
  <2> QED
    BY <2>1, <2>2, <2>3, <2>4, PostStep
<1>15. CASE Usb!StopFetching
  <2>1. /\ hc' = [hc EXCEPT !.doorbell = FALSE] /\ ~Usb!fetchable
        /\ UNCHANGED <<hardware, controller, rings, step>>
    BY <1>15 DEF Usb!StopFetching
  <2>2. /\ DOMAIN hc' = DOMAIN hc /\ hc'.enqueue = hc.enqueue
        /\ hc'.dequeue = hc.dequeue /\ hc'.slots = hc.slots
    BY <1>0, <2>1 DEF UsbType
  <2>3. UsbType' /\ EventsWaiting'
    BY <1>0, <2>1, <2>2 DEF UsbType, UsbIInv, EventsWaiting
  <2>4. OneCommand'
    BY <2>1, <2>2 DEF UsbIInv, OneCommand, Usb!fetchable, Usb!room
  <2>5. OneCompletion'
    BY <2>1, <2>2 DEF UsbIInv, OneCompletion, Completes, Posted
  <2> QED
    BY <2>3, <2>4, <2>5 DEF UsbIInv
<1> QED
  BY <1>1, <1>2, <1>3, <1>4, <1>5, <1>6, <1>7, <1>8, <1>9, <1>10, <1>11, <1>12, <1>13, <1>14, <1>15
     DEF Usb!Driver, Usb!Controller

LEMMA UsbIInvAgrees == UsbIInv => Usb!SlotsAgree
<1> SUFFICES ASSUME UsbIInv PROVE Usb!SlotsAgree
  OBVIOUS
<1>1. CASE hc.dequeue = 0
  BY <1>1 DEF UsbIInv, OneCompletion, Usb!SlotsAgree
<1>2. CASE hc.dequeue = 1
  <2>1. PICK c \in Posted : Completes(c)
    BY <1>2 DEF UsbIInv, OneCompletion
  <2> QED
    BY <2>1 DEF Completes, Usb!SlotsAgree
<1> QED
  BY <1>1, <1>2 DEF UsbIInv, UsbType

\* Whenever the controller answers, and whatever it posts before, the slot the
\* driver uses is one the controller enabled.
THEOREM SlotIsEnabled == Usb!XhciSpec => []Usb!SlotsAgree
BY UsbInitIInv, UsbNextIInv, UsbIInvAgrees, PTL DEF Usb!XhciSpec, Usb!xhciVars, usbVars

-----------------------------------------------------------------------------
(***************************************************************************)
(* The USB driver's lookup, by occurrence.                                 *)
(***************************************************************************)

\* The USB driver looks entries up by how many of their class come before.
LEMMA OccurrencesGrow ==
    ASSUME Len(devices) \in Nat, NEW class
    PROVE  LET C == of_class(class, Len(devices))
               occurrence(i) == Cardinality(of_class(class, i - 1))
           IN  /\ \A i \in C : IsFiniteSet(of_class(class, i - 1)) /\ occurrence(i) \in Nat
               /\ \A i, j \in C : i < j => occurrence(i) < occurrence(j)
<1> DEFINE C == of_class(class, Len(devices))
           occurrence(i) == Cardinality(of_class(class, i - 1))
<1>1. \A i \in C : i \in Nat /\ i \in 1..Len(devices) /\ devices[i].class = class
  BY DEF of_class
<1>2. ASSUME NEW i \in C
      PROVE  IsFiniteSet(of_class(class, i - 1)) /\ occurrence(i) \in Nat
  <2>1. i - 1 \in Int /\ 1 \in Int
    BY <1>1
  <2>2. IsFiniteSet(1..(i - 1)) /\ of_class(class, i - 1) \in SUBSET (1..(i - 1))
    BY <2>1, FS_Interval DEF of_class
  <2>3. IsFiniteSet(of_class(class, i - 1))
    BY <2>2, FS_Subset
  <2> QED
    BY <2>3, FS_CardinalityType
<1>3. ASSUME NEW i \in C, NEW j \in C, i < j PROVE occurrence(i) < occurrence(j)
  <2> DEFINE A == of_class(class, i - 1)
             B == of_class(class, j - 1)
  <2>1. A \cup {i} \subseteq B /\ i \notin A
    BY <1>1, <1>3 DEF of_class
  <2>2. IsFiniteSet(A) /\ IsFiniteSet(B) /\ occurrence(i) = Cardinality(A) /\ Cardinality(A) \in Nat
        /\ occurrence(j) = Cardinality(B) /\ Cardinality(B) \in Nat
    BY <1>2
  <2> HIDE DEF A, B, occurrence
  <2>3. Cardinality(A \cup {i}) = Cardinality(A) + 1
    BY <2>1, <2>2, FS_AddElement
  <2>4. Cardinality(A \cup {i}) <= Cardinality(B)
    BY <2>1, <2>2, FS_Subset
  <2> QED
    BY <2>2, <2>3, <2>4
<1> QED
  BY <1>2, <1>3

UsbEntries == { i \in of_class("usb", Len(devices)) :
                   /\ Cardinality(of_class("usb", i - 1)) < UsbFunctions
                   /\ devices[i].interface = "xhci" }

LEMMA UsbCardinality == \A S : Usb!Cardinality(S) = Cardinality(S)
BY DEF Cardinality, Usb!Cardinality

LEMMA UsbLookups ==
    /\ \A class, n : Usb!pci_find_class(class, n) = pci_find_class(class, n)
    /\ \A e : Usb!memory_bar(e) = memory_bar(e)
    /\ \A p : Usb!header(p) = header(p)
    /\ Usb!InTable = InTable
    /\ \A T : Usb!FirstOf(T) = FirstOf(T)
    /\ \A p, q : Usb!Before(p, q) <=> Before(p, q)
<1>1. ASSUME NEW class, NEW n PROVE Usb!pci_find_class(class, n) = pci_find_class(class, n)
  <2>1. \A limit : Usb!of_class(class, limit) = of_class(class, limit)
    BY DEF of_class, Usb!of_class
  <2>2. \A S : Usb!first_index(S) = first_index(S)
    BY DEF first_index, Usb!first_index
  <2> DEFINE Z == { i \in of_class(class, Len(devices)) : Cardinality(of_class(class, i - 1)) = n }
             Y == { i \in Usb!of_class(class, Len(devices)) :
                       Cardinality(Usb!of_class(class, i - 1)) = n }
  <2>3. Y = Z
    BY <2>1
  <2>4. pci_find_class(class, n) = first_index(Z)
    BY DEF pci_find_class
  <2> DEFINE X == { i \in Usb!of_class(class, Len(devices)) :
                       Usb!Cardinality(Usb!of_class(class, i - 1)) = n }
  <2>5. Usb!pci_find_class(class, n) = Usb!first_index(X)
    BY DEF Usb!pci_find_class
  <2>6. X = Y
    BY UsbCardinality
  <2> HIDE DEF X, Y, Z
  <2> QED
    BY <2>2, <2>3, <2>4, <2>5, <2>6
<1>2. \A e : Usb!memory_bar(e) = memory_bar(e)
  BY DEF memory_bar, Usb!memory_bar
<1>3. \A p : Usb!header(p) = header(p)
  BY DEF header, Usb!header
<1>4. \A p, q : Usb!Before(p, q) <=> Before(p, q)
  BY DEF Before, Usb!Before
<1>5. Usb!Answering = Answering
  BY <1>3 DEF Answering, Usb!Answering
<1>6. Usb!InTable = InTable
  <2> DEFINE under(p) == { q \in Answering : Before(q, p) }
             usb_under(p) == { q \in Usb!Answering : Usb!Before(q, p) }
  <2>1. \A p : usb_under(p) = under(p)
    BY <1>4, <1>5
  <2>2. InTable = { p \in Answering : Cardinality(under(p)) < PCI_MAX_DEVICES }
    BY DEF InTable
  <2>3. Usb!InTable = { p \in Usb!Answering : Usb!Cardinality(usb_under(p)) < PCI_MAX_DEVICES }
    BY DEF Usb!InTable
  <2> HIDE DEF under, usb_under
  <2> QED
    BY <1>5, <2>1, <2>2, <2>3, UsbCardinality
<1>7. \A T : Usb!FirstOf(T) = FirstOf(T)
  BY DEF FirstOf, Usb!FirstOf, Before, Usb!Before
<1> QED
  BY <1>1, <1>2, <1>3, <1>4, <1>6, <1>7

LEMMA UsbDeviceIsFirstEntry ==
    ASSUME Len(devices) \in Nat
    PROVE  Usb!xhci_device = first_index(UsbEntries)
<1> DEFINE C == of_class("usb", Len(devices))
           occurrence(i) == Cardinality(of_class("usb", i - 1))
           With(n) == { i \in C : occurrence(i) = n }
           device_at(n) == pci_find_class("usb", n)
           occurrences == { n \in 0..(UsbFunctions - 1) :
                         device_at(n) # 0 /\ devices[device_at(n)].interface = "xhci" }
<1>1. /\ \A i \in C : i \in Nat /\ i # 0 /\ occurrence(i) \in Nat
      /\ \A i, j \in C : i < j => occurrence(i) < occurrence(j)
  <2>1. \A i \in C : i \in Nat /\ i # 0
    BY DEF of_class
  <2> QED
    BY <2>1, OccurrencesGrow
<1>2. \A n : device_at(n) = first_index(With(n))
  BY DEF pci_find_class
<1>3. Usb!xhci_device = IF occurrences = {} THEN 0
                        ELSE device_at(CHOOSE n \in occurrences : \A k \in occurrences : n <= k)
  <2> DEFINE looked_up == { n \in 0..(UsbFunctions - 1) :
                 LET c == Usb!pci_find_class("usb", n) IN c # 0 /\ devices[c].interface = "xhci" }
  <2>1. \A n : Usb!pci_find_class("usb", n) = device_at(n)
    BY UsbLookups
  <2>2. looked_up = occurrences
    <3> HIDE DEF device_at
    <3> QED
      BY <2>1
  <2>3. Usb!xhci_device =
            IF looked_up = {} THEN 0
            ELSE Usb!pci_find_class("usb", CHOOSE n \in looked_up : \A k \in looked_up : n <= k)
    BY DEF Usb!xhci_device
  <2> HIDE DEF looked_up, occurrences, device_at
  <2> QED
    BY <2>1, <2>2, <2>3
<1>4. UsbEntries = { i \in C : occurrence(i) < UsbFunctions /\ devices[i].interface = "xhci" }
  BY DEF UsbEntries
<1> HIDE DEF C, occurrence, device_at
<1>5. \A i, j \in C : occurrence(i) = occurrence(j) => i = j
  BY <1>1
<1>6. \A i \in C : device_at(occurrence(i)) = i
  <2> SUFFICES ASSUME NEW i \in C PROVE device_at(occurrence(i)) = i
    OBVIOUS
  <2>1. With(occurrence(i)) = {i}
    BY <1>5
  <2>2. i <= i
    BY <1>1
  <2> QED
    BY <1>2, <2>1, <2>2 DEF first_index
<1>7. ASSUME NEW n, device_at(n) # 0 PROVE device_at(n) \in C /\ occurrence(device_at(n)) = n
  <2>1. PICK i \in With(n) : TRUE
    BY <1>2, <1>7 DEF first_index
  <2>2. i \in C /\ occurrence(i) = n
    BY <2>1
  <2> QED
    BY <1>6, <2>2
<1>8. \A n : n \in occurrences <=> \E i \in UsbEntries : occurrence(i) = n
  <2>1. ASSUME NEW n \in occurrences PROVE \E i \in UsbEntries : occurrence(i) = n
    <3>1. device_at(n) # 0 /\ devices[device_at(n)].interface = "xhci" /\ n < UsbFunctions
      BY UsbAssumption
    <3>2. device_at(n) \in C /\ occurrence(device_at(n)) = n
      BY <1>7, <3>1
    <3> QED
      BY <1>4, <3>1, <3>2
  <2>2. ASSUME NEW i \in UsbEntries PROVE occurrence(i) \in occurrences
    <3>1. i \in C /\ occurrence(i) < UsbFunctions /\ devices[i].interface = "xhci"
      BY <1>4
    <3>2. occurrence(i) \in 0..(UsbFunctions - 1)
      BY <1>1, <3>1, UsbAssumption
    <3> QED
      BY <1>1, <1>6, <3>1, <3>2
  <2> QED
    BY <2>1, <2>2
<1>9. CASE UsbEntries = {}
  <2>1. occurrences = {}
    BY <1>8, <1>9
  <2> QED
    BY <1>3, <1>9, <2>1 DEF first_index
<1>10. CASE UsbEntries # {}
  <2>1. UsbEntries \in SUBSET Nat /\ UsbEntries \subseteq C
    BY <1>1, <1>4
  <2>2. PICK m \in UsbEntries : \A j \in UsbEntries : m <= j
    BY <1>10, <2>1, LeastElement
  <2>3. first_index(UsbEntries) = m
    <3>1. \A i \in UsbEntries : (\A j \in UsbEntries : i <= j) => i = m
      BY <2>1, <2>2
    <3> QED
      BY <1>10, <2>2, <3>1 DEF first_index
  <2> HIDE DEF occurrences
  <2>4. \A j \in UsbEntries : occurrence(m) <= occurrence(j)
    <3> SUFFICES ASSUME NEW j \in UsbEntries PROVE occurrence(m) <= occurrence(j)
      OBVIOUS
    <3>1. m \in C /\ j \in C /\ m \in Nat /\ j \in Nat /\ m <= j
          /\ occurrence(m) \in Nat /\ occurrence(j) \in Nat
      BY <1>1, <2>1, <2>2
    <3>2. CASE m = j
      BY <3>1, <3>2
    <3>3. CASE m < j
      BY <1>1, <3>1, <3>3
    <3> QED
      BY <3>1, <3>2, <3>3
  <2>5. occurrence(m) \in occurrences /\ \A k \in occurrences : occurrence(m) <= k
    BY <1>8, <2>2, <2>4
  <2>6. \A n \in occurrences : n \in Nat
    BY <1>1, <1>8, <2>1
  <2>7. \A n \in occurrences : (\A k \in occurrences : n <= k) => n = occurrence(m)
    BY <2>5, <2>6
  <2>8. (CHOOSE n \in occurrences : \A k \in occurrences : n <= k) = occurrence(m)
    BY <2>5, <2>7
  <2>9. Usb!xhci_device = device_at(occurrence(m))
    BY <1>3, <2>5, <2>8
  <2> QED
    BY <1>6, <2>1, <2>3, <2>9
<1> QED
  BY <1>9, <1>10

\* The functions an entry of its class comes behind.
LEMMA SameOccurrence ==
    ASSUME IsBus(slots), TableHolds, NEW class, NEW p \in InTable
    PROVE  Cardinality({ q \in OfClass(class) : Before(q, p) })
             = Cardinality(of_class(class, (rank(p) + 1) - 1))
<1> DEFINE S == { q \in OfClass(class) : Before(q, p) }
           T == of_class(class, (rank(p) + 1) - 1)
           f == [q \in S |-> rank(q) + 1]
<1>0. /\ \A q \in InTable : q \in Answering /\ rank(q) \in Nat
      /\ \A q \in InTable : rank(q) + 1 \in 1..Len(devices)
      /\ \A q \in InTable : devices[rank(q) + 1] = read_device(q)
      /\ \A q : read_device(q).class = header(q).class
      /\ Len(devices) \in Nat
  <2>1. \A q \in InTable : q \in Answering /\ rank(q) \in Nat
    BY RanksGrow DEF InTable
  <2> QED
    BY <2>1 DEF TableHolds, read_device
<1>1. \A q, r \in InTable : Before(q, r) <=> rank(q) < rank(r)
  BY <1>0, RanksGrow
<1>2. S \subseteq InTable /\ \A q \in S : header(q).class = class /\ Before(q, p)
  BY DEF OfClass
<1>3. \A q \in S : rank(q) + 1 \in T
  <2> SUFFICES ASSUME NEW q \in S PROVE rank(q) + 1 \in T
    OBVIOUS
  <2>1. /\ q \in InTable /\ rank(q) \in Nat /\ rank(p) \in Nat /\ rank(q) < rank(p)
        /\ devices[rank(q) + 1].class = class
    BY <1>0, <1>1, <1>2
  <2>2. rank(q) + 1 \in 1..((rank(p) + 1) - 1)
    BY <2>1
  <2> QED
    BY <2>1, <2>2 DEF of_class
<1>4. \A i \in T : \E q \in S : i = rank(q) + 1
  <2> SUFFICES ASSUME NEW i \in T PROVE \E q \in S : i = rank(q) + 1
    OBVIOUS
  <2>1. i \in 1..((rank(p) + 1) - 1) /\ devices[i].class = class
    BY DEF of_class
  <2>2. i \in 1..Len(devices) /\ i \in Nat /\ i <= rank(p)
    BY <1>0, <2>1
  <2>3. PICK q \in InTable : i = rank(q) + 1
    BY <2>2 DEF TableHolds
  <2>4. header(q).class = class
    BY <1>0, <2>1, <2>3
  <2>5. rank(q) < rank(p)
    BY <1>0, <2>2, <2>3
  <2> QED
    BY <1>1, <2>3, <2>4, <2>5 DEF OfClass
<1>5. \A q, r \in S : rank(q) + 1 = rank(r) + 1 => q = r
  <2> SUFFICES ASSUME NEW q \in S, NEW r \in S, rank(q) + 1 = rank(r) + 1 PROVE q = r
    OBVIOUS
  <2>1. q \in Answering /\ r \in Answering /\ rank(q) \in Nat /\ rank(r) \in Nat
    BY <1>0, <1>2
  <2>2. ~(rank(q) < rank(r)) /\ ~(rank(r) < rank(q))
    BY <2>1
  <2> QED
    BY <2>1, <2>2, RanksGrow
<1> HIDE DEF S, T
<1>6. f \in [S -> T]
  BY <1>3
<1>7. f \in Injection(S, T) /\ f \in Surjection(S, T)
  BY <1>4, <1>5, <1>6 DEF Injection, IsInjective, Surjection
<1>8. ExistsBijection(S, T)
  BY <1>7 DEF ExistsBijection, Bijection
<1>9. IsFiniteSet(S)
  <2>1. IsFiniteSet(Answering) /\ S \in SUBSET Answering
    BY <1>0, <1>2, RanksGrow
  <2> QED
    BY <2>1, FS_Subset
<1> QED
  BY <1>8, <1>9, FS_Bijection DEF S, T

UsbPlaces == { p \in OfClass("usb") :
                  /\ Cardinality({ q \in OfClass("usb") : Before(q, p) }) < UsbFunctions
                  /\ header(p).interface = "xhci" }

LEMMA UsbDeviceIsFirst ==
    ASSUME IsBus(slots), TableHolds
    PROVE  \/ Usb!xhci_device = 0 /\ FirstOf(UsbPlaces) = Absent
           \/ /\ Usb!xhci_device # 0 /\ FirstOf(UsbPlaces) # Absent
              /\ devices[Usb!xhci_device] = read_device(FirstOf(UsbPlaces))
<1>1. UsbEntries \subseteq 1..Len(devices) /\ UsbPlaces \subseteq InTable
  BY DEF UsbEntries, UsbPlaces, of_class, OfClass
<1>2. \A p \in InTable : p \in UsbPlaces <=> rank(p) + 1 \in UsbEntries
  <2> SUFFICES ASSUME NEW p \in InTable PROVE p \in UsbPlaces <=> rank(p) + 1 \in UsbEntries
    OBVIOUS
  <2>1. rank(p) + 1 \in 1..Len(devices) /\ devices[rank(p) + 1] = read_device(p)
    BY DEF TableHolds
  <2>2. read_device(p).class = header(p).class /\ read_device(p).interface = header(p).interface
    BY DEF read_device
  <2>3. Cardinality({ q \in OfClass("usb") : Before(q, p) })
          = Cardinality(of_class("usb", (rank(p) + 1) - 1))
    BY SameOccurrence
  <2>4. rank(p) + 1 \in of_class("usb", Len(devices)) <=> p \in OfClass("usb")
    BY <2>1, <2>2 DEF of_class, OfClass
  <2> QED
    BY <2>1, <2>2, <2>3, <2>4 DEF UsbPlaces, UsbEntries
<1>3. Usb!xhci_device = first_index(UsbEntries)
  BY UsbDeviceIsFirstEntry DEF TableHolds
<1>4. \A i \in UsbEntries : i # 0
  BY <1>1 DEF TableHolds
<1>5. \A p \in UsbPlaces : p # Absent
  <2>1. InTable \subseteq Nat \X Nat
    BY SizesAssumption DEF InTable, Answering, IsBus
  <2> QED
    BY <1>1, <2>1, AbsentAssumption
<1> QED
  BY <1>1, <1>2, <1>3, <1>4, <1>5, FirstEntryIsFirst

-----------------------------------------------------------------------------
(***************************************************************************)
(* The boot sequence: its steps are steps of the parts, so that all the    *)
(* parts promise holds of the machine that boots.                          *)
(***************************************************************************)

\* What the driver found, once it has looked.
UsbFound ==
    /\ step = "find" => controller.present = FALSE
    /\ step # "find" =>
          /\ controller.present <=> FirstOf(UsbPlaces) # Absent
                                    /\ Usb!usable(header(FirstOf(UsbPlaces)))
          /\ controller.present => controller.place = FirstOf(UsbPlaces)

LEMMA UsbFoundIsFirst == UsbFound => Usb!UsbIsFirst
<1> DEFINE usb == { p \in Usb!InTable : Usb!header(p).class = "usb" }
           before(p) == { q \in usb : Usb!Before(q, p) }
           seen == { p \in usb : Usb!Cardinality(before(p)) < UsbFunctions }
           T == { p \in seen : Usb!header(p).interface = "xhci" }
<1>1. usb = OfClass("usb")
  BY UsbLookups DEF OfClass
<1>2. \A p : before(p) = { q \in OfClass("usb") : Before(q, p) }
  <2> HIDE DEF usb
  <2> QED
    BY <1>1, UsbLookups
<1>3. T = UsbPlaces
  <2>1. \A p : p \in T <=> /\ p \in usb /\ Cardinality(before(p)) < UsbFunctions
                           /\ header(p).interface = "xhci"
    <3> HIDE DEF usb, before
    <3> QED
      BY UsbLookups, UsbCardinality
  <2> DEFINE under(p) == { q \in OfClass("usb") : Before(q, p) }
  <2>2. UsbPlaces = { p \in OfClass("usb") : Cardinality(under(p)) < UsbFunctions
                                             /\ header(p).interface = "xhci" }
    BY DEF UsbPlaces
  <2> HIDE DEF T, usb, before, under
  <2>3. \A p : p \in T <=> p \in UsbPlaces
    <3>1. \A p : before(p) = under(p)
      BY <1>2 DEF under
    <3> QED
      BY <1>1, <2>1, <2>2, <3>1
  <2> QED
    <3>1. T \subseteq UsbPlaces /\ UsbPlaces \subseteq T
      BY <2>3
    <3> QED
      BY <3>1
<1>4. Usb!UsbIsFirst <=> (step # "find" =>
          /\ controller.present <=> Usb!FirstOf(T) # Absent /\ Usb!usable(Usb!header(Usb!FirstOf(T)))
          /\ controller.present => controller.place = Usb!FirstOf(T))
  BY DEF Usb!UsbIsFirst
<1> HIDE DEF T
<1> QED
  BY <1>3, <1>4, UsbLookups DEF UsbFound

\* None of this changes while the bus stays as it is.
LEMMA BusStays ==
    ASSUME slots' = slots
    PROVE  /\ IsBus(slots)' <=> IsBus(slots)
           /\ UsbPlaces' = UsbPlaces
           /\ \A p : header(p)' = header(p)
           /\ devices' = devices => (TableHolds' <=> TableHolds)
           /\ display' = display => /\ DisplayIsFirst' <=> DisplayIsFirst
                                    /\ TransportIsReal' <=> TransportIsReal
<1>1. \A p : header(p)' = header(p)
  BY DEF header
<1>2. InTable' = InTable /\ Answering' = Answering
  <2>1. Answering' = Answering
    BY <1>1 DEF Answering
  <2> QED
    BY <2>1 DEF InTable
<1>3. \A class : OfClass(class)' = OfClass(class)
  BY <1>1, <1>2 DEF OfClass
<1>4. UsbPlaces' = UsbPlaces
  BY <1>1, <1>3 DEF UsbPlaces
<1>5. ASSUME devices' = devices PROVE TableHolds' <=> TableHolds
  <2>1. ASSUME NEW p PROVE rank(p)' = rank(p) /\ read_device(p)' = read_device(p)
    BY <1>1, <1>2 DEF rank, read_device
  <2> QED
    BY <1>2, <1>5, <2>1 DEF TableHolds
<1>6. ASSUME display' = display
      PROVE  (DisplayIsFirst' <=> DisplayIsFirst) /\ (TransportIsReal' <=> TransportIsReal)
  <2>1. Virtio' = Virtio
    BY <1>1, <1>2 DEF Virtio
  <2>2. DisplayIsFirst' <=> DisplayIsFirst
    BY <1>3, <1>6, <2>1 DEF DisplayIsFirst
  <2>3. TransportIsReal' <=> TransportIsReal
    BY <1>1, <1>6 DEF TransportIsReal
  <2> QED
    BY <2>2, <2>3
<1>7. IsBus(slots)' <=> IsBus(slots)
  OBVIOUS
<1> QED
  BY <1>1, <1>4, <1>5, <1>6, <1>7

LEMMA FindLooksUp ==
    ASSUME UsbType, UsbFound, IsBus(slots), TableHolds, Usb!Find, UNCHANGED pciVars
    PROVE  UsbFound'
<1> DEFINE first_place == FirstOf(UsbPlaces)
           index == Usb!xhci_device
           ok(e) == memory_bar(e) \in 1..(MapLimit - 1) /\ hardware.valid
<1>1. slots' = slots /\ UsbPlaces' = UsbPlaces /\ hardware' = hardware
      /\ \A p : header(p)' = header(p)
  BY BusStays DEF pciVars, Usb!Find
<1>2. /\ step' # "find"
      /\ IF index # 0 /\ ok(devices[index])
         THEN controller' = [controller EXCEPT !.present = TRUE, !.place = devices[index].place]
         ELSE UNCHANGED controller
  BY UsbLookups DEF Usb!Find, Usb!usable
<1>3. controller.present = FALSE
  BY DEF UsbFound, Usb!Find
<1>4. \/ index = 0 /\ first_place = Absent
      \/ index # 0 /\ first_place # Absent /\ devices[index] = read_device(first_place)
  BY UsbDeviceIsFirst
<1>5. \A p : /\ read_device(p).place = p
             /\ ok(read_device(p)) <=> ok(header(p))
  <2>1. \A p : read_device(p).bars = header(p).bars /\ read_device(p).place = p
    BY DEF read_device
  <2>2. \A d, e : d.bars = e.bars => memory_bar(d) = memory_bar(e)
    BY DEF memory_bar
  <2> QED
    BY <2>1, <2>2
<1>6. UsbFound' <=> /\ controller'.present <=> first_place # Absent /\ ok(header(first_place))
                    /\ controller'.present => controller'.place = first_place
  <2>1. \A e : Usb!usable(e)' <=> ok(e)
    BY <1>1, UsbLookups DEF Usb!usable, Usb!memory_bar
  <2>2. FirstOf(UsbPlaces)' = first_place /\ header(FirstOf(UsbPlaces))' = header(first_place)
    BY <1>1 DEF header
  <2> HIDE DEF first_place, ok
  <2> QED
    BY <1>1, <1>2, <2>1, <2>2 DEF UsbFound
<1> HIDE DEF first_place, index, ok
<1>7. CASE index # 0 /\ ok(devices[index])
  <2>1. controller'.present = TRUE /\ controller'.place = devices[index].place
    BY <1>2, <1>7 DEF UsbType
  <2> QED
    BY <1>4, <1>5, <1>6, <1>7, <2>1
<1>8. CASE ~(index # 0 /\ ok(devices[index]))
  BY <1>2, <1>3, <1>4, <1>5, <1>6, <1>8
<1> QED
  BY <1>7, <1>8
\* Nothing but the lookup decides what was found.
LEMMA FoundStays ==
    ASSUME UsbFound, UsbType, UNCHANGED pciVars, Usb!Controller \/ (Usb!Driver /\ ~Usb!Find)
    PROVE  UsbFound'
<1>1. /\ slots' = slots /\ UsbPlaces' = UsbPlaces /\ \A p : header(p)' = header(p)
  BY BusStays DEF pciVars
<1>2. /\ hardware' = hardware
      /\ controller'.present = controller.present /\ controller'.place = controller.place
      /\ step = "find" <=> step' = "find"
  <2> USE DEF UsbType
  <2>1. CASE Usb!Controller
    BY <2>1 DEF Usb!Controller, Usb!PostPortEvent, Usb!ExecuteCommand, Usb!StopFetching, Usb!post
  <2>2. CASE Usb!HaltAndReset
    BY <2>2 DEF Usb!HaltAndReset
  <2>3. CASE Usb!AllocRings
    BY <2>3 DEF Usb!AllocRings, Usb!alloc_page
  <2>4. CASE Usb!StartRings
    BY <2>4 DEF Usb!StartRings
  <2>5. CASE Usb!xhci_reset_connected_ports
    BY <2>5 DEF Usb!xhci_reset_connected_ports
  <2>6. CASE Usb!xhci_enable_slot \/ Usb!xhci_address_device
    BY <2>6 DEF Usb!xhci_enable_slot, Usb!xhci_address_device
  <2>7. CASE Usb!PollSlot
    BY <2>7 DEF Usb!PollSlot
  <2>8. CASE Usb!PollAddress
    BY <2>8 DEF Usb!PollAddress
  <2>9. CASE Usb!xhci_prepare_device_context
    BY <2>9 DEF Usb!xhci_prepare_device_context, Usb!alloc_page
  <2>10. CASE Usb!GiveUpSlot \/ Usb!GiveUpAddress
    BY <2>10 DEF Usb!GiveUpSlot, Usb!GiveUpAddress
  <2> QED
    BY <2>1, <2>2, <2>3, <2>4, <2>5, <2>6, <2>7, <2>8, <2>9, <2>10 DEF Usb!Driver
<1>3. \A e : Usb!usable(e)' <=> Usb!usable(e)
  BY <1>2, UsbLookups DEF Usb!usable, Usb!memory_bar
<1>4. FirstOf(UsbPlaces)' = FirstOf(UsbPlaces) /\ header(FirstOf(UsbPlaces))' = header(FirstOf(UsbPlaces))
  <2>1. FirstOf(UsbPlaces)' = FirstOf(UsbPlaces)
    BY <1>1
  <2> QED
    BY <1>1, <2>1 DEF header
<1>5. Usb!usable(header(FirstOf(UsbPlaces)))' <=> Usb!usable(header(FirstOf(UsbPlaces)))
  <2>1. ASSUME NEW e, e = header(FirstOf(UsbPlaces)) PROVE Usb!usable(e)' <=> Usb!usable(e)
    BY <1>3
  <2> QED
    BY <1>2, <1>4, UsbLookups DEF Usb!usable, Usb!memory_bar
<1> QED
  BY <1>1, <1>2, <1>4, <1>5 DEF UsbFound

\* The pages the USB driver takes are pages a driver takes in Paging.
LEMMA UsbTakesPages ==
    ASSUME TypeOK, pc = "running", Usb!Driver, UsbFrame
    PROVE  UNCHANGED vars \/ DriverAlloc
<1>1. CASE given' = given /\ supply' = supply
  BY <1>1 DEF UsbFrame, vars
<1>2. CASE supply' = supply /\ given' = IF given < supply THEN given + 1 ELSE given
  <2>1. take(1)
    BY <1>2, Basics DEF take, got
  <2> QED
    BY <1>2, <2>1 DEF UsbFrame, DriverAlloc
<1> QED
  BY <1>1, <1>2 DEF Usb!Driver, Usb!Find, Usb!HaltAndReset, Usb!AllocRings, Usb!StartRings,
     Usb!xhci_reset_connected_ports, Usb!xhci_enable_slot, Usb!PollSlot,
     Usb!xhci_prepare_device_context, Usb!xhci_address_device, Usb!PollAddress, Usb!GiveUpSlot,
     Usb!GiveUpAddress, Usb!alloc_page

PartSteps == /\ [Next]_vars
             /\ [mouse_init \/ MouseRuns]_mouseVars
             /\ [ui_init]_uiVars
             /\ [acpi_init]_acpiVars
             /\ [AtaNext]_ataVars
             /\ [Usb!Driver \/ Usb!Controller]_usbVars

\* Every step of the machine is a step of one part and leaves the others alone,
\* or is one of the USB driver that takes a page as well.
LEMMA StepsOfParts ==
    ASSUME TypeOK, stage = "usb" => pc = "running", [BootNext]_bootVars
    PROVE  PartSteps
<1>1. CASE UNCHANGED bootVars
  BY <1>1 DEF bootVars, PartSteps
<1>2. CASE CallMouse \/ MouseRunning
  BY <1>2 DEF CallMouse, MouseRunning, Only, PartSteps
<1>3. CASE CallUi
  BY <1>3 DEF CallUi, Only, PartSteps
<1>4. CASE CallPaging \/ UserPage
  BY <1>4 DEF CallPaging, PagingStep, UserPage, Next, Only, PartSteps
<1>5. CASE CallPci \/ CallGpu \/ EnableInterrupts
  BY <1>5 DEF CallPci, CallGpu, EnableInterrupts, Only, PartSteps, ataVars
<1>6. CASE CallUsb
  BY <1>6, UsbTakesPages DEF CallUsb, UsbFrame, Next, PartSteps
<1>7. CASE CallAcpi
  BY <1>7 DEF CallAcpi, Only, PartSteps
<1>8. CASE CallAta \/ ReadSector \/ WaitForSector \/ DiskDrive
  BY <1>8 DEF CallAta, ReadSector, WaitForSector, DiskDrive, AtaNext, Only, PartSteps
<1>9. CASE UsbController
  <2>1. UNCHANGED <<supply, given>>
    BY <1>9 DEF UsbController, Usb!Controller, Usb!PostPortEvent, Usb!ExecuteCommand,
                Usb!StopFetching, Usb!post
  <2> QED
    BY <1>9, <2>1 DEF UsbController, UsbFrame, vars, PartSteps
<1> QED
  BY <1>1, <1>2, <1>3, <1>4, <1>5, <1>6, <1>7, <1>8, <1>9 DEF BootNext, Kernel, Idle

-----------------------------------------------------------------------------
Looked(stages) == stage \notin {"mouse", "ui", "paging"} \cup stages

\* What one part leaves to the next: page tables before any driver takes a
\* page, the table before any driver looks into it.
Handed ==
    /\ IsBus(slots)
    /\ Looked({}) => pc = "running"
    /\ Looked({"pci"}) => TableHolds
    /\ Looked({"pci", "gpu"}) => DisplayIsFirst /\ TransportIsReal
    /\ UsbFound

BootIInv == IInv /\ UsbIInv /\ Handed

LEMMA StartOfParts ==
    ASSUME BootInit
    PROVE  /\ Init /\ MouseInit /\ UiInit /\ AcpiInit /\ AtaInit /\ Usb!XhciInit
           /\ device \in [controller : BOOLEAN, aux : BOOLEAN, stale : BOOLEAN]
           /\ information \in InformationType
           /\ IsFirmware(firmware)
           /\ disk \in [exists : {"drive", "absent", "floating"}, prompt : BOOLEAN, fails : BOOLEAN]
           /\ IsBus(slots) /\ stage = "mouse" /\ UsbFound
<1>1. PICK m \in Machines : /\ device = m.mouse /\ information = m.information
                            /\ slots = m.slots /\ firmware = m.firmware /\ disk = m.disk
  BY DEF BootInit
<1>2. UsbFound
  BY DEF BootInit, Usb!XhciInit, UsbFound
<1> QED
  BY <1>1, <1>2, MachinesAssumption DEF BootInit

LEMMA BootInitIInv == BootInit => BootIInv
<1> SUFFICES ASSUME BootInit PROVE BootIInv
  OBVIOUS
<1> QED
  BY StartOfParts, InitIInv, UsbInitIInv DEF BootIInv, Handed, Looked

LEMMA HandedStays ==
    ASSUME Handed, UNCHANGED <<pciVars, gpuVars>>, stage' = stage, pc' = pc, UsbFound'
    PROVE  Handed'
BY BusStays DEF Handed, Looked, pciVars, gpuVars

LEMMA HandedNext ==
    ASSUME IInv, UsbIInv, Handed, [BootNext]_bootVars
    PROVE  Handed'
<1>0. UsbType
  BY DEF UsbIInv
<1>1. ASSUME slots' = slots, UNCHANGED usbVars PROVE UsbFound'
  <2>1. UsbPlaces' = UsbPlaces /\ FirstOf(UsbPlaces)' = FirstOf(UsbPlaces)
    BY <1>1, BusStays
  <2>2. header(FirstOf(UsbPlaces))' = header(FirstOf(UsbPlaces))
    BY <1>1, <2>1 DEF header
  <2>3. Usb!usable(header(FirstOf(UsbPlaces)))' <=> Usb!usable(header(FirstOf(UsbPlaces)))
    BY <1>1, <2>2, UsbLookups DEF Usb!usable, Usb!memory_bar, usbVars
  <2> QED
    BY <1>1, <2>1, <2>2, <2>3 DEF Handed, UsbFound, usbVars
<1>2. ASSUME UNCHANGED <<pciVars, gpuVars, usbVars>>,
             \/ stage' = stage /\ pc' = pc
             \/ stage \in {"mouse", "ui", "paging"} /\ stage' \in {"ui", "paging"}
             \/ stage = "paging" /\ stage' = "pci" /\ pc' = "running"
             \/ Looked({"pci", "gpu"}) /\ stage' # "usb" /\ pc' = pc
      PROVE  Handed'
  <2>1. UsbFound'
    BY <1>1, <1>2 DEF pciVars
  <2> QED
    BY <1>2, <2>1, BusStays DEF Handed, Looked, pciVars, gpuVars
<1>3. CASE UNCHANGED bootVars \/ Idle
  BY <1>2, <1>3 DEF bootVars, vars, Idle
<1>4. CASE CallMouse \/ CallUi
  BY <1>2, <1>4 DEF CallMouse, CallUi, Only
<1>5. CASE CallPaging
  BY <1>2, <1>5 DEF CallPaging, Only
<1>6. CASE CallPci
  <2>1. /\ stage = "pci" /\ stage' = "gpu" /\ slots' = slots /\ pc' = pc /\ UNCHANGED usbVars
    BY <1>6 DEF CallPci, pci_init, Only, vars
  <2>2. IsBus(slots)' /\ TableHolds'
    BY <1>6, <2>1, BusStays, TableIsFilled DEF CallPci, Handed
  <2>3. UsbFound'
    BY <1>1, <2>1
  <2> QED
    BY <2>1, <2>2, <2>3 DEF Handed, Looked
<1>7. CASE CallGpu
  <2>1. /\ stage = "gpu" /\ stage' = "usb" /\ UNCHANGED pciVars /\ pc' = pc /\ UNCHANGED usbVars
        /\ gpu_init /\ TableHolds /\ IsBus(slots) /\ pc = "running"
    BY <1>7 DEF CallGpu, Only, vars, Handed, Looked
  <2>2. UsbFound'
    BY <1>1, <2>1 DEF pciVars
  <2>3. IsBus(slots)' /\ TableHolds'
    BY <2>1, BusStays DEF pciVars
  <2>4. DisplayIsFirst' /\ TransportIsReal'
    BY <2>1, DisplayFound DEF pciVars
  <2> QED
    BY <2>1, <2>2, <2>3, <2>4 DEF Handed, Looked
<1>8. CASE CallUsb
  <2>1. /\ stage = "usb" /\ stage' \in {"usb", "acpi"} /\ UNCHANGED <<pciVars, gpuVars>> /\ pc' = pc
        /\ Usb!Driver /\ TableHolds /\ IsBus(slots)
    BY <1>8 DEF CallUsb, UsbFrame, Handed, Looked
  <2>2. UsbFound'
    BY <1>0, <2>1, FoundStays, FindLooksUp DEF Handed
  <2> QED
    BY <2>1, <2>2, BusStays DEF Handed, Looked, pciVars, gpuVars
<1>9. CASE UsbController
  <2>1. UNCHANGED <<pciVars, gpuVars>> /\ pc' = pc /\ stage' = stage /\ Usb!Controller
    BY <1>9 DEF UsbController, UsbFrame
  <2>2. UsbFound'
    BY <1>0, <2>1, FoundStays DEF Handed
  <2> QED
    BY <2>1, <2>2, HandedStays
<1>10. CASE CallAcpi \/ CallAta \/ EnableInterrupts
  BY <1>2, <1>10 DEF CallAcpi, CallAta, EnableInterrupts, Only, vars, Looked
<1>11. CASE ReadSector \/ WaitForSector \/ DiskDrive \/ MouseRunning
  BY <1>2, <1>11 DEF ReadSector, WaitForSector, DiskDrive, MouseRunning, Only, vars
<1>12. CASE UserPage
  BY <1>2, <1>12 DEF UserPage, Only, paging_alloc_user_page
<1> QED
  BY <1>3, <1>4, <1>5, <1>6, <1>7, <1>8, <1>9, <1>10, <1>11, <1>12 DEF BootNext, Kernel

LEMMA BootNextIInv == BootIInv /\ [BootNext]_bootVars => BootIInv' /\ PartSteps
<1> SUFFICES ASSUME BootIInv, [BootNext]_bootVars PROVE BootIInv' /\ PartSteps
  OBVIOUS
<1>1. TypeOK /\ (stage = "usb" => pc = "running")
  BY DEF BootIInv, IInv, Handed, Looked
<1>2. PartSteps
  BY <1>1, StepsOfParts
<1>3. IInv' /\ UsbIInv'
  BY <1>2, NextIInv, UsbNextIInv DEF BootIInv, PartSteps
<1>4. Handed'
  BY HandedNext DEF BootIInv
<1> QED
  BY <1>2, <1>3, <1>4 DEF BootIInv

-----------------------------------------------------------------------------
\* The boot sequence implements each of its parts: whatever kernel_main does
\* before and after it and whatever the devices do meanwhile, the page tables,
\* the mouse, the framebuffer, the MADT, the disk and the USB driver go through
\* behaviours of their own specifications.
THEOREM BootRunsTheParts ==
    BootSpec => Spec /\ MouseSpec /\ UiSpec /\ AcpiSpec /\ AtaSpec /\ Usb!XhciSpec
<1>1. BootInit => BootIInv
  BY BootInitIInv
<1>2. BootIInv /\ [BootNext]_bootVars => BootIInv'
  BY BootNextIInv
<1>3. BootIInv /\ [BootNext]_bootVars =>
          /\ [Next]_vars /\ [mouse_init \/ MouseRuns]_mouseVars /\ [ui_init]_uiVars
          /\ [acpi_init]_acpiVars /\ [AtaNext]_ataVars /\ [Usb!Driver \/ Usb!Controller]_usbVars
  BY BootNextIInv DEF PartSteps
<1>4. BootInit =>
          /\ Init /\ MouseInit /\ UiInit /\ AcpiInit /\ AtaInit /\ Usb!XhciInit
          /\ device \in [controller : BOOLEAN, aux : BOOLEAN, stale : BOOLEAN]
          /\ information \in InformationType /\ IsFirmware(firmware)
          /\ disk \in [exists : {"drive", "absent", "floating"}, prompt : BOOLEAN, fails : BOOLEAN]
  BY StartOfParts
<1> QED
  BY <1>1, <1>2, <1>3, <1>4, PTL DEF BootSpec, Spec, MouseSpec, UiSpec, AcpiSpec, AtaSpec,
     Usb!XhciSpec, Usb!xhciVars, usbVars

\* The display and the USB controller the drivers took are the first ones of
\* their kind among the functions that answer on the bus, and the capabilities
\* the display was judged by are on its chain: for every bus, every size of the
\* table and of the chain.
THEOREM DevicesAreFirst == BootSpec => []DriversFindDevices
<1>1. BootIInv => DriversFindDevices
  BY UsbFoundIsFirst DEF BootIInv, Handed, Looked, DriversFindDevices
<1>2. BootIInv /\ [BootNext]_bootVars => BootIInv'
  BY BootNextIInv
<1> QED
  BY <1>1, <1>2, BootInitIInv, PTL DEF BootSpec

\* The slot the USB driver uses is one the controller enabled, in whatever order
\* the controller answers, with the rest of the kernel around the driver.
THEOREM SlotsAgreeInBoot == BootSpec => []SlotsAgree
<1>1. BootIInv => SlotsAgree
  BY UsbIInvAgrees DEF BootIInv, SlotsAgree
<1>2. BootIInv /\ [BootNext]_bootVars => BootIInv'
  BY BootNextIInv
<1> QED
  BY <1>1, <1>2, BootInitIInv, PTL DEF BootSpec

\* What each part promises by itself holds on the machine that boots.
THEOREM BootKeepsPromises ==
    BootSpec => [](/\ TypeOK /\ KernelStaysMapped /\ WindowsAsPromised
                   /\ PagesArePrivate /\ TablePagesExact
                   /\ PixelsInFrame /\ MadtComplete /\ SectorAsAsked /\ CursorFollows)
BY BootRunsTheParts, TypeCorrect, IdentityMapKept, WindowsCorrect, PagesHaveOneUse,
   TableCountExact, ScreenIsSafe, MadtIsComplete, ReadsTheSector, CursorFollowsPackets, PTL
==============================================================================
