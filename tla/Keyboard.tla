------------------------------ MODULE Keyboard -------------------------------
(***************************************************************************)
(* The keyboard driver, src/arch/x86_64/keyboard.c: IRQ 1 translates a     *)
(* scancode and puts the character into a ring of KEYBOARD_QUEUE_SIZE      *)
(* slots; the input task takes characters out with keyboard_read.          *)
(*                                                                         *)
(* There is one CPU and the IDT holds interrupt gates, so the handler runs *)
(* to completion, but it can come between any two memory accesses of       *)
(* keyboard_read: the reader is split at its accesses to the shared state. *)
(* Indices are uint8_t and the ring has 2^8 slots, so the C conversion     *)
(* (uint8_t)(i + 1) is addition modulo the size of the ring.               *)
(***************************************************************************)
EXTENDS Naturals, Sequences

CONSTANTS KEYBOARD_QUEUE_SIZE, \* slots of the ring (256)
          Keys,                \* make codes of the keys of the keyboard
          NUL,                 \* '\0'
          normal_map,          \* make code -> character
          shifted_map

ShiftKeys == {42, 54}          \* 0x2a and 0x36
Codes     == 0..127

ASSUME QueueSizeAssumption == KEYBOARD_QUEUE_SIZE \in Nat /\ KEYBOARD_QUEUE_SIZE > 1
ASSUME KeysAssumption == Keys \subseteq Codes
ASSUME MapsAssumption == /\ DOMAIN normal_map = Codes
                         /\ DOMAIN shifted_map = Codes

Chars == { normal_map[k] : k \in Codes } \cup { shifted_map[k] : k \in Codes }
Slots == 0..(KEYBOARD_QUEUE_SIZE - 1)

VARIABLES
    queue,       \* the ring
    queue_read,  \* next slot to read
    queue_write, \* next slot to fill
    shift_down,
    held,        \* keys physically down (the keyboard itself)
    pc,          \* how far the keyboard_read in progress is
    character,   \* its *character
    key          \* the last character keyboard_read returned

vars == <<queue, queue_read, queue_write, shift_down, held, pc, character, key>>
readerVars == <<pc, character, key>>

TypeOK == /\ queue \in [Slots -> Chars \cup {NUL}]
          /\ queue_read \in Slots
          /\ queue_write \in Slots
          /\ shift_down \in BOOLEAN
          /\ held \subseteq Keys
          /\ pc \in {"idle", "load", "advance"}
          /\ character \in Chars \cup {NUL}
          /\ key \in Chars \cup {NUL}

Init == /\ queue = [i \in Slots |-> NUL]
        /\ queue_read = 0
        /\ queue_write = 0
        /\ shift_down = FALSE
        /\ held = {}
        /\ pc = "idle"
        /\ character = NUL
        /\ key = NUL

\* (uint8_t)(i + 1)
next_slot_wide(i) == i + 1 \* mutant: an index type wider than the ring
next_slot(i) == IF i = KEYBOARD_QUEUE_SIZE - 1 THEN 0 ELSE i + 1

translate(code) == IF shift_down THEN shifted_map[code] ELSE normal_map[code]

full_never == FALSE \* mutant: no test for a full ring
full_early == next_slot(next_slot(queue_write)) = queue_read \* mutant: off by one
full == next_slot(queue_write) = queue_read

(***************************************************************************)
(* keyboard_interrupt, by the kind of scancode it reads from port 0x60.    *)
(***************************************************************************)
shift_pressed(code) == /\ code \in ShiftKeys
                       /\ shift_down' = TRUE
                       /\ UNCHANGED <<queue, queue_write>>

shift_released_lost(code) == \* mutant: break codes only return
    /\ code \in { k + 128 : k \in ShiftKeys }
    /\ UNCHANGED <<queue, queue_write, shift_down>>

shift_released(code) == /\ code \in { k + 128 : k \in ShiftKeys }
                        /\ shift_down' = FALSE
                        /\ UNCHANGED <<queue, queue_write>>

ignored(code) == /\ code \notin ShiftKeys \cup { k + 128 : k \in ShiftKeys }
                 /\ (code < 128) => (translate(code) = NUL \/ full)
                 /\ UNCHANGED <<queue, queue_write, shift_down>>

enqueued(code) == /\ code \in Codes \ ShiftKeys
                  /\ translate(code) # NUL
                  /\ ~full
                  /\ queue' = [queue EXCEPT ![queue_write] = translate(code)]
                  /\ queue_write' = next_slot(queue_write)
                  /\ UNCHANGED shift_down

keyboard_interrupt(code) ==
    /\ \/ shift_pressed(code)
       \/ shift_released(code)
       \/ ignored(code)
       \/ enqueued(code)
    /\ UNCHANGED <<queue_read, readerVars>>

\* A key goes down, or repeats while it is down; a key goes up.
KeyDown(k) == held' = held \cup {k} /\ keyboard_interrupt(k)
KeyUp(k)   == k \in held /\ held' = held \ {k} /\ keyboard_interrupt(k + 128)

(***************************************************************************)
(* keyboard_read: test for empty, load the slot, advance queue_read.       *)
(***************************************************************************)
ReadTest == /\ pc = "idle"
            /\ queue_read # queue_write
            /\ pc' = "load"
            /\ UNCHANGED <<queue, queue_read, queue_write, shift_down, held, character, key>>

ReadLoad == /\ pc = "load"
            /\ character' = queue[queue_read]
            /\ pc' = "advance"
            /\ UNCHANGED <<queue, queue_read, queue_write, shift_down, held, key>>

ReadAdvance_flush == \* mutant: the rest of the ring is discarded
    /\ pc = "advance"
    /\ queue_read' = queue_write
    /\ key' = character
    /\ pc' = "idle"
    /\ UNCHANGED <<queue, queue_write, shift_down, held, character>>

ReadAdvance == /\ pc = "advance"
               /\ queue_read' = next_slot(queue_read)
               /\ key' = character
               /\ pc' = "idle"
               /\ UNCHANGED <<queue, queue_write, shift_down, held, character>>

keyboard_read == ReadTest \/ ReadLoad \/ ReadAdvance

Next == \/ \E k \in Keys : KeyDown(k) \/ KeyUp(k)
        \/ keyboard_read

\* The input task is dispatched again and again, whatever the keyboard does.
Spec == Init /\ [][Next]_vars /\ WF_vars(keyboard_read)

-----------------------------------------------------------------------------
(***************************************************************************)
(* Properties                                                              *)
(***************************************************************************)
count == IF queue_write >= queue_read
            THEN queue_write - queue_read
            ELSE queue_write + KEYBOARD_QUEUE_SIZE - queue_read

\* The slot n places after queue_read.
slot(n) == IF queue_read + n >= KEYBOARD_QUEUE_SIZE
              THEN queue_read + n - KEYBOARD_QUEUE_SIZE
              ELSE queue_read + n

Pending == [n \in 1..count |-> queue[slot(n - 1)]]

Fifo == INSTANCE KeyFifo WITH Capacity <- KEYBOARD_QUEUE_SIZE - 1,
                              Chars <- Chars \ {NUL}, pending <- Pending

\* The ring and its two indices behave as a queue of KEYBOARD_QUEUE_SIZE - 1
\* characters: no interleaving of the interrupt handler with keyboard_read
\* reorders, duplicates, overwrites or invents a character, and everything
\* accepted reaches the input task.
ImplementsFifo == Fifo!Spec

\* Between the load and the advance of keyboard_read the handler never refills
\* the slot that is being read: the character about to be returned is still
\* the one at the head, and the queue has not been emptied under the reader.
HeadStable == pc # "idle" => /\ queue_read # queue_write
                             /\ pc = "advance" => character = queue[queue_read]

\* A key that produces a character is lost only when the ring already holds
\* KEYBOARD_QUEUE_SIZE - 1 unread ones.
LossOnlyWhenFull ==
    [][\A k \in Keys \ ShiftKeys :
          (KeyDown(k) /\ translate(k) # NUL /\ Len(Pending) < KEYBOARD_QUEUE_SIZE - 1)
             => Pending' = Append(Pending, translate(k))]_vars

\* Once no shift key is down the driver is out of shift state: no order of
\* pressing, repeating and releasing the two shift keys leaves it stuck.
NoStuckShift == held \cap ShiftKeys = {} => ~shift_down
==============================================================================
