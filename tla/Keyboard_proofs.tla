-------------------------- MODULE Keyboard_proofs ---------------------------
(***************************************************************************)
(* Theorems about Keyboard for every ring size, keyboard and key map.      *)
(***************************************************************************)
EXTENDS Keyboard, SequenceTheorems, TLAPS

\* The inductive invariant: HeadStable needs no strengthening, and
\* NoStuckShift is inductive in its contrapositive form.
IInv == TypeOK /\ HeadStable /\ NoStuckShift

LEMMA TranslateType ==
    ASSUME NEW code \in Codes PROVE translate(code) \in Chars
BY MapsAssumption DEF translate, Chars

LEMMA NextSlotType ==
    ASSUME NEW i \in Slots PROVE next_slot(i) \in Slots
BY QueueSizeAssumption DEF next_slot, Slots

-----------------------------------------------------------------------------
LEMMA InitIInv == Init => IInv
<1> SUFFICES ASSUME Init PROVE IInv
  OBVIOUS
<1>1. 0 \in Slots
  BY QueueSizeAssumption DEF Slots
<1>2. TypeOK
  BY <1>1 DEF Init, TypeOK
<1>3. HeadStable /\ NoStuckShift
  BY DEF Init, HeadStable, NoStuckShift
<1> QED
  BY <1>2, <1>3 DEF IInv

\* What the handler does to the invariant, whatever the scancode.
LEMMA InterruptIInv ==
    ASSUME IInv, NEW code \in Nat, keyboard_interrupt(code)
    PROVE  /\ queue' \in [Slots -> Chars \cup {NUL}]
           /\ queue_write' \in Slots
           /\ shift_down' \in BOOLEAN
           /\ pc # "idle" => queue_read # queue_write'
           /\ pc # "idle" => queue'[queue_read] = queue[queue_read]
<1>1. CASE shift_pressed(code) \/ shift_released(code) \/ ignored(code)
  BY <1>1 DEF IInv, TypeOK, HeadStable, shift_pressed, shift_released, ignored
<1>2. CASE enqueued(code)
  <2>1. translate(code) \in Chars
    BY <1>2, TranslateType DEF enqueued
  <2>2. next_slot(queue_write) \in Slots
    BY NextSlotType DEF IInv, TypeOK
  <2>3. next_slot(queue_write) # queue_read
    BY <1>2 DEF enqueued, full
  <2>4. /\ queue' = [queue EXCEPT ![queue_write] = translate(code)]
        /\ queue_write' = next_slot(queue_write)
        /\ UNCHANGED shift_down
    BY <1>2 DEF enqueued
  <2> QED
    BY <2>1, <2>2, <2>3, <2>4 DEF IInv, TypeOK, HeadStable
<1> QED
  BY <1>1, <1>2 DEF keyboard_interrupt

LEMMA NextIInv == IInv /\ [Next]_vars => IInv'
<1> SUFFICES ASSUME IInv, [Next]_vars PROVE IInv'
  OBVIOUS
<1>1. CASE UNCHANGED vars
  BY <1>1 DEF vars, readerVars, IInv, TypeOK, HeadStable, NoStuckShift
<1>2. ASSUME NEW k \in Keys, KeyDown(k) PROVE IInv'
  <2>1. k \in Nat
    BY KeysAssumption DEF Codes
  <2>2. keyboard_interrupt(k)
    BY <1>2 DEF KeyDown
  <2>3. UNCHANGED <<queue_read, pc, character, key>>
    BY <2>2 DEF keyboard_interrupt, readerVars
  <2>4. TypeOK'
    BY <1>2, <2>1, <2>2, <2>3, InterruptIInv DEF IInv, TypeOK, KeyDown
  <2>5. HeadStable'
    BY <2>1, <2>2, <2>3, InterruptIInv DEF IInv, HeadStable
  <2>6. NoStuckShift'
    <3>1. CASE k \in ShiftKeys
      BY <1>2, <3>1 DEF NoStuckShift, KeyDown
    <3>2. CASE k \notin ShiftKeys
      <4>1. k \notin { s + 128 : s \in ShiftKeys }
        BY KeysAssumption DEF Codes, ShiftKeys
      <4>2. UNCHANGED shift_down \/ shift_down' = FALSE
        BY <2>2, <3>2 DEF keyboard_interrupt, shift_pressed, shift_released, ignored, enqueued
      <4> QED
        BY <1>2, <3>2, <4>2 DEF IInv, NoStuckShift, KeyDown
    <3> QED
      BY <3>1, <3>2
  <2> QED
    BY <2>4, <2>5, <2>6 DEF IInv
<1>3. ASSUME NEW k \in Keys, KeyUp(k) PROVE IInv'
  <2>1. k \in 0..127 /\ k + 128 \in Nat /\ k + 128 \notin ShiftKeys
    BY KeysAssumption DEF Codes, ShiftKeys
  <2>2. keyboard_interrupt(k + 128)
    BY <1>3 DEF KeyUp
  <2>3. UNCHANGED <<queue_read, pc, character, key>>
    BY <2>2 DEF keyboard_interrupt, readerVars
  <2>4. TypeOK'
    BY <1>3, <2>1, <2>2, <2>3, InterruptIInv DEF IInv, TypeOK, KeyUp
  <2>5. HeadStable'
    BY <2>1, <2>2, <2>3, InterruptIInv DEF IInv, HeadStable
  <2>6. NoStuckShift'
    <3>1. CASE k \in ShiftKeys
      <4>1. k + 128 \in { s + 128 : s \in ShiftKeys }
        BY <3>1
      <4>2. k + 128 \notin Codes
        BY <2>1 DEF Codes
      <4>3. ~shift_down'
        BY <2>1, <2>2, <4>1, <4>2
           DEF keyboard_interrupt, shift_pressed, shift_released, ignored, enqueued
      <4> QED
        BY <4>3 DEF NoStuckShift
    <3>2. CASE k \notin ShiftKeys
      <4>1. held' \cap ShiftKeys = held \cap ShiftKeys
        BY <1>3, <3>2 DEF KeyUp
      <4>2. UNCHANGED shift_down \/ shift_down' = FALSE
        BY <2>1, <2>2 DEF keyboard_interrupt, shift_pressed, shift_released, ignored, enqueued
      <4> QED
        BY <4>1, <4>2 DEF IInv, NoStuckShift
    <3> QED
      BY <3>1, <3>2
  <2> QED
    BY <2>4, <2>5, <2>6 DEF IInv
<1>4. CASE ReadTest
  BY <1>4 DEF ReadTest, IInv, TypeOK, HeadStable, NoStuckShift
<1>5. CASE ReadLoad
  BY <1>5 DEF ReadLoad, IInv, TypeOK, HeadStable, NoStuckShift
<1>6. CASE ReadAdvance
  BY <1>6, NextSlotType DEF ReadAdvance, IInv, TypeOK, HeadStable, NoStuckShift
<1> QED
  BY <1>1, <1>2, <1>3, <1>4, <1>5, <1>6 DEF Next, keyboard_read

\* The invariant of every behaviour.
LEMMA Invariance == Spec => []IInv
BY InitIInv, NextIInv, PTL DEF Spec

\* Every variable keeps its type: in particular both indices stay inside the
\* ring and every slot read was a slot of the ring.
THEOREM TypeCorrect == Spec => []TypeOK
BY Invariance, PTL DEF IInv

\* keyboard_read returns the head of the queue although the handler may run
\* between its accesses.
THEOREM HeadNeverOverwritten == Spec => []HeadStable
BY Invariance, PTL DEF IInv

\* With no shift key down the driver translates with normal_map.
THEOREM ShiftReleased == Spec => []NoStuckShift
BY Invariance, PTL DEF IInv

-----------------------------------------------------------------------------
(***************************************************************************)
(* The ring is a queue: Pending grows at its end and shrinks at its front. *)
(***************************************************************************)
LEMMA RingShape ==
    ASSUME TypeOK
    PROVE  /\ count \in 0..(KEYBOARD_QUEUE_SIZE - 1)
           /\ \A n \in 0..(KEYBOARD_QUEUE_SIZE - 1) : slot(n) \in Slots
           /\ slot(0) = queue_read
           /\ slot(count) = queue_write
           /\ count = 0 <=> queue_read = queue_write
           /\ count = KEYBOARD_QUEUE_SIZE - 1 <=> full
           /\ \A n \in 0..(KEYBOARD_QUEUE_SIZE - 1) : n # count => slot(n) # queue_write
BY QueueSizeAssumption DEF TypeOK, count, slot, Slots, full, next_slot

LEMMA PendingType ==
    ASSUME IInv
    PROVE  /\ Pending \in Seq(Chars \cup {NUL})
           /\ Len(Pending) = count
           /\ Len(Pending) < KEYBOARD_QUEUE_SIZE - 1 <=> ~full
           /\ pc # "idle" => Pending # <<>>
<1>1. count \in Nat /\ \A n \in 1..count : slot(n - 1) \in Slots
  BY RingShape, QueueSizeAssumption DEF IInv
<1>2. \A n \in 1..count : queue[slot(n - 1)] \in Chars \cup {NUL}
  BY <1>1 DEF IInv, TypeOK
<1>3. Pending \in [1..count -> Chars \cup {NUL}]
  BY <1>2 DEF Pending
<1>4. Pending \in Seq(Chars \cup {NUL}) /\ Len(Pending) = count
  BY <1>1, <1>3
<1>5. Len(Pending) < KEYBOARD_QUEUE_SIZE - 1 <=> ~full
  BY <1>4, RingShape, QueueSizeAssumption DEF IInv
<1>6. pc # "idle" => Pending # <<>>
  BY <1>4, RingShape DEF IInv, HeadStable
<1> QED
  BY <1>4, <1>5, <1>6

\* An accepted key press appends exactly its character.
LEMMA EnqueueAppends ==
    ASSUME IInv, NEW code \in Nat, enqueued(code), UNCHANGED queue_read
    PROVE  Pending' = Append(Pending, translate(code))
<1>1. /\ queue' = [queue EXCEPT ![queue_write] = translate(code)]
      /\ queue_write' = next_slot(queue_write)
      /\ ~full
  BY DEF enqueued
<1>2. count' = count + 1
  BY <1>1, QueueSizeAssumption DEF IInv, TypeOK, count, next_slot, full, Slots
<1>3. \A n \in 0..count : slot(n)' = slot(n)
  BY DEF slot
<1>4. count \in 0..(KEYBOARD_QUEUE_SIZE - 1) /\ count + 1 \in Nat
  BY RingShape, QueueSizeAssumption DEF IInv
<1>5. \A n \in 1..count : queue'[slot(n - 1)'] = queue[slot(n - 1)]
  <2> TAKE n \in 1..count
  <2>1. n - 1 \in 0..(KEYBOARD_QUEUE_SIZE - 1) /\ n - 1 # count /\ n - 1 \in 0..count
    BY <1>4, QueueSizeAssumption
  <2>2. slot(n - 1) \in Slots /\ slot(n - 1) # queue_write
    BY <2>1, RingShape DEF IInv
  <2> QED
    BY <1>1, <1>3, <2>1, <2>2 DEF IInv, TypeOK
<1>6. \A n \in 0..count : n = count => queue'[slot(n)'] = translate(code)
  BY <1>1, <1>3, RingShape DEF IInv, TypeOK
<1>7. Pending' = [n \in 1..(count + 1) |-> queue'[slot(n - 1)']]
  BY <1>2 DEF Pending
<1>8. \A n \in 1..(count + 1) :
         queue'[slot(n - 1)'] = IF n = count + 1 THEN translate(code) ELSE Pending[n]
  <2> TAKE n \in 1..(count + 1)
  <2>1. CASE n = count + 1
    BY <2>1, <1>4, <1>6
  <2>2. CASE n # count + 1
    <3>1. n \in 1..count
      BY <2>2, <1>4
    <3> QED
      BY <3>1, <2>2, <1>5 DEF Pending
  <2> QED
    BY <2>1, <2>2
<1>9. translate(code) \in Chars \cup {NUL}
  BY TranslateType DEF enqueued
<1>10. /\ Pending \in Seq(Chars \cup {NUL})
       /\ Len(Pending) = count
       /\ \A n \in 1..count : Pending[n] \in Chars \cup {NUL}
  BY PendingType, LenProperties
<1>11. /\ Pending' \in Seq(Chars \cup {NUL})
       /\ Len(Pending') = count + 1
  <2>1. Pending' \in [1..(count + 1) -> Chars \cup {NUL}]
    BY <1>7, <1>8, <1>9, <1>10
  <2> QED
    BY <2>1, <1>4
<1>12. /\ Append(Pending, translate(code)) \in Seq(Chars \cup {NUL})
       /\ Len(Append(Pending, translate(code))) = count + 1
       /\ \A n \in 1..count : Append(Pending, translate(code))[n] = Pending[n]
       /\ Append(Pending, translate(code))[count + 1] = translate(code)
  BY <1>9, <1>10, AppendProperties
<1>13. \A n \in 1..(count + 1) : Pending'[n] = Append(Pending, translate(code))[n]
  BY <1>4, <1>7, <1>8, <1>12
<1> QED
  BY <1>11, <1>12, <1>13, SeqEqual

\* keyboard_read takes the first character away and returns it.
LEMMA AdvanceDelivers ==
    ASSUME IInv, ReadAdvance
    PROVE  Pending # <<>> /\ key' = Head(Pending) /\ Pending' = Tail(Pending)
<1>1. /\ pc = "advance"
      /\ queue_read' = next_slot(queue_read)
      /\ key' = character
      /\ UNCHANGED <<queue, queue_write>>
  BY DEF ReadAdvance
<1>2. queue_read # queue_write /\ count \in 1..(KEYBOARD_QUEUE_SIZE - 1)
  BY <1>1, RingShape, QueueSizeAssumption DEF IInv, HeadStable
<1>3. Pending # <<>> /\ key' = Head(Pending)
  <2>1. Pending[1] = queue[slot(0)]
    BY <1>2 DEF Pending
  <2>2. slot(0) = queue_read /\ character = queue[queue_read]
    BY <1>1, RingShape DEF IInv, HeadStable
  <2> QED
    BY <1>1, <1>2, <2>1, <2>2, PendingType
<1>4. count' = count - 1
  BY <1>1, <1>2, QueueSizeAssumption DEF IInv, TypeOK, count, next_slot, Slots
<1>5. \A n \in 0..(count - 2) : slot(n)' = slot(n + 1)
  BY <1>1, <1>2, QueueSizeAssumption DEF IInv, TypeOK, count, slot, next_slot, Slots
<1>6. /\ Pending \in Seq(Chars \cup {NUL})
      /\ Len(Pending) = count
      /\ \A n \in 1..count : Pending[n] \in Chars \cup {NUL}
      /\ Tail(Pending) \in Seq(Chars \cup {NUL})
      /\ Len(Tail(Pending)) = count - 1
      /\ \A n \in 1..(count - 1) : Tail(Pending)[n] = Pending[n + 1]
  <2>1. Pending \in Seq(Chars \cup {NUL}) /\ Len(Pending) = count
    BY PendingType
  <2> QED
    BY <1>3, <2>1, LenProperties, HeadTailProperties
<1>7. Pending' = [n \in 1..(count - 1) |-> queue[slot(n - 1)']]
  BY <1>1, <1>4 DEF Pending
<1>8. \A n \in 1..(count - 1) : queue[slot(n - 1)'] = Pending[n + 1]
  <2> TAKE n \in 1..(count - 1)
  <2>1. n - 1 \in 0..(count - 2) /\ n + 1 \in 1..count /\ (n + 1) - 1 = n /\ (n - 1) + 1 = n
    BY <1>2
  <2>2. slot(n - 1)' = slot(n)
    BY <1>5, <2>1
  <2>3. Pending[n + 1] = queue[slot(n)]
    BY <2>1 DEF Pending
  <2> QED
    BY <2>2, <2>3
<1>9. Pending' \in Seq(Chars \cup {NUL}) /\ Len(Pending') = count - 1
  <2>1. \A n \in 1..(count - 1) : Pending[n + 1] \in Chars \cup {NUL}
    BY <1>2, <1>6
  <2>2. Pending' \in [1..(count - 1) -> Chars \cup {NUL}]
    BY <1>7, <1>8, <2>1
  <2> QED
    BY <1>2, <2>2
<1>10. \A n \in 1..(count - 1) : Pending'[n] = Tail(Pending)[n]
  BY <1>6, <1>7, <1>8
<1>11. Pending' = Tail(Pending)
  BY <1>6, <1>9, <1>10, SeqEqual
<1> QED
  BY <1>3, <1>11

LEMMA PendingUnchanged ==
    UNCHANGED <<queue, queue_read, queue_write>> => UNCHANGED Pending
BY DEF Pending, count, slot

LEMMA InitRefines == Init => Fifo!Init
<1> SUFFICES ASSUME Init PROVE Fifo!Init
  OBVIOUS
<1>1. IInv /\ queue_read = queue_write /\ key = NUL
  BY InitIInv DEF Init
<1>2. count = 0
  BY <1>1, RingShape DEF IInv
<1>3. Pending = <<>>
  BY <1>2 DEF Pending
<1> QED
  BY <1>1, <1>3 DEF Fifo!Init

\* The handler accepts a character or stutters.
LEMMA InterruptRefines ==
    ASSUME IInv, NEW code \in Nat, keyboard_interrupt(code)
    PROVE  [Fifo!Next]_(Fifo!vars)
<1>1. UNCHANGED <<queue_read, pc, character, key>>
  BY DEF keyboard_interrupt, readerVars
<1>2. CASE shift_pressed(code) \/ shift_released(code) \/ ignored(code)
  <2>1. UNCHANGED <<queue, queue_read, queue_write>>
    BY <1>1, <1>2 DEF shift_pressed, shift_released, ignored
  <2> QED
    BY <1>1, <2>1, PendingUnchanged DEF Fifo!vars
<1>3. CASE enqueued(code)
  <2>1. Pending' = Append(Pending, translate(code))
    BY <1>1, <1>3, EnqueueAppends
  <2>2. translate(code) \in Chars \ {NUL}
    BY <1>3, TranslateType DEF enqueued
  <2>3. Len(Pending) < KEYBOARD_QUEUE_SIZE - 1
    BY <1>3, PendingType DEF enqueued
  <2> QED
    BY <1>1, <2>1, <2>2, <2>3 DEF Fifo!Next, Fifo!Accept
<1> QED
  BY <1>2, <1>3 DEF keyboard_interrupt

LEMMA NextRefines == IInv /\ [Next]_vars => [Fifo!Next]_(Fifo!vars)
<1> SUFFICES ASSUME IInv, [Next]_vars PROVE [Fifo!Next]_(Fifo!vars)
  OBVIOUS
<1>1. ASSUME NEW k \in Keys, KeyDown(k) \/ KeyUp(k) PROVE [Fifo!Next]_(Fifo!vars)
  <2>1. k \in Nat /\ k + 128 \in Nat
    BY KeysAssumption DEF Codes
  <2> QED
    BY <1>1, <2>1, InterruptRefines DEF KeyDown, KeyUp
<1>2. CASE ReadAdvance
  BY <1>2, AdvanceDelivers DEF Fifo!Next, Fifo!Deliver
<1>3. CASE ReadTest \/ ReadLoad \/ UNCHANGED vars
  <2>1. UNCHANGED <<queue, queue_read, queue_write, key>>
    BY <1>3 DEF ReadTest, ReadLoad, vars, readerVars
  <2> QED
    BY <2>1, PendingUnchanged DEF Fifo!vars
<1> QED
  BY <1>1, <1>2, <1>3 DEF Next, keyboard_read

\* The ring implements the bounded FIFO channel for every size of the ring:
\* the safety part of ImplementsFifo.
THEOREM RingImplementsFifo == Spec => Fifo!Safety
BY InitRefines, NextRefines, Invariance, PTL DEF Spec, Fifo!Safety

LEMMA LossStep ==
    ASSUME IInv, NEW k \in Keys \ ShiftKeys, KeyDown(k), translate(k) # NUL,
           Len(Pending) < KEYBOARD_QUEUE_SIZE - 1
    PROVE  Pending' = Append(Pending, translate(k))
<1>1. k \in 0..127 /\ k \in Nat /\ k \notin ShiftKeys
  BY KeysAssumption DEF Codes
<1>2. k \notin { s + 128 : s \in ShiftKeys } /\ k < 128
  BY <1>1 DEF ShiftKeys
<1>3. ~full
  BY PendingType
<1>4. enqueued(k) /\ UNCHANGED queue_read
  BY <1>1, <1>2, <1>3 DEF KeyDown, keyboard_interrupt, shift_pressed, shift_released, ignored
<1> QED
  BY <1>1, <1>4, EnqueueAppends

\* No character is dropped while a slot is free.
THEOREM NoEarlyLoss == Spec => LossOnlyWhenFull
<1>1. IInv => \A k \in Keys \ ShiftKeys :
                 (KeyDown(k) /\ translate(k) # NUL /\ Len(Pending) < KEYBOARD_QUEUE_SIZE - 1)
                    => Pending' = Append(Pending, translate(k))
  BY LossStep
<1> QED
  BY <1>1, Invariance, PTL DEF Spec, LossOnlyWhenFull
==============================================================================
