------------------------- MODULE Interrupts_proofs --------------------------
(***************************************************************************)
(* Theorems about Interrupts, for every register content, every set of     *)
(* exceptions and every line the firmware may have left unmasked.          *)
(***************************************************************************)
EXTENDS Interrupts, SequenceTheorems, TLAPS

(***************************************************************************)
(* The inductive invariant.  Between entry and exit of a stub, the stack   *)
(* holds the registers as the interrupted code left them.                  *)
(***************************************************************************)
place(r) == CHOOSE i \in 1..Len(Frame) : Frame[i] = r

framed(v, r) ==
    LET frame == [i \in 1..Len(Frame) |-> r[Frame[i]]]
    IN  IF v < 32 THEN frame \o <<v>> ELSE <<pushed(v)>> \o frame

arguments(r) == [i \in 1..6 |-> r[<<"rdi", "rsi", "rdx", "r10", "r8", "r9">>[i]]]

loaded(r) == <<r["rdi"], r["rsi"], r["rdx"], r["rcx"], r["r8"], r["r9"]>>

StackInv ==
    /\ at_entry \in [Regs -> Nat]
    /\ pc = "code" => at_entry = regs
    /\ pc \in {"called", "returned"} =>
          vector \in Vectors /\ stack = framed(vector, at_entry)
    /\ pc = "called" /\ vector = SYSCALL => loaded(regs) = arguments(at_entry)
    /\ pc = "returned" /\ vector = SYSCALL => regs["rax"] = result

\* What EoiUnlessMisrouted says, of any lines in service.
accounted(m, s) == /\ (m \ {CASCADE}) \cup s \subseteq misrouted
                   /\ CASCADE \in m => \E line \in misrouted : line >= 8

\* While C runs for a device, its line is in service, nothing in service comes
\* before it, and the rest is accounted for.
line_of(v) == v - 32
foremost(line) ==
    /\ at_master(line) \in master
    /\ \A other \in master : at_master(line) <= other
    /\ line >= 8 => line \in slave /\ \A other \in slave : line <= other
    /\ accounted(master \ {at_master(line)}, slave \ {line})

PicInv == IF pc = "called" /\ vector >= 32 /\ vector # SYSCALL
             THEN foremost(line_of(vector))
             ELSE accounted(master, slave)

\* The first exit asked for is the one that is carried out; between the int
\* 0x80 and the C function it is still ahead.
ExitInv ==
    /\ late => first_exit # NoExit
    /\ exited => exit_code = first_exit
    /\ pc = "called" /\ vector = SYSCALL =>
          /\ late <=> exited
          /\ ~exited => first_exit = IF at_entry["rdi"] = EXIT THEN at_entry["rsi"] ELSE NoExit
    /\ ~(pc = "called" /\ vector = SYSCALL) => (exited <=> first_exit # NoExit)
    /\ pc = "returned" /\ vector = SYSCALL /\ late => result = answer_when_late

IInv == TypeOK /\ StackInv /\ ArgumentsArrive /\ PicInv /\ ExitInv

-----------------------------------------------------------------------------
LEMMA FrameDistinct ==
    /\ Len(Frame) = 10
    /\ Regs = {"r11", "r10", "r9", "r8", "rbp", "rdi", "rsi", "rdx", "rcx", "rax"}
    /\ \A i \in 1..10 : Frame[i] \in Regs
    /\ \A i \in 1..10 : Frame[i] = "rax" <=> i = 10
<1>1. Len(Frame) = 10
  BY DEF Frame
<1>2. \A i \in 1..10 : i = 1 \/ i = 2 \/ i = 3 \/ i = 4 \/ i = 5 \/ i = 6 \/ i = 7 \/ i = 8
                       \/ i = 9 \/ i = 10
  OBVIOUS
<1>3. Regs = {"r11", "r10", "r9", "r8", "rbp", "rdi", "rsi", "rdx", "rcx", "rax"}
  BY <1>1, <1>2 DEF Regs, Frame
<1>4. \A i \in 1..10 : Frame[i] = "rax" <=> i = 10
  BY <1>2 DEF Frame
<1> QED
  BY <1>1, <1>3, <1>4 DEF Regs

LEMMA PlaceType ==
    ASSUME NEW r \in Regs
    PROVE  place(r) \in 1..10 /\ Frame[place(r)] = r
<1>1. \E i \in 1..Len(Frame) : Frame[i] = r
  BY DEF Regs
<1> QED
  BY <1>1, FrameDistinct DEF place

LEMMA OwnType ==
    ASSUME NEW r \in Regs PROVE own(r) \in Nat
<1>1. own(r) = 100000 + place(r)
  BY DEF own, place
<1>2. place(r) \in 1..10
  BY PlaceType
<1> QED
  BY <1>1, <1>2

LEMMA VectorsType ==
    /\ Vectors \subseteq Nat
    /\ \A v \in Vectors : v < 32 \/ v = SYSCALL \/ line_of(v) \in pic_remap
    /\ \A v \in Vectors : pushed(v) \in Nat
    /\ pic_remap \subseteq (0..15) \ {CASCADE}
    /\ NoVector \notin Vectors
<1>1. pic_remap \subseteq (0..15) \ {CASCADE}
  BY ValueAssumption DEF pic_remap, CASCADE
<1>2. ASSUME NEW v \in Vectors
      PROVE  v \in Nat /\ (v < 32 \/ v = SYSCALL \/ line_of(v) \in pic_remap)
  <2>1. CASE v \in Exceptions
    BY <2>1, ValueAssumption
  <2>2. CASE v \in { 32 + line : line \in pic_remap }
    <3>1. PICK line \in pic_remap : v = 32 + line
      BY <2>2
    <3>2. line \in Nat /\ v \in Nat /\ line_of(v) = line
      BY <1>1, <3>1 DEF line_of
    <3> QED
      BY <3>2
  <2>3. CASE v = SYSCALL
    BY <2>3 DEF SYSCALL
  <2> QED
    BY <2>1, <2>2, <2>3 DEF Vectors
<1>3. \A v \in Vectors : pushed(v) \in Nat
  BY <1>2 DEF pushed
<1>4. NoVector \notin Vectors
  BY <1>2, ValueAssumption
<1> QED
  BY <1>1, <1>2, <1>3, <1>4

\* The stack of a stub, slot by slot.
LEMMA FramedShape ==
    ASSUME NEW v \in Vectors, NEW r \in [Regs -> Nat]
    PROVE  /\ framed(v, r) \in Seq(Nat)
           /\ Len(framed(v, r)) = 11
           /\ \A i \in 1..10 : framed(v, r)[IF v < 32 THEN i ELSE i + 1] = r[Frame[i]]
<1> DEFINE frame == [i \in 1..Len(Frame) |-> r[Frame[i]]]
<1>1. frame \in Seq(Nat) /\ Len(frame) = 10 /\ \A i \in 1..10 : frame[i] = r[Frame[i]]
  BY FrameDistinct
<1>2. <<v>> \in Seq(Nat) /\ Len(<<v>>) = 1 /\ <<pushed(v)>> \in Seq(Nat) /\ Len(<<pushed(v)>>) = 1
  BY VectorsType
<1> HIDE DEF frame
<1>3. CASE v < 32
  <2> DEFINE last == <<v>>
             both == frame \o last
  <2>1. framed(v, r) = both
    BY <1>3 DEF framed, frame
  <2>2. /\ both \in Seq(Nat) /\ Len(both) = Len(frame) + Len(last)
        /\ \A i \in 1..Len(frame) + Len(last) :
              both[i] = IF i <= Len(frame) THEN frame[i] ELSE last[i - Len(frame)]
    BY <1>1, <1>2, ConcatProperties, Zenon
  <2>3. Len(last) = 1
    OBVIOUS
  <2> HIDE DEF both, last
  <2>4. Len(both) = 11 /\ \A i \in 1..11 : i <= 10 => both[i] = frame[i]
    BY <1>1, <2>2, <2>3
  <2>5. ASSUME NEW i \in 1..10 PROVE both[i] = r[Frame[i]]
    <3>1. i \in 1..11 /\ i <= 10
      OBVIOUS
    <3> QED
      BY <1>1, <2>4, <3>1
  <2> QED
    BY <1>3, <2>1, <2>2, <2>4, <2>5
<1>4. CASE ~(v < 32)
  <2> DEFINE top == <<pushed(v)>>
             both == top \o frame
  <2>1. framed(v, r) = both
    BY <1>4 DEF framed, frame
  <2>2. /\ both \in Seq(Nat) /\ Len(both) = Len(top) + Len(frame)
        /\ \A i \in 1..Len(top) + Len(frame) :
              both[i] = IF i <= Len(top) THEN top[i] ELSE frame[i - Len(top)]
    BY <1>1, <1>2, ConcatProperties, Zenon
  <2>3. Len(top) = 1
    OBVIOUS
  <2> HIDE DEF both, top
  <2>4. Len(both) = 11 /\ \A i \in 1..11 : both[i] = IF i <= 1 THEN top[i] ELSE frame[i - 1]
    BY <1>1, <2>2, <2>3
  <2>5. ASSUME NEW i \in 1..10 PROVE both[i + 1] = r[Frame[i]]
    <3>1. i + 1 \in 1..11 /\ ~(i + 1 <= 1) /\ (i + 1) - 1 = i
      OBVIOUS
    <3>2. both[i + 1] = frame[(i + 1) - 1]
      BY <2>4, <3>1
    <3> QED
      BY <1>1, <3>1, <3>2
  <2>6. both \in Seq(Nat) /\ Len(both) = 11
    BY <2>2, <2>4
  <2> QED
    BY <1>4, <2>1, <2>5, <2>6
<1> QED
  BY <1>3, <1>4

-----------------------------------------------------------------------------
LEMMA InitIInv == Init => IInv
<1> SUFFICES ASSUME Init PROVE IInv
  OBVIOUS
<1>1. regs \in [Regs -> Nat]
  <2>1. PICK rdi \in RdiValues, rsi \in RsiValues :
           regs = [r \in Regs |-> CASE r = "rdi" -> rdi
                                    [] r = "rsi" -> rsi
                                    [] OTHER     -> own(r)]
    BY DEF Init
  <2>2. rdi \in Nat /\ rsi \in Nat /\ \A r \in Regs : own(r) \in Nat
    BY OwnType, ValueAssumption
  <2> QED
    BY <2>1, <2>2
<1>2. TypeOK
  <2>1. stack \in Seq(Nat) /\ exit_code \in Nat
    BY DEF Init
  <2>2. vector \in Vectors \cup {NoVector} /\ pc \in {"code", "called", "returned", "halted"}
    BY DEF Init
  <2>3. /\ irr \subseteq pic_remap /\ misrouted \subseteq pic_remap
        /\ master \subseteq 0..7 /\ slave \subseteq 8..15
        /\ pc = "code" => stack = <<>> /\ vector = NoVector
    BY DEF Init
  <2>4. exited \in BOOLEAN /\ prepared \in BOOLEAN /\ late \in BOOLEAN
    <3>1. exited = FALSE /\ prepared \in BOOLEAN /\ late = FALSE
      BY DEF Init
    <3> QED
      BY <3>1, Zenon
  <2>5. first_exit \in Nat \cup {NoExit}
    BY DEF Init
  <2> QED
    BY <1>1, <2>1, <2>2, <2>3, <2>4, <2>5 DEF TypeOK
<1>3. StackInv
  BY <1>1 DEF Init, StackInv
<1>4. ArgumentsArrive
  BY DEF Init, ArgumentsArrive
<1>5. PicInv
  BY DEF Init, PicInv, accounted, CASCADE
<1>6. ExitInv
  BY DEF Init, ExitInv
<1> QED
  BY <1>2, <1>3, <1>4, <1>5, <1>6 DEF IInv

-----------------------------------------------------------------------------
\* The code that is interrupted, and the devices.
LEMMA CodeIInv == IInv /\ CodeStep => IInv'
<1> SUFFICES ASSUME IInv, CodeStep PROVE IInv'
  OBVIOUS
<1>1. PICK rdi \in RdiValues, rsi \in RsiValues :
         regs' = [regs EXCEPT !["rdi"] = rdi, !["rsi"] = rsi, !["rax"] = own("rax")]
  BY DEF CodeStep
<1>2. rdi \in Nat /\ rsi \in Nat /\ own("rax") \in Nat
  BY OwnType, FrameDistinct, ValueAssumption
<1>3. regs' \in [Regs -> Nat] /\ at_entry' = regs' /\ pc' = "code" /\ pc = "code"
  BY <1>1, <1>2 DEF CodeStep, IInv, TypeOK
<1>4. UNCHANGED <<stack, vector, picVars, process, call, result, exits>>
  BY DEF CodeStep
<1>5. TypeOK'
  BY <1>3, <1>4 DEF IInv, TypeOK, picVars, process, exits
<1>6. StackInv' /\ ArgumentsArrive'
  BY <1>3, <1>4 DEF StackInv, ArgumentsArrive
<1>7. PicInv'
  BY <1>3, <1>4 DEF IInv, PicInv, accounted, picVars
<1>8. ExitInv'
  BY <1>3, <1>4 DEF IInv, ExitInv, process, exits
<1> QED
  BY <1>5, <1>6, <1>7, <1>8 DEF IInv

LEMMA RequestIInv ==
    ASSUME NEW line \in pic_remap, IInv, Request(line)
    PROVE  IInv'
<1>1. irr' \subseteq pic_remap
  BY DEF Request, IInv, TypeOK
<1>2. UNCHANGED <<regs, stack, pc, vector, master, slave, misrouted, process, history>>
  BY DEF Request
<1>3. TypeOK'
  BY <1>1, <1>2 DEF IInv, TypeOK, process, history, exits
<1>4. StackInv' /\ ArgumentsArrive'
  BY <1>2 DEF IInv, StackInv, ArgumentsArrive, history
<1>5. PicInv'
  BY <1>2 DEF IInv, PicInv, foremost, accounted
<1>6. ExitInv'
  BY <1>2 DEF IInv, ExitInv, process, history, exits, answer_when_late
<1> QED
  BY <1>3, <1>4, <1>5, <1>6 DEF IInv

\* Entering a stub: the stack gets its frame.
LEMMA EnterStub ==
    ASSUME NEW v \in Vectors, IInv, enter_stub(v)
    PROVE  /\ stack' = framed(v, at_entry) /\ stack' \in Seq(Nat)
           /\ pc = "code" /\ pc' = "called" /\ vector' = v
           /\ at_entry' = at_entry /\ at_entry = regs
           /\ UNCHANGED process
           /\ ArgumentsArrive'
<1>1. at_entry = regs /\ at_entry \in [Regs -> Nat]
  BY DEF IInv, StackInv, enter_stub
<1>2. stack' = framed(v, at_entry)
  BY <1>1 DEF enter_stub, framed, saved
<1>3. /\ pc = "code" /\ pc' = "called" /\ vector' = v
      /\ UNCHANGED <<process, at_entry, call, result>>
  BY DEF enter_stub
<1>4. ArgumentsArrive'
  BY <1>3 DEF ArgumentsArrive
<1> QED
  BY <1>1, <1>2, <1>3, <1>4, FramedShape

\* An interrupt or an exception does not touch the process.
LEMMA EnterExitInv ==
    ASSUME NEW v \in Vectors \ {SYSCALL}, IInv, enter_stub(v), UNCHANGED exits
    PROVE  ExitInv'
<1>1. pc = "code" /\ pc' = "called" /\ vector' = v /\ UNCHANGED <<process, exits>>
  BY DEF enter_stub
<1>2. v # SYSCALL
  OBVIOUS
<1> QED
  BY <1>1, <1>2 DEF IInv, ExitInv, process, exits

LEMMA DeliverIInv ==
    ASSUME NEW line \in pic_remap, IInv, Deliver(line)
    PROVE  IInv'
<1> DEFINE v == 32 + line
<1>1. v \in Vectors /\ line \in 0..15 /\ line # CASCADE
  BY VectorsType DEF Vectors
<1>2. enter_stub(v)
  BY DEF Deliver
<1>3. /\ stack' = framed(v, at_entry) /\ stack' \in Seq(Nat)
      /\ pc = "code" /\ pc' = "called" /\ vector' = v
      /\ at_entry' = at_entry
      /\ UNCHANGED process
      /\ ArgumentsArrive'
  BY <1>1, <1>2, EnterStub
<1>4. /\ irr' = irr \ {line} /\ master' = master \cup {at_master(line)}
      /\ slave' = IF line < 8 THEN slave ELSE slave \cup {line}
      /\ ~held_back(line)
      /\ UNCHANGED <<regs, misrouted, exits>>
  BY DEF Deliver
<1>5. at_master(line) \in 0..7
  BY <1>1 DEF at_master, CASCADE
<1>6. TypeOK'
  <2>1. irr' \subseteq pic_remap /\ misrouted' \subseteq pic_remap
    BY <1>4 DEF IInv, TypeOK
  <2>2. master \subseteq 0..7 /\ slave \subseteq 8..15
    BY DEF IInv, TypeOK
  <2>3. master' \subseteq 0..7
    BY <1>4, <1>5, <2>2
  <2>4. slave' \subseteq 8..15
    <3>1. ~(line < 8) => line \in 8..15
      BY <1>1
    <3> QED
      BY <1>4, <2>2, <3>1, Zenon
  <2> QED
    BY <1>1, <1>3, <1>4, <2>1, <2>3, <2>4 DEF IInv, TypeOK, process, exits
<1>7. StackInv'
  <2>1. v # SYSCALL
    BY <1>1 DEF SYSCALL
  <2> QED
    BY <1>1, <1>3, <2>1 DEF IInv, StackInv
<1>8. PicInv'
  <2>1. v >= 32 /\ v # SYSCALL /\ line_of(v) = line
    BY <1>1 DEF SYSCALL, line_of
  <2>2. accounted(master, slave)
    BY <1>3 DEF IInv, PicInv
  <2>3. \A busy \in master : at_master(line) < busy
    BY <1>4, <1>5 DEF held_back, IInv, TypeOK
  <2>4. line >= 8 => \A busy \in slave : line < busy
    BY <1>1, <1>4 DEF held_back, IInv, TypeOK
  <2>5. master' \ {at_master(line)} = master
    BY <1>4, <1>5, <2>3 DEF IInv, TypeOK
  <2>6. slave' \ {line} = slave
    BY <1>1, <1>4, <2>4 DEF IInv, TypeOK
  <2>7. foremost(line)'
    <3>1. at_master(line) \in master' /\ \A other \in master' : at_master(line) <= other
      BY <1>4, <1>5, <2>3 DEF IInv, TypeOK
    <3>2. line >= 8 => line \in slave' /\ \A other \in slave' : line <= other
      BY <1>1, <1>4, <2>4 DEF IInv, TypeOK
    <3>3. accounted(master \ {at_master(line)}, slave \ {line})'
      BY <1>4, <2>2, <2>5, <2>6 DEF accounted, at_master
    <3> QED
      BY <3>1, <3>2, <3>3 DEF foremost, at_master
  <2> QED
    BY <1>3, <2>1, <2>7 DEF PicInv
<1>9. ExitInv'
  <2>1. v # SYSCALL
    BY <1>1 DEF SYSCALL
  <2> QED
    BY <1>1, <1>2, <1>4, <2>1, EnterExitInv
<1> QED
  BY <1>3, <1>6, <1>7, <1>8, <1>9 DEF IInv

LEMMA ExceptionIInv ==
    ASSUME NEW v \in Exceptions, IInv, Exception(v)
    PROVE  IInv'
<1>1. v \in Vectors /\ v < 32
  BY ValueAssumption DEF Vectors
<1>2. /\ stack' = framed(v, at_entry) /\ stack' \in Seq(Nat)
      /\ pc = "code" /\ pc' = "called" /\ vector' = v
      /\ at_entry' = at_entry
      /\ UNCHANGED process
      /\ ArgumentsArrive'
  BY <1>1, EnterStub DEF Exception
<1>3. UNCHANGED <<regs, picVars, exits>>
  BY DEF Exception
<1>4. TypeOK'
  BY <1>1, <1>2, <1>3 DEF IInv, TypeOK, process, picVars, exits
<1>5. StackInv'
  BY <1>1, <1>2 DEF IInv, StackInv, SYSCALL
<1>6. PicInv'
  <2>1. ~(v >= 32)
    BY <1>1, ValueAssumption
  <2> QED
    BY <1>2, <1>3, <2>1 DEF IInv, PicInv, accounted, picVars
<1>7. ExitInv'
  <2>1. v # SYSCALL
    BY <1>1 DEF SYSCALL
  <2> QED
    BY <1>1, <1>3, <2>1, EnterExitInv DEF Exception
<1> QED
  BY <1>2, <1>4, <1>5, <1>6, <1>7 DEF IInv

\* Every slot the system call stub loads an argument from is the slot of the
\* register it means.
LEMMA SyscallStubIInv == IInv /\ interrupt_syscall_stub => IInv'
<1> SUFFICES ASSUME IInv, interrupt_syscall_stub PROVE IInv'
  OBVIOUS
<1>1. SYSCALL \in Vectors /\ ~(SYSCALL < 32)
  BY DEF Vectors, SYSCALL
<1>2. /\ stack' = framed(SYSCALL, at_entry) /\ stack' \in Seq(Nat)
      /\ pc = "code" /\ pc' = "called" /\ vector' = SYSCALL
      /\ at_entry' = at_entry /\ at_entry = regs
      /\ UNCHANGED process
      /\ ArgumentsArrive'
  BY <1>1, EnterStub DEF interrupt_syscall_stub
<1>3. at_entry \in [Regs -> Nat]
  BY DEF IInv, StackInv
<1>4. \A i \in 1..10 : slot(stack', i) = at_entry[Frame[i]]
  BY <1>1, <1>2, <1>3, FramedShape DEF slot
<1>5. /\ slot(stack', 2) = at_entry["r10"] /\ slot(stack', 3) = at_entry["r9"]
      /\ slot(stack', 4) = at_entry["r8"] /\ slot(stack', 6) = at_entry["rdi"]
      /\ slot(stack', 7) = at_entry["rsi"] /\ slot(stack', 8) = at_entry["rdx"]
  BY <1>4 DEF Frame
<1>6. regs' = [at_entry EXCEPT !["rdi"] = at_entry["rdi"], !["rsi"] = at_entry["rsi"],
                               !["rdx"] = at_entry["rdx"], !["rcx"] = at_entry["r10"],
                               !["r8"] = at_entry["r8"], !["r9"] = at_entry["r9"]]
  BY <1>2, <1>5 DEF interrupt_syscall_stub
<1>7. regs' \in [Regs -> Nat] /\ loaded(regs') = arguments(at_entry)
  <2>1. regs' \in [Regs -> Nat]
    BY <1>3, <1>6, FrameDistinct
  <2>2. /\ regs'["rdi"] = at_entry["rdi"] /\ regs'["rsi"] = at_entry["rsi"]
        /\ regs'["rdx"] = at_entry["rdx"] /\ regs'["rcx"] = at_entry["r10"]
        /\ regs'["r8"] = at_entry["r8"] /\ regs'["r9"] = at_entry["r9"]
    BY <1>3, <1>6, FrameDistinct
  <2>3. arguments(at_entry) = <<at_entry["rdi"], at_entry["rsi"], at_entry["rdx"],
                                at_entry["r10"], at_entry["r8"], at_entry["r9"]>>
    BY DEF arguments
  <2> QED
    BY <2>1, <2>2, <2>3 DEF loaded
<1>l. /\ late' = (first_exit # NoExit) /\ UNCHANGED picVars
      /\ first_exit' = IF at_entry["rdi"] = EXIT /\ ~late' THEN at_entry["rsi"] ELSE first_exit
      /\ at_entry["rsi"] \in Nat
  BY <1>3, FrameDistinct DEF interrupt_syscall_stub
<1>8. TypeOK'
  <2>1. late' \in BOOLEAN
    BY <1>l, Zenon
  <2>2. first_exit' \in Nat \cup {NoExit}
    BY <1>l DEF IInv, TypeOK
  <2> QED
    BY <1>1, <1>2, <1>7, <1>l, <2>1, <2>2 DEF IInv, TypeOK, process, picVars
<1>9. StackInv'
  BY <1>1, <1>2, <1>3, <1>7 DEF StackInv, loaded, arguments
<1>10. PicInv'
  BY <1>2 DEF IInv, PicInv, accounted, picVars, interrupt_syscall_stub
<1>11. ExitInv'
  <2>1. /\ exited <=> first_exit # NoExit
        /\ exited => exit_code = first_exit
    BY <1>2 DEF IInv, ExitInv
  <2>2. at_entry["rsi"] # NoExit
    BY <1>l, ValueAssumption
  <2>3. exited' = exited /\ exit_code' = exit_code
    BY <1>2 DEF process
  <2>4. CASE exited
    BY <1>2, <1>l, <2>1, <2>3, <2>4 DEF ExitInv
  <2>5. CASE ~exited
    BY <1>2, <1>l, <2>1, <2>2, <2>3, <2>5 DEF ExitInv
  <2> QED
    BY <2>4, <2>5
<1> QED
  BY <1>2, <1>8, <1>9, <1>10, <1>11 DEF IInv

-----------------------------------------------------------------------------
(***************************************************************************)
(* The C functions.                                                        *)
(***************************************************************************)
LEMMA ClobberedType ==
    ASSUME regs \in [Regs -> Nat] PROVE clobbered \in [Regs -> Nat]
BY ValueAssumption DEF clobbered

\* An end-of-interrupt command clears the foremost line.
LEMMA EoiClearsForemost ==
    ASSUME NEW lines \in SUBSET Nat, NEW first \in lines,
           \A other \in lines : first <= other
    PROVE  eoi(lines) = lines \ {first}
<1>1. ASSUME NEW l \in lines PROVE (\E higher \in lines : higher < l) <=> l # first
  <2>1. CASE l = first
    BY <2>1
  <2>2. CASE l # first
    <3>1. first < l
      BY <2>2
    <3> QED
      BY <2>2, <3>1
  <2> QED
    BY <2>1, <2>2
<1> QED
  BY <1>1, Zenon DEF eoi

LEMMA EoiSubset ==
    ASSUME NEW lines PROVE eoi(lines) \subseteq lines
BY DEF eoi

\* Removing lines from service leaves the rest accounted for.
LEMMA AccountedLess ==
    ASSUME NEW m, NEW s, accounted(m, s), misrouted \subseteq misrouted'
    PROVE  \A m2 \in SUBSET m, s2 \in SUBSET s : accounted(m2, s2)'
BY DEF accounted

LEMMA DispatchIInv == IInv /\ interrupt_dispatch => IInv'
<1> SUFFICES ASSUME IInv, interrupt_dispatch PROVE IInv'
  OBVIOUS
<1> DEFINE argument == regs["rdi"]
           line == line_of(vector)
<1>1. /\ pc = "called" /\ vector # SYSCALL /\ pc' \in {"halted", "returned"}
      /\ master' = IF told_master(argument) THEN eoi(master) ELSE master
      /\ slave' = IF argument = MOUSE THEN eoi(slave) ELSE slave
      /\ regs' = clobbered
      /\ UNCHANGED <<stack, vector, irr, process, history>>
  BY DEF interrupt_dispatch
<1>2. vector \in Vectors /\ vector \in Nat
  BY <1>1, VectorsType DEF IInv, StackInv
<1>3. misrouted' = IF vector < 32 THEN misrouted
                   ELSE IF vector \in Handled /\ argument = vector THEN misrouted \ {line}
                   ELSE misrouted \cup {line}
  BY DEF interrupt_dispatch, line_of
<1>4. vector >= 32 => line \in pic_remap /\ line \in 0..15 /\ line # CASCADE
  <2>1. vector >= 32 => ~(vector < 32)
    BY <1>2
  <2>2. vector >= 32 => line \in pic_remap
    BY <1>1, <1>2, <2>1, VectorsType, Zenon
  <2> QED
    BY <2>2, VectorsType
<1>5. master' \subseteq master /\ slave' \subseteq slave
  BY <1>1, EoiSubset
<1>6. TypeOK'
  <2>1. regs' \in [Regs -> Nat]
    BY <1>1, ClobberedType DEF IInv, TypeOK
  <2>2. misrouted' \subseteq pic_remap
    BY <1>2, <1>3, <1>4 DEF IInv, TypeOK
  <2> QED
    BY <1>1, <1>5, <2>1, <2>2 DEF IInv, TypeOK, process, history, exits
<1>7. StackInv' /\ ArgumentsArrive'
  BY <1>1 DEF IInv, StackInv, ArgumentsArrive, history
<1>8. PicInv'
  <2> SUFFICES accounted(master, slave)'
    BY <1>1 DEF PicInv
  <2>1. CASE vector < 32
    <3>1. accounted(master, slave) /\ misrouted' = misrouted
      BY <1>2, <1>3, <2>1 DEF IInv, PicInv
    <3> QED
      BY <1>5, <3>1, AccountedLess
  <2>2. CASE vector >= 32
    <3>1. foremost(line)
      BY <1>1, <2>2 DEF IInv, PicInv
    <3>2. master \in SUBSET Nat /\ slave \in SUBSET Nat
      BY DEF IInv, TypeOK
    <3>3. told_master(argument) => master' = master \ {at_master(line)}
      BY <1>1, <3>1, <3>2, EoiClearsForemost DEF foremost
    <3>4. CASE vector \in Handled /\ argument = vector
      <4>1. misrouted' = misrouted \ {line}
        BY <1>2, <1>3, <2>2, <3>4
      <4>2. master' = master \ {at_master(line)}
        BY <3>3, <3>4 DEF told_master
      <4>3. slave' = slave \ {line}
        <5>1. CASE vector = MOUSE
          <6>1. line >= 8
            BY <5>1 DEF line_of, MOUSE
          <6> QED
            BY <1>1, <3>1, <3>2, <3>4, <5>1, <6>1, EoiClearsForemost DEF foremost
        <5>2. CASE vector # MOUSE
          <6>1. line < 8
            BY <3>4, <5>2 DEF Handled, line_of, TIMER, KEYBOARD
          <6>2. line \notin slave
            BY <1>4, <2>2, <6>1 DEF IInv, TypeOK
          <6> QED
            BY <1>1, <3>4, <5>2, <6>2
        <5> QED
          BY <5>1, <5>2
      <4>4. accounted(master \ {at_master(line)}, slave \ {line})
        BY <3>1 DEF foremost
      <4>5. ((master' \ {CASCADE}) \cup slave') \subseteq misrouted \ {line}
        <5>1. line \notin slave'
          BY <4>3
        <5>2. line \notin master' \ {CASCADE}
          <6>1. CASE line < 8
            BY <1>4, <2>2, <4>2, <6>1 DEF at_master
          <6>2. CASE line >= 8
            <7>1. line \notin 0..7
              BY <1>4, <2>2, <6>2
            <7> QED
              BY <1>5, <7>1 DEF IInv, TypeOK
          <6> QED
            BY <1>4, <2>2, <6>1, <6>2
        <5> QED
          BY <4>2, <4>3, <4>4, <5>1, <5>2 DEF accounted
      <4>6. CASCADE \in master' => \E other \in misrouted \ {line} : other >= 8
        <5>1. CASE line < 8
          BY <1>4, <2>2, <4>2, <4>4, <5>1 DEF accounted
        <5>2. CASE line >= 8
          BY <1>4, <2>2, <4>2, <5>2 DEF at_master
        <5> QED
          BY <1>4, <2>2, <5>1, <5>2
      <4> QED
        BY <4>1, <4>5, <4>6 DEF accounted
    <3>5. CASE ~(vector \in Handled /\ argument = vector)
      <4>1. misrouted' = misrouted \cup {line}
        BY <1>2, <1>3, <2>2, <3>5
      <4>2. (master \ {CASCADE}) \cup slave \subseteq misrouted'
        <5>1. at_master(line) \in {line, CASCADE}
          BY DEF at_master
        <5> QED
          BY <3>1, <4>1, <5>1 DEF foremost, accounted
      <4>3. CASCADE \in master => \E other \in misrouted' : other >= 8
        <5>1. CASE line < 8
          <6>1. CASCADE \in master => CASCADE \in master \ {at_master(line)}
            BY <1>4, <2>2, <5>1 DEF at_master
          <6> QED
            BY <3>1, <4>1, <6>1 DEF foremost, accounted
        <5>2. CASE line >= 8
          BY <4>1, <5>2
        <5> QED
          BY <1>4, <2>2, <5>1, <5>2
      <4> QED
        BY <1>5, <4>2, <4>3 DEF accounted
    <3> QED
      BY <3>4, <3>5
  <2> QED
    BY <1>2, <2>1, <2>2
<1>9. ExitInv'
  BY <1>1 DEF IInv, ExitInv, process, history, exits
<1> QED
  BY <1>6, <1>7, <1>8, <1>9 DEF IInv

LEMMA SyscallResultType ==
    ASSUME NEW number \in Nat, exited \in BOOLEAN
    PROVE  syscall_result(number) \in Nat
BY ValueAssumption
   DEF syscall_result, refuses, user_process_state, GET_PROCESS_STATE, GET_TICKS, GET_COUNT,
       GET_MEMORY_FREE, YIELD, EXIT, UNPREPARED, READY, EXITED

LEMMA SyscallDispatchIInv == IInv /\ interrupt_syscall_dispatch => IInv'
<1> SUFFICES ASSUME IInv, interrupt_syscall_dispatch PROVE IInv'
  OBVIOUS
<1> DEFINE number == regs["rdi"]
<1>1. /\ pc = "called" /\ vector = SYSCALL /\ pc' = "returned"
      /\ call' = loaded(regs)
      /\ result' = syscall_result(number)
      /\ IF number = EXIT /\ ~refuses(number)
            THEN user_process_exit(regs["rsi"]) ELSE UNCHANGED process
      /\ regs' = [clobbered EXCEPT !["rax"] = result']
      /\ UNCHANGED <<stack, vector, picVars, at_entry, exits>>
  BY DEF interrupt_syscall_dispatch, loaded
<1>2. regs \in [Regs -> Nat] /\ number \in Nat /\ regs["rsi"] \in Nat
  BY FrameDistinct DEF IInv, TypeOK
<1>3. exited \in BOOLEAN
  BY DEF IInv, TypeOK
<1>4. result' \in Nat
  BY <1>1, <1>2, <1>3, SyscallResultType
<1>5. regs' \in [Regs -> Nat] /\ regs'["rax"] = result'
  BY <1>1, <1>2, <1>4, ClobberedType, FrameDistinct
<1>6. TypeOK'
  <2>1. CASE UNCHANGED process
    BY <1>1, <1>5, <2>1 DEF IInv, TypeOK, picVars, process, exits
  <2>2. CASE exited' = TRUE /\ exit_code' = regs["rsi"] /\ UNCHANGED prepared
    <3>1. exited' \in BOOLEAN
      BY <2>2, Zenon
    <3> QED
      BY <1>1, <1>2, <1>5, <2>2, <3>1 DEF IInv, TypeOK, picVars, exits
  <2> QED
    BY <1>1, <2>1, <2>2 DEF user_process_exit
<1>7. StackInv'
  BY <1>1, <1>5 DEF IInv, StackInv
<1>8. ArgumentsArrive'
  <2>1. call' = arguments(at_entry)
    BY <1>1 DEF IInv, StackInv
  <2> QED
    BY <1>1, <2>1 DEF ArgumentsArrive, arguments
<1>9. PicInv'
  BY <1>1 DEF IInv, PicInv, accounted, picVars
<1>10. number = at_entry["rdi"] /\ regs["rsi"] = at_entry["rsi"]
  BY <1>1 DEF IInv, StackInv, loaded, arguments
<1>11. ExitInv'
  <2>1. /\ late <=> exited
        /\ exited => exit_code = first_exit /\ first_exit # NoExit
        /\ ~exited => first_exit = IF number = EXIT THEN regs["rsi"] ELSE NoExit
    BY <1>1, <1>10 DEF IInv, ExitInv
  <2>2. regs["rsi"] # NoExit
    BY <1>2, ValueAssumption
  <2>3. first_exit' = first_exit /\ late' = late /\ at_entry' = at_entry
    BY <1>1 DEF exits
  <2>4. CASE exited
    <3>1. UNCHANGED process
      BY <1>1, <2>4 DEF refuses, EXIT, GET_PROCESS_STATE
    <3>2. result' = IF number = GET_PROCESS_STATE THEN EXITED ELSE UINT64_MAX
      <4>1. CASE number = GET_PROCESS_STATE
        <5>1. ~refuses(number) /\ number \notin {YIELD, EXIT}
          BY <4>1 DEF refuses, GET_PROCESS_STATE, YIELD, EXIT
        <5>2. syscall_result(number) = user_process_state
          BY <4>1, <5>1 DEF syscall_result, GET_PROCESS_STATE, GET_TICKS, GET_COUNT, GET_MEMORY_FREE
        <5> QED
          BY <1>1, <2>4, <4>1, <5>2 DEF user_process_state
      <4>2. CASE number # GET_PROCESS_STATE
        BY <1>1, <2>4, <4>2 DEF syscall_result, refuses
      <4> QED
        BY <4>1, <4>2
    <3>3. result' = answer_when_late'
      BY <1>10, <2>3, <3>2 DEF answer_when_late
    <3>4. exited' = exited /\ exit_code' = exit_code
      BY <3>1 DEF process
    <3> QED
      BY <1>1, <2>1, <2>3, <2>4, <3>3, <3>4 DEF ExitInv
  <2>5. CASE ~exited /\ number = EXIT
    <3>1. exited' = TRUE /\ exit_code' = regs["rsi"]
      BY <1>1, <2>5 DEF refuses, user_process_exit
    <3> QED
      BY <1>1, <2>1, <2>2, <2>3, <2>5, <3>1 DEF ExitInv
  <2>6. CASE ~exited /\ number # EXIT
    <3>1. exited' = exited /\ exit_code' = exit_code
      BY <1>1, <2>6 DEF process
    <3> QED
      BY <1>1, <2>1, <2>3, <2>6, <3>1 DEF ExitInv
  <2> QED
    BY <2>4, <2>5, <2>6
<1> QED
  BY <1>6, <1>7, <1>8, <1>9, <1>11 DEF IInv

-----------------------------------------------------------------------------
(***************************************************************************)
(* The exit of a stub.                                                     *)
(***************************************************************************)

LEMMA TailShape ==
    ASSUME NEW s \in Seq(Nat), Len(s) = 11
    PROVE  \A i \in 1..10 : Tail(s)[i] = s[i + 1]
<1> DEFINE t == Tail(s)
<1>1. s # <<>>
  <2>1. Len(<<>>) = 0
    OBVIOUS
  <2>2. 0 # 11
    OBVIOUS
  <2> QED
    BY <2>1, <2>2, Zenon
<1>2. Len(t) = Len(s) - 1 /\ \A i \in 1..Len(t) : t[i] = s[i + 1]
  BY <1>1, HeadTailProperties, Zenon
<1> HIDE DEF t
<1>3. \A i \in 1..10 : t[i] = s[i + 1]
  BY <1>2
<1> QED
  BY <1>3 DEF t

LEMMA StoredShape ==
    ASSUME NEW s \in Seq(Nat), Len(s) = 11, NEW e \in Nat
    PROVE  /\ [s EXCEPT ![11] = e] \in Seq(Nat)
           /\ Len([s EXCEPT ![11] = e]) = 11
           /\ \A i \in 1..11 : [s EXCEPT ![11] = e][i] = IF i = 11 THEN e ELSE s[i]
<1> DEFINE t == [s EXCEPT ![11] = e]
<1>1. s \in [1..11 -> Nat]
  <2>1. s \in [1..Len(s) -> Nat]
    BY LenProperties, Zenon
  <2> QED
    BY <2>1
<1>2. t \in [1..11 -> Nat] /\ \A i \in 1..11 : t[i] = IF i = 11 THEN e ELSE s[i]
  BY <1>1
<1> HIDE DEF t
<1>3. t \in Seq(Nat) /\ Len(t) = 11
  <2>1. 11 \in Nat
    OBVIOUS
  <2>2. t \in Seq(Nat)
    BY <1>2, <2>1, SeqDef, Zenon
  <2>3. Len(t) \in Nat /\ DOMAIN t = 1..Len(t)
    BY <2>2, LenProperties, Zenon
  <2>4. 1..Len(t) = 1..11
    BY <1>2, <2>3
  <2> QED
    BY <2>2, <2>3, <2>4
<1> QED
  BY <1>2, <1>3 DEF t

\* What is popped is what was pushed, but for the result of a system call.
LEMMA FrameRestored ==
    ASSUME IInv, pc = "returned"
    PROVE  \A r \in Regs :
              frame_in(stack)[place(r)] =
                 IF vector = SYSCALL /\ r = "rax" THEN result ELSE at_entry[r]
<1>1. /\ at_entry \in [Regs -> Nat] /\ vector \in Vectors /\ stack = framed(vector, at_entry)
      /\ vector = SYSCALL => regs["rax"] = result
  BY DEF IInv, StackInv
<1>2. /\ stack \in Seq(Nat) /\ Len(stack) = 11
      /\ \A i \in 1..10 : stack[IF vector < 32 THEN i ELSE i + 1] = at_entry[Frame[i]]
  BY <1>1, FramedShape
<1>3. regs["rax"] \in Nat
  BY FrameDistinct DEF IInv, TypeOK
<1>4. ASSUME NEW r \in Regs
      PROVE  frame_in(stack)[place(r)] =
                IF vector = SYSCALL /\ r = "rax" THEN result ELSE at_entry[r]
  <2> DEFINE i == place(r)
  <2>1. i \in 1..10 /\ Frame[i] = r /\ (i = 10 <=> r = "rax")
    BY PlaceType, FrameDistinct
  <2> HIDE DEF i
  <2>2. CASE vector < 32
    <3>1. vector # SYSCALL
      BY <2>2 DEF SYSCALL
    <3>2. frame_in(stack) = stack
      BY <2>2, <3>1 DEF frame_in
    <3> QED
      BY <1>2, <2>1, <2>2, <3>1, <3>2 DEF i
  <2>3. CASE vector = SYSCALL
    <3> DEFINE stored == [stack EXCEPT ![11] = regs["rax"]]
    <3>1. frame_in(stack) = Tail(stored)
      BY <2>3 DEF frame_in, SYSCALL, result_slot
    <3>2. stored \in Seq(Nat) /\ Len(stored) = 11
          /\ \A j \in 1..11 : stored[j] = IF j = 11 THEN regs["rax"] ELSE stack[j]
      BY <1>2, <1>3, StoredShape
    <3> HIDE DEF stored
    <3>3. Tail(stored)[i] = stored[i + 1]
      BY <2>1, <3>2, TailShape
    <3>4. stored[i + 1] = IF i = 10 THEN regs["rax"] ELSE stack[i + 1]
      <4>1. i + 1 \in 1..11 /\ (i + 1 = 11 <=> i = 10)
        BY <2>1
      <4> QED
        BY <3>2, <4>1
    <3>5. stack[i + 1] = at_entry[r]
      BY <1>2, <2>1, <2>3 DEF SYSCALL
    <3> QED
      BY <1>1, <2>1, <2>3, <3>1, <3>3, <3>4, <3>5 DEF i
  <2>4. CASE ~(vector < 32) /\ vector # SYSCALL
    <3>1. frame_in(stack) = Tail(stack)
      BY <2>4 DEF frame_in
    <3>2. Tail(stack)[i] = stack[i + 1]
      BY <1>2, <2>1, TailShape
    <3>3. stack[i + 1] = at_entry[r]
      BY <1>2, <2>1, <2>4
    <3> QED
      BY <2>4, <3>1, <3>2, <3>3 DEF i
  <2> QED
    BY <2>2, <2>3, <2>4
<1> QED
  BY <1>4

LEMMA LeaveRestores ==
    ASSUME IInv, leave_stub
    PROVE  regs' = IF vector = SYSCALL THEN [at_entry EXCEPT !["rax"] = result] ELSE at_entry
<1>1. regs' = [r \in Regs |-> frame_in(stack)[place(r)]]
  BY DEF leave_stub, place
<1>2. \A r \in Regs : frame_in(stack)[place(r)] =
                         IF vector = SYSCALL /\ r = "rax" THEN result ELSE at_entry[r]
  BY FrameRestored DEF leave_stub
<1>3. at_entry \in [Regs -> Nat]
  BY DEF IInv, StackInv
<1> QED
  BY <1>1, <1>2, <1>3

LEMMA LeaveIInv == IInv /\ leave_stub => IInv'
<1> SUFFICES ASSUME IInv, leave_stub PROVE IInv'
  OBVIOUS
<1>1. /\ pc = "returned" /\ pc' = "code" /\ stack' = <<>> /\ vector' = NoVector
      /\ at_entry' = regs' /\ late' = FALSE
      /\ UNCHANGED <<picVars, process, first_exit>>
  BY DEF leave_stub
<1>2. regs' \in [Regs -> Nat]
  <2>1. vector = SYSCALL => result \in Nat
    <3>1. vector = SYSCALL => regs["rax"] = result
      BY <1>1 DEF IInv, StackInv
    <3> QED
      BY <3>1, FrameDistinct DEF IInv, TypeOK
  <2> QED
    BY <2>1, LeaveRestores DEF IInv, StackInv
<1>3. TypeOK'
  <2>1. late' \in BOOLEAN
    BY <1>1, Zenon
  <2> QED
    BY <1>1, <1>2, <2>1 DEF IInv, TypeOK, process, picVars
<1>4. StackInv' /\ ArgumentsArrive'
  BY <1>1, <1>2 DEF StackInv, ArgumentsArrive
<1>5. PicInv'
  BY <1>1 DEF IInv, PicInv, accounted, picVars
<1>6. ExitInv'
  BY <1>1 DEF IInv, ExitInv, process
<1> QED
  BY <1>3, <1>4, <1>5, <1>6 DEF IInv

LEMMA NextIInv == IInv /\ [Next]_vars => IInv'
<1> SUFFICES ASSUME IInv, [Next]_vars PROVE IInv'
  OBVIOUS
<1>1. CASE UNCHANGED vars
  <2>1. TypeOK'
    BY <1>1 DEF vars, picVars, process, history, exits, IInv, TypeOK
  <2>2. StackInv' /\ ArgumentsArrive' /\ PicInv'
    BY <1>1 DEF vars, picVars, history, IInv, StackInv, ArgumentsArrive, PicInv, foremost, accounted
  <2>3. ExitInv'
    BY <1>1 DEF vars, process, history, exits, IInv, ExitInv, answer_when_late
  <2> QED
    BY <2>1, <2>2, <2>3 DEF IInv
<1>2. CASE CodeStep
  BY <1>2, CodeIInv
<1>3. CASE \E line \in pic_remap : Request(line) \/ Deliver(line)
  BY <1>3, RequestIInv, DeliverIInv
<1>4. CASE \E v \in Exceptions : Exception(v)
  BY <1>4, ExceptionIInv
<1>5. CASE interrupt_syscall_stub
  BY <1>5, SyscallStubIInv
<1>6. CASE interrupt_dispatch
  BY <1>6, DispatchIInv
<1>7. CASE interrupt_syscall_dispatch
  BY <1>7, SyscallDispatchIInv
<1>8. CASE leave_stub
  BY <1>8, LeaveIInv
<1>9. CASE StayHalted
  BY <1>1, <1>9 DEF StayHalted
<1> QED
  BY <1>1, <1>2, <1>3, <1>4, <1>5, <1>6, <1>7, <1>8, <1>9 DEF Next

LEMMA Invariance == Spec => []IInv
BY InitIInv, NextIInv, PTL DEF Spec

\* Registers, stack, controllers and process state keep their types: a stub
\* leaves nothing on the stack of the code it interrupted.
THEOREM TypeCorrect == Spec => []TypeOK
BY Invariance, PTL DEF IInv

\* interrupt_syscall_dispatch gets the caller's rdi, rsi, rdx, r10, r8 and r9,
\* whatever they hold: the offsets of interrupt_syscall_stub are right.
THEOREM SyscallArguments == Spec => []ArgumentsArrive
BY Invariance, PTL DEF IInv

\* interrupt_dispatch leaves no line in service that got to its own handler,
\* whichever lines the firmware left unmasked and whatever is in rdi.
THEOREM LinesReleased == Spec => []EoiUnlessMisrouted
<1>1. IInv => EoiUnlessMisrouted
  BY DEF IInv, PicInv, accounted, EoiUnlessMisrouted
<1> QED
  BY <1>1, Invariance, PTL

\* Every stub gives the interrupted code its registers back, but for the result
\* of a system call.
THEOREM RegistersRestored == Spec => StubsAreTransparent
<1>1. IInv /\ [Next]_vars =>
         [leave_stub => regs' = IF vector = SYSCALL
                                   THEN [at_entry EXCEPT !["rax"] = result]
                                   ELSE at_entry]_vars
  BY LeaveRestores
<1> QED
  BY <1>1, Invariance, PTL DEF Spec, StubsAreTransparent

\* A process exits once, with the code of the first int 0x80 that asked for it,
\* and every later call but the query of the state is refused: whatever is in
\* the registers and whatever interrupts come between the calls.
THEOREM FirstExitStays == Spec => []ExitIsFinal
<1>1. IInv => ExitIsFinal
  <2> SUFFICES ASSUME IInv PROVE ExitIsFinal
    OBVIOUS
  <2> QED
    BY DEF IInv, ExitInv, ExitIsFinal
<1> QED
  BY <1>1, Invariance, PTL
=============================================================================
