----------------------------- MODULE Interrupts ------------------------------
(***************************************************************************)
(* The way into the kernel: the stubs of arch/x86_64/boot/interrupts.asm,  *)
(* interrupt_dispatch and interrupt_syscall_dispatch of interrupts.c, the  *)
(* two 8259 interrupt controllers as pic_remap sets them up, and the exit  *)
(* state of the user process, which system calls change.                   *)
(*                                                                         *)
(* A stub pushes ten registers and the number of its vector and calls C.   *)
(* C takes its first argument from rdi.  The system call stub loads rdi    *)
(* from its frame; no other stub does, so interrupt_dispatch is given      *)
(* whatever the interrupted code left there.  All gates are interrupt      *)
(* gates: interrupts stay off from entry to iretq.                         *)
(***************************************************************************)
EXTENDS Naturals, Sequences

CONSTANTS
    RdiValues,   \* what interrupted code may have in rdi
    RsiValues,   \* ... and in rsi
    Exceptions,  \* vectors of the exceptions code may raise
    FirmwareUnmasked, \* lines the firmware leaves unmasked
    Reading,     \* a tick count, call count or page count a call returns
    Junk,        \* left in a register by C code
    UINT64_MAX,
    NoVector,
    NoExit

ASSUME ValueAssumption == /\ RdiValues \subseteq Nat /\ RsiValues \subseteq Nat
                          /\ Exceptions \subseteq 0..31
                          /\ FirmwareUnmasked \subseteq 0..15
                          /\ {Reading, Junk, UINT64_MAX} \subseteq Nat
                          /\ NoVector \notin Nat
                          /\ NoExit \notin Nat

TIMER    == 32
KEYBOARD == 33
MOUSE    == 44
SYSCALL  == 128
Handled  == {TIMER, KEYBOARD, MOUSE}  \* gates that do not lead to the default stub

\* pic_remap clears bits of the two masks it finds, so lines the firmware left
\* unmasked stay so.  Line 2 is the slave's.
CASCADE   == 2
pic_remap == (FirmwareUnmasked \cup {0, 1, CASCADE, 12}) \ {CASCADE}

Vectors  == Exceptions \cup { 32 + line : line \in pic_remap } \cup {SYSCALL}

\* The registers of a frame, from the top of the stack: popped in this order.
Frame == <<"r11", "r10", "r9", "r8", "rbp", "rdi", "rsi", "rdx", "rcx", "rax">>
Regs  == { Frame[i] : i \in 1..Len(Frame) }
CallerSaved == Regs \ {"rbp"}

VARIABLES
    regs,      \* the registers of the processor
    stack,     \* the frame of the stub that runs, top first
    pc,        \* "code", "called" (C is entered), "returned" (from C), "halted"
    vector,    \* the vector the processor came through
    irr,       \* lines that request an interrupt
    master,    \* lines in service at the master controller; 2 is the slave
    slave,     \* ... and at the slave
    misrouted, \* history: lines last dispatched without a handler of their own
    prepared,  \* user_process_prepare has succeeded, before interrupts are enabled
    exited,
    exit_code,
    at_entry,  \* history: the registers as the interrupted code left them
    call,      \* history: number and arguments of interrupt_syscall_dispatch
    result,    \* history: what it returned
    first_exit, \* history: rsi at the first int 0x80 that asked for an exit
    late       \* history: it came before the int 0x80 that is served now

picVars  == <<irr, master, slave, misrouted>>
process  == <<prepared, exited, exit_code>>
exits    == <<first_exit, late>>
history  == <<at_entry, call, result, exits>>
vars     == <<regs, stack, pc, vector, picVars, process, history>>

TypeOK == /\ regs \in [Regs -> Nat]
          /\ stack \in Seq(Nat)
          /\ pc \in {"code", "called", "returned", "halted"}
          /\ vector \in Vectors \cup {NoVector}
          /\ irr \subseteq pic_remap /\ misrouted \subseteq pic_remap
          /\ master \subseteq 0..7 /\ slave \subseteq 8..15
          /\ prepared \in BOOLEAN /\ exited \in BOOLEAN /\ exit_code \in Nat
          /\ first_exit \in Nat \cup {NoExit} /\ late \in BOOLEAN
          /\ pc = "code" => stack = <<>> /\ vector = NoVector

\* Every register holds a value of its own.
own(r) == 100000 + (CHOOSE i \in 1..Len(Frame) : Frame[i] = r)

Init == /\ \E rdi \in RdiValues, rsi \in RsiValues :
              regs = [r \in Regs |->
                        CASE r = "rdi" -> rdi
                          [] r = "rsi" -> rsi
                          [] OTHER     -> own(r)]
        /\ stack = <<>>
        /\ pc = "code"
        /\ vector = NoVector
        /\ irr = {} /\ master = {} /\ slave = {} /\ misrouted = {}
        /\ prepared \in BOOLEAN
        /\ exited = FALSE /\ exit_code = 0
        /\ first_exit = NoExit /\ late = FALSE
        /\ at_entry = regs
        /\ call = <<>>
        /\ result = 0

-----------------------------------------------------------------------------
\* The interrupted code computes; the result of a call, in rax, is used up.
CodeStep == /\ pc = "code"
            /\ \E rdi \in RdiValues, rsi \in RsiValues :
                  regs' = [regs EXCEPT !["rdi"] = rdi, !["rsi"] = rsi, !["rax"] = own("rax")]
            /\ at_entry' = regs'
            /\ UNCHANGED <<stack, pc, vector, picVars, process, call, result, exits>>

\* A device asks for an interrupt.
Request(line) == /\ irr' = irr \cup {line}
                 /\ UNCHANGED <<regs, stack, pc, vector, master, slave, misrouted, process, history>>

saved == [i \in 1..Len(Frame) |-> regs[Frame[i]]]

\* A register's place in the frame below the vector, as in [rsp + 8 * n].
slot_off(frame, n) == frame[n] \* mutant: the vector on top is forgotten
slot(frame, n) == frame[n + 1]

\* The stubs: push the registers, push the vector (the exception stubs push it
\* first, the default stub pushes 255), call interrupt_dispatch.
pushed(v) == IF v < 32 \/ v \in Handled \cup {SYSCALL} THEN v ELSE 255

enter_stub(v) == /\ pc = "code"
                 /\ pc' = "called"
                 /\ vector' = v
                 /\ stack' = IF v < 32 THEN saved \o <<v>> ELSE <<pushed(v)>> \o saved
                 /\ UNCHANGED <<process, at_entry, call, result>>

\* The controllers deliver the line of highest priority that no line in
\* service holds back; the slave's lines come in the place of line 2.
at_master(line) == IF line < 8 THEN line ELSE CASCADE
priority(line)  == 16 * at_master(line) + line
held_back(line) == \/ \E busy \in master : busy <= at_master(line)
                   \/ line >= 8 /\ \E busy \in slave : busy <= line

Deliver(line) ==
    /\ line \in irr
    /\ ~held_back(line)
    /\ \A other \in irr : held_back(other) \/ priority(line) <= priority(other)
    /\ irr' = irr \ {line}
    /\ master' = master \cup {at_master(line)}
    /\ slave' = IF line < 8 THEN slave ELSE slave \cup {line}
    /\ enter_stub(32 + line)
    /\ UNCHANGED <<regs, misrouted, exits>>

Exception(v) == /\ enter_stub(v)
                /\ UNCHANGED <<regs, picVars, exits>>

\* The system calls and the states of the user process.
GET_TICKS == 0
GET_COUNT == 1
YIELD     == 2
EXIT      == 3
GET_MEMORY_FREE   == 4
GET_PROCESS_STATE == 5

UNPREPARED == 0
READY      == 1
EXITED     == 2

\* int 0x80: the stub passes the caller's rdi, rsi, rdx, r10, r8 and r9.
interrupt_syscall_stub ==
    /\ enter_stub(SYSCALL)
    /\ regs' = [regs EXCEPT !["rdi"] = slot(stack', 6),
                            !["rsi"] = slot(stack', 7),
                            !["rdx"] = slot(stack', 8),
                            !["rcx"] = slot(stack', 2),
                            !["r8"]  = slot(stack', 4),
                            !["r9"]  = slot(stack', 3)]
    /\ late' = (first_exit # NoExit)
    /\ first_exit' = IF at_entry["rdi"] = EXIT /\ ~late' THEN at_entry["rsi"] ELSE first_exit
    /\ UNCHANGED picVars

-----------------------------------------------------------------------------
(***************************************************************************)
(* The C functions                                                         *)
(***************************************************************************)

\* What any C function may leave in the registers it need not save.
clobbered == [r \in Regs |-> IF r \in CallerSaved THEN Junk ELSE regs[r]]

\* An end-of-interrupt command clears the line in service of highest priority.
eoi(lines) == { l \in lines : \E higher \in lines : higher < l }

\* The master is told of every interrupt handled, the slave of its own.
told_master_own(argument) == argument \in {TIMER, KEYBOARD} \* mutant: not of the mouse's
told_master(argument) == argument \in Handled

\* interrupt_dispatch, called with its argument in rdi.
interrupt_dispatch ==
    /\ pc = "called"
    /\ vector # SYSCALL
    /\ LET argument == regs["rdi"]
       IN  /\ pc' = IF argument < 32 THEN "halted" ELSE "returned"
           /\ master' = IF told_master(argument) THEN eoi(master) ELSE master
           /\ slave' = IF argument = MOUSE THEN eoi(slave) ELSE slave
           /\ misrouted' = IF vector < 32 THEN misrouted
                           ELSE IF vector \in Handled /\ argument = vector
                                   THEN misrouted \ {vector - 32}
                                   ELSE misrouted \cup {vector - 32}
    /\ regs' = clobbered
    /\ UNCHANGED <<stack, vector, irr, process, history>>

user_process_state ==
    IF exited THEN EXITED ELSE IF prepared THEN READY ELSE UNPREPARED

user_process_exit(code) ==
    IF exited THEN UNCHANGED process
    ELSE exited' = TRUE /\ exit_code' = code /\ UNCHANGED prepared

\* interrupt_syscall_dispatch has a guard of its own.
refuses_never(number) == FALSE \* mutant: any call is served after the exit
refuses(number) == exited /\ number # GET_PROCESS_STATE

syscall_result(number) ==
    CASE refuses(number)                                 -> UINT64_MAX
      [] ~refuses(number) /\ number \in {YIELD, EXIT}    -> 0
      [] ~refuses(number) /\ number = GET_PROCESS_STATE  -> user_process_state
      [] ~refuses(number) /\ number > GET_PROCESS_STATE  -> UINT64_MAX
      [] ~refuses(number) /\ number \in {GET_TICKS, GET_COUNT, GET_MEMORY_FREE} -> Reading

interrupt_syscall_dispatch ==
    /\ pc = "called"
    /\ vector = SYSCALL
    /\ pc' = "returned"
    /\ LET number == regs["rdi"]
       IN  /\ call' = <<number, regs["rsi"], regs["rdx"], regs["rcx"], regs["r8"], regs["r9"]>>
           /\ result' = syscall_result(number)
           /\ IF number = EXIT /\ ~refuses(number)
                 THEN user_process_exit(regs["rsi"])
                 ELSE UNCHANGED process
    /\ regs' = [clobbered EXCEPT !["rax"] = result']
    /\ UNCHANGED <<stack, vector, picVars, at_entry, exits>>

-----------------------------------------------------------------------------
\* The rest of the stub: the system call stub stores rax in the frame; the
\* vector is dropped, the registers are popped, iretq.
result_slot_low == 9 \* mutant: rsp + 72, the place of rcx
result_slot == 10

frame_in(s) ==
    LET stored == IF vector = SYSCALL
                     THEN [s EXCEPT ![result_slot + 1] = regs["rax"]] ELSE s
    IN  IF vector < 32 THEN stored ELSE Tail(stored)

leave_stub_unbalanced == \* mutant: the vector stays on the stack
    /\ pc = "returned"
    /\ regs' = [r \in Regs |->
                  frame_in(stack)[CHOOSE i \in 1..Len(Frame) : Frame[i] = r]]
    /\ stack' = <<vector>>
    /\ pc' = "code"
    /\ vector' = NoVector
    /\ at_entry' = regs'
    /\ call' = <<>>
    /\ result' = 0
    /\ late' = FALSE
    /\ UNCHANGED <<picVars, process, first_exit>>

leave_stub ==
    /\ pc = "returned"
    /\ regs' = [r \in Regs |->
                  frame_in(stack)[CHOOSE i \in 1..Len(Frame) : Frame[i] = r]]
    /\ stack' = <<>>
    /\ pc' = "code"
    /\ vector' = NoVector
    /\ at_entry' = regs' \* the code goes on with these
    /\ call' = <<>>
    /\ result' = 0
    /\ late' = FALSE
    /\ UNCHANGED <<picVars, process, first_exit>>

\* for (;;) hlt, with interrupts off.
StayHalted == pc = "halted" /\ UNCHANGED vars

Next == \/ CodeStep
        \/ \E line \in pic_remap : Request(line) \/ Deliver(line)
        \/ \E v \in Exceptions : Exception(v)
        \/ interrupt_syscall_stub
        \/ interrupt_dispatch \/ interrupt_syscall_dispatch
        \/ leave_stub
        \/ StayHalted

Spec == Init /\ [][Next]_vars

-----------------------------------------------------------------------------
(***************************************************************************)
(* Properties                                                              *)
(***************************************************************************)

\* A stub is transparent: the interrupted code finds every register as it left
\* it, except that a system call returns its result in rax.
StubsAreTransparent ==
    [][leave_stub => regs' = IF vector = SYSCALL
                                THEN [at_entry EXCEPT !["rax"] = result]
                                ELSE at_entry]_vars

\* The offsets of the system call stub name the registers they mean: C gets
\* the caller's rdi, rsi, rdx, r10, r8 and r9.
ArgumentsArrive ==
    (pc = "returned" /\ vector = SYSCALL) =>
        call = [i \in 1..6 |-> at_entry[<<"rdi", "rsi", "rdx", "r10", "r8", "r9">>[i]]]

\* A process exits once, with the code that was in rsi at the first int 0x80 that
\* asked for it.  Whatever interrupts come between its calls, every later call is
\* refused, a second exit too, but for the query of the state, which answers that
\* the process has exited.
answer_when_late == IF at_entry["rdi"] = GET_PROCESS_STATE THEN EXITED ELSE UINT64_MAX

ExitIsFinal ==
    /\ pc # "called" => /\ exited <=> first_exit # NoExit
                        /\ exited => exit_code = first_exit
    /\ pc = "returned" /\ vector = SYSCALL /\ late => result = answer_when_late

\* No line stays in service, holding back those behind it, unless its last
\* interrupt went to the default stub or reached interrupt_dispatch with
\* another number than its vector: the end-of-interrupt commands always clear
\* the line they are meant for, at both controllers.
EoiUnlessMisrouted ==
    pc = "code" => /\ (master \ {CASCADE}) \cup slave \subseteq misrouted
                   /\ CASCADE \in master => \E line \in misrouted : line >= 8

\* "fatal CPU exception vector": the kernel stops like this on an exception of
\* the processor, not on an interrupt of a device.
HaltsOnlyOnException == pc = "halted" => vector < 32
==============================================================================
