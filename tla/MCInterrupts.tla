---------------------------- MODULE MCInterrupts -----------------------------
(* rdi holds a vector interrupt_dispatch knows, a number neither knows, or    *)
(* the number of a call: one that only reads, the exit and the state query    *)
(* (YIELD and the other readings differ in the value they return).  rsi holds *)
(* one of two values; the one exception is a page fault.                      *)
EXTENDS Interrupts

MCRdi == {0, 3, 5, TIMER, KEYBOARD, MOUSE, 100}
==============================================================================
