------------------------------- MODULE KeyFifo -------------------------------
(***************************************************************************)
(* What the keyboard driver promises the rest of the kernel: a bounded     *)
(* first-in first-out channel of characters.  A key press that does not    *)
(* find room is a stuttering step; everything that is accepted is handed   *)
(* to the reader once, in order, and eventually.                           *)
(***************************************************************************)
EXTENDS Naturals, Sequences

CONSTANTS Capacity, \* characters the channel holds
          Chars,    \* characters a key can produce
          NUL       \* not a character

VARIABLES pending,  \* accepted, not yet handed over
          key       \* the character handed over last

vars == <<pending, key>>

Init == /\ pending = <<>>
        /\ key = NUL

Accept(c) == /\ Len(pending) < Capacity
             /\ pending' = Append(pending, c)
             /\ UNCHANGED key

Deliver == /\ pending # <<>>
           /\ key' = Head(pending)
           /\ pending' = Tail(pending)

Next == Deliver \/ \E c \in Chars : Accept(c)

Spec == Init /\ [][Next]_vars /\ WF_vars(Deliver)

Safety == Init /\ [][Next]_vars
==============================================================================
