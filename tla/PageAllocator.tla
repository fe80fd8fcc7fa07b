---------------------------- MODULE PageAllocator ----------------------------
(***************************************************************************)
(* What the rest of the kernel expects of the page allocator: memory is    *)
(* donated while the kernel boots, each request takes one page that nobody *)
(* else has, and a request is refused only when no page is left.           *)
(***************************************************************************)
EXTENDS Naturals

CONSTANTS Frames, \* page frames of the machine
          Refused \* the null pointer

VARIABLES free,   \* frames nobody has been given
          given,  \* frames that have been given away
          page    \* the answer to the last request

vars == <<free, given, page>>

Init == /\ free = {}
        /\ given = {}
        /\ page = Refused

Donate(fresh) == /\ fresh \cap (free \cup given) = {}
                 /\ free' = free \cup fresh
                 /\ UNCHANGED <<given, page>>

Give(f) == /\ f \in free
           /\ free' = free \ {f}
           /\ given' = given \cup {f}
           /\ page' = f

Refuse == /\ free = {}
          /\ page' = Refused
          /\ UNCHANGED <<free, given>>

Next == \/ \E fresh \in SUBSET Frames : Donate(fresh)
        \/ \E f \in Frames : Give(f)
        \/ Refuse

Spec == Init /\ [][Next]_vars
==============================================================================
