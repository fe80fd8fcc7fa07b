----------------------------- MODULE MCKeyboard ------------------------------
(* Keyboard with a ring of four slots, both shift keys, one letter ('a', make *)
(* code 30) and one key without a character (left control, make code 29).    *)
EXTENDS Keyboard

MCKeys == {29, 30} \cup ShiftKeys
MCNormal  == [k \in Codes |-> IF k = 30 THEN "a" ELSE NUL]
MCShifted == [k \in Codes |-> IF k = 30 THEN "A" ELSE NUL]
==============================================================================
