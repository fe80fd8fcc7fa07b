------------------------------ MODULE MCMemory -------------------------------
(* Pages of two bytes, a fourteen-byte address space of which ten are         *)
(* identity mapped, and a table of two regions for maps of three entries.     *)
EXTENDS Memory
==============================================================================
