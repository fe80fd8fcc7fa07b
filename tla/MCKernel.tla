------------------------------ MODULE MCKernel -------------------------------
(* The task table of kernel_main, a key queue of one, lines of up to one      *)
(* character, four windows, an automatic focus change every second tick and a *)
(* monitoring message every tick.                                             *)
EXTENDS Kernel

MCApps == <<"ASSISTANT", "FILES", "NETWORK", "SYSTEM">>
==============================================================================
