------------------------------ MODULE MCPaging -------------------------------
(* A window of three pages; up to sixteen pages to allocate, two more than    *)
(* are used when the kernel, the process and the window have all they want.   *)
EXTENDS Paging
==============================================================================
