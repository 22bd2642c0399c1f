--------------------------- MODULE MCStackDumpVM ---------------------------
(***************************************************************************)
(* Model-checking instance of StackDumpVM: the stack layouts of           *)
(* MCStackDump in which the VM runs a Lua function (base > 1).            *)
(***************************************************************************)
EXTENDS StackDumpVM, MCStackDump

\* Layouts with a current Lua frame above the sentinel, some with a
\* current link that cannot be decoded.
MCVMImages ==
  {Overwritten(c[1], c[2]) : c \in {im \in MCImages : im.base > 1} \X LinkOverwrites}
=============================================================================
