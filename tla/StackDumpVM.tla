---------------------------- MODULE StackDumpVM ----------------------------
(***************************************************************************)
(* The uj-stack-vm command of tools/ujit-gdb.py (UJDumpStackVM.invoke),    *)
(* run when gdb stopped inside a bytecode handler: it takes BASE from      *)
(* %r10, reads the current Lua function's prototype for its frame size     *)
(* (top = base + framesize), unwinds the frame chain with frame_prev down  *)
(* to the frame whose link is zero, takes that frame's object as the       *)
(* coroutine L, and runs dump_stack(L, base, top).  The dump itself is     *)
(* StackDump's; the image's base and top are the VM's BASE and            *)
(* base + framesize.                                                       *)
(***************************************************************************)
EXTENDS StackDump

VARIABLE
  vmlink   \* invoke's own framelink cursor

varsVM == <<img, framelink, slot, printed, last, pc, vmlink>>

\* What gdb.newest_frame().name() returns: a bytecode handler's name, some
\* other function's name, or None (code without a symbol, such as a trace).
FrameNames == {"lj_BC_handler", "other", "none"}

InitVM ==
  /\ img \in Images
  /\ framelink = img.base - 1
  /\ slot = img.top - 1
  /\ printed = {}
  /\ last = img.top
  /\ pc = "check"
  /\ vmlink = img.base - 1

\* is_in_vm(): name().startswith('lj_BC_'); outside the VM the command
\* prints a hint and returns; a frame without a name raises AttributeError.
CheckVM ==
  /\ pc = "check"
  /\ \E n \in FrameNames :
       pc' = CASE n = "lj_BC_handler" -> "proto"
               [] n = "other" -> "notvm"
               [] n = "none" -> "attrerr"
  /\ UNCHANGED <<img, framelink, slot, printed, last, vmlink>>

\* func = frame_func(base - 1); pt = funcproto(func): reads the function.
ReadProto ==
  /\ pc = "proto"
  /\ pc' = IF Readable(img.stack[vmlink].gcr) THEN "unwind" ELSE "memerr"
  /\ UNCHANGED <<img, framelink, slot, printed, last, vmlink>>

\* while pcr(framelink) != 0: framelink = frame_prev(framelink).
Unwind ==
  /\ pc = "unwind" /\ pcr(vmlink) # 0
  /\ PrevFault(vmlink) = "none"
  /\ vmlink' = frame_prev(vmlink)
  /\ pc' = IF frame_prev(vmlink) \in Slots THEN "unwind" ELSE "memerr"
  /\ UNCHANGED <<img, framelink, slot, printed, last>>

\* frame_prev cannot decode pcr[-1] of the current link.
UnwindFault ==
  /\ pc = "unwind" /\ pcr(vmlink) # 0
  /\ PrevFault(vmlink) # "none"
  /\ pc' = PrevFault(vmlink)
  /\ UNCHANGED <<img, framelink, slot, printed, last, vmlink>>

\* Mutant: the dump starts without waiting for a zero link.
StartDump_anylink ==
  /\ pc = "unwind"
  /\ pc' = IF Readable(img.stack[vmlink].gcr) THEN "walk" ELSE "memerr"
  /\ UNCHANGED <<img, framelink, slot, printed, last, vmlink>>

\* L = frame_func(framelink); dump_stack(L, base, top) starts by reading
\* L's global state (vm_state), so L's memory must be readable.
StartDump ==
  /\ pc = "unwind" /\ pcr(vmlink) = 0
  /\ pc' = IF Readable(img.stack[vmlink].gcr) THEN "walk" ELSE "memerr"
  /\ UNCHANGED <<img, framelink, slot, printed, last, vmlink>>

NextVM ==
  \/ CheckVM
  \/ ReadProto
  \/ Unwind
  \/ UnwindFault
  \/ StartDump
  \/ Next /\ UNCHANGED vmlink

\* The command runs to completion on its own.
SpecVM == InitVM /\ [][NextVM]_varsVM /\ WF_varsVM(NextVM)

-----------------------------------------------------------------------------
(* Properties.                                                             *)

TypeOKVM ==
  /\ img \in ImageType
  /\ framelink \in Slots
  /\ slot \in Slots
  /\ printed \subseteq [addr : Slots, kind : Kinds]
  /\ last \in 0..(MaxSlot + 1)
  /\ pc \in {"check", "proto", "unwind", "notvm", "attrerr",
             "walk", "done", "memerr", "typeerr"}
  /\ vmlink \in Slots

(* The coroutine uj-stack-vm dumps is the one that owns the stack: the     *)
(* unwinding stops at the sentinel frame L->stack, so the dump's final     *)
(* line (print_framelink(L, L['stack'])) is the frame the unwinding found. *)
UnwindFindsStack == pc = "walk" => vmlink = 0

(* The command answers every call made outside the VM with its hint      *)
(* "uj-stack-vm should only be called from VM" and returns (invoke and   *)
(* is_in_vm): it never stops with an exception before the stack is read. *)
OutsideVMIsReported == pc # "attrerr"


-----------------------------------------------------------------------------
(* The refinement: the checks and the unwinding print nothing and leave    *)
(* the scan at the top slot; every way the command stops before the dump   *)
(* (the hint, an exception) is an abort; the dump is dump_stack's.         *)

\* The command's outcome as StackScan sees it.
ScanStateVM ==
  IF pc \in {"check", "proto", "unwind", "walk"} THEN "scan"
  ELSE IF pc = "done" THEN "done" ELSE "aborted"

AbsVM == INSTANCE StackScan
           WITH aimg <- img, cursor <- slot, out <- printed, state <- ScanStateVM,
                Images <- ScanImages

(* uj-stack-vm prints the stack from base + framesize - 1 down in the same *)
(* top-down scan as uj-stack: one line per slot, FRAME exactly at a live   *)
(* link, then the dummy frame; it may stop early at any point; and it      *)
(* ends.                                                                   *)
VMScanRefinement == AbsVM!ASpec

=============================================================================
