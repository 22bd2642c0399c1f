------------------------- MODULE StackDumpVMProofs -------------------------
(***************************************************************************)
(* Proofs about uj-stack-vm, for every stack size, heap, code memory and  *)
(* set of well-formed images.  The argument: the unwinding cursor starts  *)
(* on the current frame link and frame_prev of a live link is its         *)
(* caller's link (FramePrevLive), so the cursor only visits live links    *)
(* and the sentinel; the only link whose pcr is zero is the sentinel's,   *)
(* so the dump starts from L->stack.  Until the dump starts, dump_stack's *)
(* variables keep their initial values, and from then on StackDump's      *)
(* inductive invariant IInv holds.                                        *)
(***************************************************************************)
EXTENDS StackDumpVM, StackDumpProofs

\* The phases before dump_stack runs, and their ends.
PrePhase == {"check", "proto", "unwind", "notvm", "attrerr"}

\* dump_stack's variables as dump_stack(L, base, top) starts them.
DumpUnstarted ==
  /\ framelink = img.base - 1
  /\ slot = img.top - 1
  /\ printed = {}
  /\ last = img.top

\* The inductive invariant of uj-stack-vm.
VMInv ==
  /\ img \in Images
  /\ img \in WellFormedImages
  /\ vmlink \in img.frames \cup {0}
  /\ pc \in PrePhase => DumpUnstarted
  /\ pc \notin PrePhase => IInv
  /\ UnwindFindsStack

-----------------------------------------------------------------------------

\* dump_stack's initial variables satisfy IInv whichever way the command
\* leaves the unwinding: into the walk or with an exception.  Stated for
\* the state after the step that leaves it.
LEMMA StartIInv ==
  ASSUME WellFormedInput, img' \in Images, DumpUnstarted',
         pc' \in {"walk", "memerr", "typeerr"}
  PROVE  IInv'
<1>1. img' \in WellFormedImages
  BY DEF WellFormedInput
<1>2. /\ img' \in ImageType
      /\ img'.base - 1 \in img'.frames \cup {0}
      /\ 0 \notin img'.frames
      /\ img'.base <= img'.top
      /\ img'.frames \subseteq Slots
      /\ \A f \in img'.frames : f < img'.base
  BY <1>1 DEF WellFormedImages, WellFormed, ImageType
<1>3. TypeOK' /\ CursorInv' /\ PartialDumpSound' /\ DumpComplete'
  BY <1>1, <1>2, MaxSlotAssumption
  DEF DumpUnstarted, CursorInv, TypeOK, PartialDumpSound, DumpComplete,
      ImageType, Slots
<1>4. framelink' = 0 => img'.frames = {}
  BY <1>2 DEF DumpUnstarted, Slots
<1>5. ProgressInv'
  BY <1>2, <1>4 DEF DumpUnstarted, ProgressInv, Addrs, FrameSpans, ImageType
<1>. QED
  BY <1>3, <1>5 DEF IInv

\* The only link with a zero pcr the unwinding can meet is the sentinel's.
LEMMA ZeroLinkIsSentinel ==
  ASSUME img \in WellFormedImages, vmlink \in img.frames \cup {0}
  PROVE  (pcr(vmlink) = 0 => vmlink = 0) /\ (pcr(vmlink) # 0 => vmlink \in img.frames)
<1>1. img.stack[0].w1 = 0
  BY DEF WellFormedImages, WellFormed
<1>2. vmlink \in img.frames => pcr(vmlink) # 0
  BY FramePrevLive
<1>. QED
  BY <1>1, <1>2 DEF pcr

LEMMA InitVMInv ==
  ASSUME WellFormedInput
  PROVE  InitVM => VMInv
<1> SUFFICES ASSUME InitVM PROVE VMInv
  OBVIOUS
<1>1. img \in WellFormedImages
  BY DEF InitVM, WellFormedInput
<1>2. img.base - 1 \in img.frames \cup {0}
  BY <1>1 DEF WellFormedImages, WellFormed
<1>. QED
  BY <1>1, <1>2 DEF InitVM, VMInv, PrePhase, DumpUnstarted, UnwindFindsStack

\* One unwinding step moves the cursor to the caller's live link.
LEMMA UnwindVMInv ==
  ASSUME WellFormedInput, VMInv, Unwind
  PROVE  VMInv'
<1>1. vmlink \in img.frames
  BY ZeroLinkIsSentinel DEF Unwind, VMInv
<1>2. vmlink' \in img.frames \cup {0}
  BY <1>1, FramePrevLive DEF Unwind, VMInv
<1>3. pc' \in {"unwind", "memerr"}
  BY DEF Unwind
<1>4. CASE pc' = "unwind"
  BY <1>2, <1>4 DEF Unwind, VMInv, PrePhase, DumpUnstarted, UnwindFindsStack
<1>5. CASE pc' = "memerr"
  <2>1. IInv'
    BY <1>5, StartIInv DEF Unwind, VMInv, PrePhase, DumpUnstarted
  <2>. QED
    BY <1>2, <1>5, <2>1 DEF Unwind, VMInv, PrePhase, UnwindFindsStack
<1>. QED
  BY <1>3, <1>4, <1>5

\* A step of dump_stack keeps the invariant; it never moves the unwinding
\* cursor.
LEMMA DumpVMInv ==
  ASSUME VMInv, Next, UNCHANGED vmlink
  PROVE  VMInv'
<1>1. pc = "walk"
  BY DEF Next, PrintValue, PrintInvalid, PrintDeadFrame, InvalidSlotFault,
         FrameStep, FrameFault, Finish, InFrame
<1>2. IInv
  BY <1>1 DEF VMInv, PrePhase
<1>3. IInv'
  BY <1>2, IInvNext
<1>4. pc' \notin PrePhase
  BY <1>3 DEF IInv, TypeOK, PrePhase
<1>5. img' = img
  BY DEF Next, PrintValue, PrintInvalid, PrintDeadFrame, InvalidSlotFault,
         FrameStep, FrameFault, Finish
<1>. QED
  BY <1>1, <1>3, <1>4, <1>5 DEF VMInv, UnwindFindsStack

LEMMA VMInvNext ==
  ASSUME WellFormedInput
  PROVE  VMInv /\ [NextVM]_varsVM => VMInv'
<1> SUFFICES ASSUME VMInv, [NextVM]_varsVM PROVE VMInv'
  OBVIOUS
<1>1. CASE CheckVM
  <2>1. pc' \in {"proto", "notvm", "attrerr"}
    BY <1>1 DEF CheckVM, FrameNames
  <2>. QED
    BY <1>1, <2>1 DEF CheckVM, VMInv, PrePhase, DumpUnstarted, UnwindFindsStack
<1>2. CASE ReadProto
  <2>1. CASE pc' = "unwind"
    BY <1>2, <2>1 DEF ReadProto, VMInv, PrePhase, DumpUnstarted, UnwindFindsStack
  <2>2. CASE pc' = "memerr"
    <3>1. IInv'
      BY <1>2, <2>2, StartIInv DEF ReadProto, VMInv, PrePhase, DumpUnstarted
    <3>. QED
      BY <1>2, <2>2, <3>1 DEF ReadProto, VMInv, PrePhase, UnwindFindsStack
  <2>. QED
    BY <1>2, <2>1, <2>2 DEF ReadProto
<1>3. CASE Unwind
  BY <1>3, UnwindVMInv
<1>4. CASE UnwindFault
  <2>1. pc' \in {"memerr", "typeerr"}
    BY <1>4, PrevFaultRange DEF UnwindFault
  <2>2. IInv'
    BY <1>4, <2>1, StartIInv DEF UnwindFault, VMInv, PrePhase, DumpUnstarted
  <2>. QED
    BY <1>4, <2>1, <2>2 DEF UnwindFault, VMInv, PrePhase, UnwindFindsStack
<1>5. CASE StartDump
  <2>1. vmlink = 0
    BY <1>5, ZeroLinkIsSentinel DEF StartDump, VMInv
  <2>2. pc' \in {"walk", "memerr"}
    BY <1>5 DEF StartDump
  <2>3. IInv'
    BY <1>5, <2>2, StartIInv DEF StartDump, VMInv, PrePhase, DumpUnstarted
  <2>. QED
    BY <1>5, <2>1, <2>2, <2>3 DEF StartDump, VMInv, PrePhase, UnwindFindsStack
<1>6. CASE Next /\ UNCHANGED vmlink
  BY <1>6, DumpVMInv
<1>7. CASE UNCHANGED varsVM
  BY <1>7 DEF varsVM, VMInv, PrePhase, DumpUnstarted, UnwindFindsStack, IInv,
              TypeOK, CursorInv, PartialDumpSound, ProgressInv, DumpComplete,
              Addrs, FrameSpans
<1>. QED
  BY <1>1, <1>2, <1>3, <1>4, <1>5, <1>6, <1>7 DEF NextVM

LEMMA AlwaysVMInv ==
  ASSUME WellFormedInput
  PROVE  SpecVM => []VMInv
BY InitVMInv, VMInvNext, PTL DEF SpecVM

-----------------------------------------------------------------------------

\* Type correctness of uj-stack-vm: on every well-formed image, both the
\* unwinding cursor and dump_stack's cursors stay inside the image.
THEOREM VMTypeCorrect ==
  ASSUME WellFormedInput
  PROVE  SpecVM => []TypeOKVM
<1>1. VMInv => TypeOKVM
  <2> SUFFICES ASSUME VMInv PROVE TypeOKVM
    OBVIOUS
  <2>1. img \in ImageType /\ img.frames \subseteq Slots
    BY DEF VMInv, WellFormedImages, WellFormed, ImageType
  <2>2. vmlink \in Slots
    BY <2>1, MaxSlotAssumption DEF VMInv, Slots
  <2>3. CASE pc \in PrePhase
    BY <2>1, <2>2, <2>3, MaxSlotAssumption
    DEF VMInv, DumpUnstarted, TypeOKVM, ImageType, Slots, PrePhase
  <2>4. CASE pc \notin PrePhase
    BY <2>1, <2>2, <2>4 DEF VMInv, IInv, TypeOK, TypeOKVM
  <2>. QED
    BY <2>3, <2>4
<1>. QED
  BY <1>1, AlwaysVMInv, PTL

\* uj-stack-vm dumps the coroutine that owns the stack: the dump starts
\* only once the unwinding has reached the sentinel link at L->stack.
THEOREM UnwindReachesStack ==
  ASSUME WellFormedInput
  PROVE  SpecVM => []UnwindFindsStack
<1>1. VMInv => UnwindFindsStack
  BY DEF VMInv
<1>. QED
  BY <1>1, AlwaysVMInv, PTL

\* A uj-stack-vm that completes has printed exactly the frame spans of
\* the coroutine's stack and the dummy frame: the dump started by the VM
\* command is the complete dump_stack walk.
THEOREM VMDumpIsComplete ==
  ASSUME WellFormedInput
  PROVE  SpecVM => []DumpComplete
<1>1. VMInv => DumpComplete
  <2> SUFFICES ASSUME VMInv PROVE DumpComplete
    OBVIOUS
  <2>1. CASE pc \in PrePhase
    BY <2>1 DEF PrePhase, DumpComplete
  <2>2. CASE pc \notin PrePhase
    BY <2>2 DEF VMInv, IInv
  <2>. QED
    BY <2>1, <2>2
<1>. QED
  BY <1>1, AlwaysVMInv, PTL


-----------------------------------------------------------------------------
(* The refinement: uj-stack-vm implements StackScan.  Before the dump the *)
(* scan stutters at the top slot or aborts; during the dump the two       *)
(* mappings of the phase agree, so dump_stack's steps refine as in        *)
(* ImplementsScan.                                                        *)

\* Where uj-stack's and uj-stack-vm's phase mappings agree, a step of the
\* scan under one is a step of the scan under the other.
LEMMA SameScanState ==
  ASSUME ScanState = ScanStateVM, ScanState' = ScanStateVM',
         [Abs!ANext]_Abs!avars
  PROVE  [AbsVM!ANext]_AbsVM!avars
BY DEF Abs!ANext, Abs!Line, Abs!Close, Abs!Abort, Abs!FrameBelow, Abs!LineKinds,
       Abs!avars, AbsVM!ANext, AbsVM!Line, AbsVM!Close, AbsVM!Abort,
       AbsVM!FrameBelow, AbsVM!LineKinds, AbsVM!avars

\* The phases of the dump, in which both mappings agree.
LEMMA DumpPhases ==
  ASSUME NEW p \in {"walk", "done", "memerr", "typeerr"}
  PROVE  (IF p = "walk" THEN "scan" ELSE IF p = "done" THEN "done" ELSE "aborted")
         = (IF p \in {"check", "proto", "unwind", "walk"} THEN "scan"
            ELSE IF p = "done" THEN "done" ELSE "aborted")
OBVIOUS

\* A step before the dump prints nothing: it stutters while the command
\* goes on, and aborts the scan when the command stops.
LEMMA PreStepRefines ==
  ASSUME pc \in {"check", "proto", "unwind"},
         pc' \in {"check", "proto", "unwind", "walk", "notvm", "attrerr",
                  "memerr", "typeerr"},
         UNCHANGED <<img, slot, printed>>
  PROVE  [AbsVM!ANext]_AbsVM!avars
<1>1. ScanStateVM = "scan"
  BY DEF ScanStateVM
<1>2. CASE pc' \in {"check", "proto", "unwind", "walk"}
  BY <1>1, <1>2 DEF ScanStateVM, AbsVM!avars
<1>3. CASE pc' \notin {"check", "proto", "unwind", "walk"}
  <2>1. ScanStateVM' = "aborted"
    BY <1>3 DEF ScanStateVM
  <2>. QED
    BY <1>1, <2>1 DEF AbsVM!Abort, AbsVM!ANext
<1>. QED
  BY <1>2, <1>3

\* uj-stack-vm implements the top-down scan on every well-formed image:
\* its checks and unwinding print nothing, every way it stops before the
\* dump is an abort, and every step of its dump_stack is a step of the
\* scan from base + framesize - 1.
THEOREM ImplementsScanVM ==
  ASSUME WellFormedInput
  PROVE  SpecVM => AbsVM!ASafeSpec
<1>1. InitVM => AbsVM!AInit
  BY DEF InitVM, AbsVM!AInit, ScanStateVM, ScanImages
<1>2. VMInv /\ [NextVM]_varsVM => [AbsVM!ANext]_AbsVM!avars
  <2> SUFFICES ASSUME VMInv, [NextVM]_varsVM PROVE [AbsVM!ANext]_AbsVM!avars
    OBVIOUS
  <2>1. CASE CheckVM
    <3>1. pc' \in {"proto", "notvm", "attrerr"}
      BY <2>1 DEF CheckVM, FrameNames
    <3>. QED
      BY <2>1, <3>1, PreStepRefines DEF CheckVM
  <2>2. CASE ReadProto
    BY <2>2, PreStepRefines DEF ReadProto
  <2>3. CASE Unwind
    BY <2>3, PreStepRefines DEF Unwind
  <2>4. CASE UnwindFault
    <3>1. pc' \in {"memerr", "typeerr"}
      BY <2>4, PrevFaultRange DEF UnwindFault
    <3>. QED
      BY <2>4, <3>1, PreStepRefines DEF UnwindFault
  <2>5. CASE StartDump
    BY <2>5, PreStepRefines DEF StartDump
  <2>6. CASE Next /\ UNCHANGED vmlink
    <3>1. pc = "walk"
      BY <2>6 DEF Next, PrintValue, PrintInvalid, PrintDeadFrame,
                  InvalidSlotFault, FrameStep, FrameFault, Finish, InFrame
    <3>2. IInv
      BY <3>1 DEF VMInv, PrePhase
    <3>3. pc' \in {"walk", "done", "memerr", "typeerr"}
      BY <2>6, <3>2, IInvNext DEF IInv, TypeOK
    <3>4. ScanState = ScanStateVM /\ ScanState' = ScanStateVM'
      BY <3>1, <3>3, DumpPhases DEF ScanState, ScanStateVM
    <3>5. [Abs!ANext]_Abs!avars
      BY <2>6, <3>2, NextRefines
    <3>. QED
      BY <3>4, <3>5, SameScanState
  <2>7. CASE UNCHANGED varsVM
    BY <2>7 DEF varsVM, AbsVM!avars, ScanStateVM
  <2>. QED
    BY <2>1, <2>2, <2>3, <2>4, <2>5, <2>6, <2>7 DEF NextVM
<1>. QED
  BY <1>1, <1>2, AlwaysVMInv, PTL DEF SpecVM, AbsVM!ASafeSpec

=============================================================================
