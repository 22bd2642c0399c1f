-------------------------- MODULE StackDumpProofs --------------------------
(***************************************************************************)
(* Proofs about StackDump, for every stack size, heap, code memory and    *)
(* set of images, provided every image given to uj-stack is laid out the  *)
(* way the VM lays out frames (WellFormed).  The argument: frame_prev of  *)
(* a live link decodes to exactly the caller's link (both encodings), so  *)
(* the frame cursor only visits live links and the sentinel, and the slot *)
(* cursor sweeps, one slot at a time, exactly the span between the        *)
(* current link and the one above it.                                      *)
(***************************************************************************)
EXTENDS StackDump, TLAPS

-----------------------------------------------------------------------------
(* Decoding a link the VM wrote.                                          *)

\* A C, CONT or VARG link d slots above its caller is not read as a Lua
\* frame, and frame_sized recovers d from it.
LEMMA NonLuaLinkDecode ==
  ASSUME NEW d \in Nat, NEW t \in NonLuaTypes
  PROVE  /\ ~frame_islua(16 * d + t)
         /\ frame_sized(16 * d + t) = d
BY DEF NonLuaTypes, frame_islua, frame_type, frame_sized

\* The return pc after a call instruction (at a 4-aligned address) is read
\* as a Lua frame.
LEMMA LuaLinkIsLua ==
  ASSUME NEW a \in Nat, a % 4 = 0
  PROVE  frame_islua(a + 4)
BY DEF frame_islua, frame_type

\* Every call opcode is an x2 opcode: its A operand is a base register.
LEMMA CallOpsX2 ==
  ASSUME NEW op \in CallOps
  PROVE  isx2_a(op) = 1
BY DEF CallOps, isx2_a, isx2_bcm, bcmode_a, lj_bc_mode, BC_CALLM, BC_CALL,
       BC_CALLMT, BC_CALLT, BC_FUNCF, BC_IFUNCF, BC_JFUNCF, BC_FUNCV,
       BC_IFUNCV, BC_JFUNCV, BC_FUNCC, BC_FUNCCW, BCMdst, BCMbase, BCMvar,
       BCMrbase, BCMnum

\* frame_deltal of a call instruction that puts the callee d slots up is d:
\* the doubled operand 2 * (d - 1) is never NO_REG and is halved back.
LEMMA CallSiteDelta ==
  ASSUME NEW ins \in Nat, NEW d \in 1..128, IsCallSite(ins, d)
  PROVE  frame_deltal(ins) = d
<1>1. bc_op(ins) \in CallOps
  BY DEF IsCallSite, bc_op
<1>2. isx2_a(bc_op(ins)) = 1
  BY <1>1, CallOpsX2
<1>3. bc_a_raw(ins) = 2 * (d - 1) /\ 2 * (d - 1) # NO_REG
  BY DEF IsCallSite, bc_a_raw, NO_REG
<1>4. QED
  BY <1>2, <1>3 DEF frame_deltal, bc_a, x2_decode_r


\* On a well-formed image, frame_prev of a live link is the caller's link
\* (a live link or the sentinel), strictly below it with no live link in
\* between, and reading pcr[-1] for it cannot fail.
LEMMA FramePrevLive ==
  ASSUME img \in WellFormedImages, NEW f \in img.frames
  PROVE  /\ PrevFault(f) = "none"
         /\ pcr(f) # 0
         /\ frame_prev(f) \in img.frames \cup {0}
         /\ frame_prev(f) < f
         /\ \A g \in img.frames : ~(frame_prev(f) < g /\ g < f)
<1>1. img \in ImageType /\ f \in Slots /\ img.stack[f].w1 \in Int
  BY DEF WellFormedImages, WellFormed, ImageType, SlotVal
<1>2. PICK d \in 1..128 :
        /\ f - d \in img.frames \cup {0}
        /\ \A g \in img.frames : ~(f - d < g /\ g < f)
        /\ IsLinkWord(img.stack[f].w1, d)
  BY DEF WellFormedImages, WellFormed
<1>3. PrevFault(f) = "none" /\ frame_prev(f) = f - d /\ pcr(f) # 0
  <2>1. CASE \E t \in NonLuaTypes : img.stack[f].w1 = 16 * d + t
    <3>1. PICK t \in NonLuaTypes : img.stack[f].w1 = 16 * d + t
      BY <2>1
    <3>0. d \in Nat
      OBVIOUS
    <3>2. ~frame_islua(16 * d + t) /\ frame_sized(16 * d + t) = d
      BY <3>0, NonLuaLinkDecode
    <3>. QED
      BY <3>1, <3>2 DEF PrevFault, frame_prev, frame_prevd, pcr, NonLuaTypes
  <2>2. CASE /\ img.stack[f].w1 - 4 \in DOMAIN Code
             /\ IsCallSite(Code[img.stack[f].w1 - 4], d)
    <3>. DEFINE a == img.stack[f].w1 - 4
    <3>1. a \in Nat /\ a % 4 = 0 /\ Code[a] \in Nat
      BY <2>2, CodeAssumption
    <3>2. frame_islua(a + 4)
      BY <3>1, LuaLinkIsLua
    <3>5. pcr(f) = a + 4 /\ pcr(f) - 4 = a
      BY <1>1 DEF pcr
    <3>3. frame_deltal(Code[a]) = d
      BY <3>1, <2>2, CallSiteDelta
    <3>4. bc_op(Code[a]) \in SupportedOps
      BY <2>2 DEF IsCallSite, bc_op, SupportedOps, CallOps
    <3>. QED
      BY <2>2, <3>1, <3>2, <3>3, <3>4, <3>5 DEF PrevFault, frame_prev, frame_prevl
  <2>. QED
    BY <1>2, <2>1, <2>2 DEF IsLinkWord
<1>. QED
  BY <1>1, <1>2, <1>3 DEF Slots

\* The cursors: the image is well formed, the frame cursor is on a live
\* link or the sentinel, the slot cursor is at or above it and below top,
\* no live link lies between the two, and while the walk runs both are
\* below the last line printed.
CursorInv ==
  /\ img \in WellFormedImages
  /\ framelink \in img.frames \cup {0}
  /\ framelink <= slot
  /\ slot < img.top
  /\ \A g \in img.frames : ~(framelink < g /\ g <= slot)
  /\ pc = "walk" => framelink < last /\ slot < last

\* The addresses printed so far.
Addrs == {r.addr : r \in printed}

\* While the walk runs, exactly the slots above the slot cursor have been
\* printed; once the frame cursor is at the sentinel those are the frame
\* spans.
ProgressInv ==
  /\ pc = "walk" => Addrs = (slot + 1)..(img.top - 1)
  /\ pc = "walk" /\ framelink = 0 => (slot + 1)..(img.top - 1) = FrameSpans

\* The inductive invariant.
IInv ==
  /\ TypeOK
  /\ CursorInv
  /\ PartialDumpSound
  /\ ProgressInv
  /\ DumpComplete

-----------------------------------------------------------------------------
(* Helper facts.                                                          *)

\* The walk's ending codes: PrevFault is "none" or an exception.
LEMMA PrevFaultRange ==
  ASSUME NEW a
  PROVE  PrevFault(a) \in {"none", "memerr", "typeerr"}
BY DEF PrevFault

\* Printing a line adds its address to the printed addresses.
LEMMA AddrsEmit ==
  ASSUME NEW P, NEW a, NEW k
  PROVE  {r.addr : r \in P \cup {[addr |-> a, kind |-> k]}}
           = {r.addr : r \in P} \cup {a}
<1>. DEFINE R == [addr |-> a, kind |-> k]
<1>1. R.addr = a
  OBVIOUS
<1>2. \A x : x \in {r.addr : r \in P \cup {R}} <=> x \in {r.addr : r \in P} \cup {a}
  BY <1>1, Zenon
<1>. QED
  BY <1>2, Zenon

\* Printing slot s extends the swept interval above it down to s.
LEMMA SweepDown ==
  ASSUME NEW s \in Int, NEW t \in Int, s <= t
  PROVE  ((s + 1)..t) \cup {s} = ((s - 1) + 1)..t
OBVIOUS

\* The facts about the current state every step uses.
LEMMA IInvFacts ==
  ASSUME IInv
  PROVE  /\ img \in ImageType
         /\ img.stack[0].w1 = 0
         /\ 0 \notin img.frames
         /\ img.frames \subseteq Slots
         /\ framelink \in Slots /\ slot \in Slots
         /\ img.top \in 1..(MaxSlot + 1)
BY MaxSlotAssumption
DEF IInv, CursorInv, TypeOK, WellFormedImages, WellFormed, ImageType

\* Every image given to the command is well formed.
WellFormedInput == Images \subseteq WellFormedImages

-----------------------------------------------------------------------------
(* The invariant holds initially and is kept by every step.               *)

\* The command starts in the invariant: nothing is printed, both cursors
\* are at the current frame's top, and a walk that starts at the sentinel
\* has no frame spans.
LEMMA InitIInv ==
  ASSUME WellFormedInput
  PROVE  Init => IInv
<1> SUFFICES ASSUME Init PROVE IInv
  OBVIOUS
<1>1. img \in WellFormedImages
  BY DEF Init, WellFormedInput
<1>2. img \in ImageType /\ img.base - 1 \in img.frames \cup {0}
      /\ 0 \notin img.frames /\ img.base <= img.top /\ img.frames \subseteq Slots
      /\ \A f \in img.frames : f < img.base
  BY <1>1 DEF WellFormedImages, WellFormed, ImageType
<1>3. TypeOK /\ CursorInv /\ PartialDumpSound /\ DumpComplete
  BY <1>1, <1>2, MaxSlotAssumption
  DEF Init, CursorInv, TypeOK, PartialDumpSound, DumpComplete, ImageType, Slots
<1>4. framelink = 0 => img.frames = {}
  BY <1>2 DEF Init, Slots
<1>5. ProgressInv
  BY <1>2, <1>4 DEF Init, ProgressInv, Addrs, FrameSpans, ImageType
<1>. QED
  BY <1>3, <1>5 DEF IInv

\* One iteration of the inner loop that prints the slot and moves down.
LEMMA ScanStep ==
  ASSUME IInv, InFrame, slot > framelink,
         NEW k \in Kinds \ {"FRAME"},
         printed' = printed \cup {[addr |-> slot, kind |-> k]},
         last' = slot, slot' = slot - 1, pc' \in {"walk", "memerr"},
         UNCHANGED <<img, framelink>>
  PROVE  IInv'
<1>0. /\ img \in ImageType
      /\ img.stack[0].w1 = 0
      /\ 0 \notin img.frames
      /\ img.frames \subseteq Slots
      /\ framelink \in Slots /\ slot \in Slots
      /\ img.top \in 1..(MaxSlot + 1)
  BY IInvFacts
<1>. USE MaxSlotAssumption DEF Slots
<1>1. TypeOK'
  BY <1>0 DEF IInv, TypeOK, Kinds
<1>2. CursorInv'
  BY <1>0 DEF IInv, CursorInv
<1>3. slot \notin img.frames
  BY <1>0 DEF IInv, CursorInv
<1>4. PartialDumpSound'
  BY <1>0, <1>3 DEF IInv, CursorInv, PartialDumpSound
<1>5. framelink # 0
  BY <1>0 DEF InFrame, pcr
<1>6. Addrs' = Addrs \cup {slot}
  BY AddrsEmit DEF Addrs
<1>7. ((slot + 1)..(img.top - 1)) \cup {slot} = ((slot - 1) + 1)..(img.top - 1)
  BY <1>0, SweepDown DEF IInv, CursorInv
<1>8. ProgressInv'
  BY <1>5, <1>6, <1>7 DEF IInv, ProgressInv, InFrame
<1>9. DumpComplete'
  BY DEF DumpComplete
<1>. QED
  BY <1>1, <1>2, <1>4, <1>8, <1>9 DEF IInv


\* When the walk leaves the lowest live frame for the sentinel, the slots
\* from that frame up to top are exactly the frame spans.
LEMMA LowestSpan ==
  ASSUME img \in ImageType, 0 \notin img.frames,
         NEW f \in img.frames, f < img.top,
         \A g \in img.frames : ~(0 < g /\ g < f)
  PROVE  f..(img.top - 1) = FrameSpans
<1>1. img.frames \subseteq Nat
  BY DEF ImageType, Slots
<1>2. \A g \in img.frames : f <= g
  BY <1>1
<1>. QED
  BY <1>1, <1>2 DEF FrameSpans

\* A step that only ends the command keeps the invariant.
LEMMA FaultStep ==
  ASSUME IInv, pc' \in {"memerr", "typeerr"},
         UNCHANGED <<img, framelink, slot, printed, last>>
  PROVE  IInv'
BY DEF IInv, TypeOK, CursorInv, PartialDumpSound, ProgressInv, DumpComplete,
       Addrs, FrameSpans

\* The outer loop's step leaves a live frame for its caller's link.
LEMMA FrameStepIInv ==
  ASSUME IInv, FrameStep
  PROVE  IInv'
<1>0. /\ img \in ImageType
      /\ img.stack[0].w1 = 0
      /\ 0 \notin img.frames
      /\ img.frames \subseteq Slots
      /\ framelink \in Slots /\ slot \in Slots
      /\ img.top \in 1..(MaxSlot + 1)
  BY IInvFacts
<1>. USE MaxSlotAssumption DEF Slots
<1>1. framelink \in img.frames /\ slot = framelink
  BY <1>0 DEF FrameStep, InFrame, pcr, IInv, CursorInv
<1>. DEFINE P == frame_prev(framelink)
<1>2. /\ P \in img.frames \cup {0}
      /\ P < framelink
      /\ \A g \in img.frames : ~(P < g /\ g < framelink)
  BY <1>1, FramePrevLive DEF IInv, CursorInv
<1>3. /\ framelink' = P /\ slot' = framelink - 1 /\ last' = framelink
      /\ printed' = printed \cup {[addr |-> framelink, kind |-> "FRAME"]}
      /\ pc' \in {"walk", "memerr"} /\ img' = img
  BY <1>1 DEF FrameStep, Emit
<1>4. TypeOK'
  BY <1>0, <1>1, <1>2, <1>3 DEF IInv, TypeOK, Kinds
<1>5. CursorInv'
  BY <1>0, <1>1, <1>2, <1>3 DEF IInv, CursorInv
<1>6. PartialDumpSound'
  BY <1>1, <1>3 DEF IInv, CursorInv, PartialDumpSound
<1>7. Addrs' = Addrs \cup {framelink}
  BY <1>3, AddrsEmit DEF Addrs
<1>8. ((slot + 1)..(img.top - 1)) \cup {slot} = ((slot - 1) + 1)..(img.top - 1)
  BY <1>0, SweepDown DEF IInv, CursorInv
<1>9. P = 0 => framelink..(img.top - 1) = FrameSpans
  BY <1>0, <1>1, <1>2, LowestSpan DEF IInv, CursorInv
<1>10. pc = "walk" /\ FrameSpans' = FrameSpans
  BY <1>3 DEF FrameStep, InFrame, FrameSpans
<1>11. Addrs = (slot + 1)..(img.top - 1)
  BY <1>10 DEF IInv, ProgressInv
<1>12. ((slot + 1)..(img.top - 1))' = framelink..(img.top - 1)
  BY <1>0, <1>3
<1>13. Addrs' = framelink..(img.top - 1)
  BY <1>1, <1>7, <1>8, <1>11
<1>14. framelink' = 0 => framelink..(img.top - 1) = FrameSpans'
  BY <1>3, <1>9, <1>10
<1>16. ProgressInv'
  BY <1>12, <1>13, <1>14 DEF ProgressInv
<1>15. DumpComplete'
  BY <1>3 DEF DumpComplete
<1>. QED
  BY <1>4, <1>5, <1>6, <1>16, <1>15 DEF IInv

\* The loop has reached the sentinel: the dummy frame is printed and the
\* dump is complete.
LEMMA FinishIInv ==
  ASSUME IInv, Finish
  PROVE  IInv'
<1>0. /\ img \in ImageType
      /\ img.stack[0].w1 = 0
      /\ 0 \notin img.frames
      /\ img.frames \subseteq Slots
      /\ framelink \in Slots /\ slot \in Slots
      /\ img.top \in 1..(MaxSlot + 1)
  BY IInvFacts
<1>. USE MaxSlotAssumption DEF Slots
<1>1. framelink = 0
  <2>1. framelink \notin img.frames
    BY FramePrevLive DEF Finish, IInv, CursorInv
  <2>. QED
    BY <2>1 DEF IInv, CursorInv
<1>2. /\ printed' = printed \cup {[addr |-> 0, kind |-> "DUMMY"]}
      /\ last' = 0 /\ pc' = "done"
      /\ UNCHANGED <<img, framelink, slot>>
  BY <1>0 DEF Finish, Emit, pcr
<1>3. TypeOK'
  BY <1>0, <1>2 DEF IInv, TypeOK, Kinds
<1>4. CursorInv'
  BY <1>2 DEF IInv, CursorInv
<1>5. PartialDumpSound'
  BY <1>0, <1>2 DEF IInv, PartialDumpSound
<1>6. ProgressInv'
  BY <1>2 DEF ProgressInv
<1>7. Addrs' = Addrs \cup {0}
  BY <1>2, AddrsEmit DEF Addrs
<1>8. Addrs = FrameSpans
  <2>1. pc = "walk"
    BY DEF Finish
  <2>2. Addrs = (slot + 1)..(img.top - 1)
    BY <2>1 DEF IInv, ProgressInv
  <2>. QED
    BY <1>1, <2>1, <2>2 DEF IInv, ProgressInv
<1>9. FrameSpans' = FrameSpans
  BY <1>2 DEF FrameSpans
<1>10. DumpComplete'
  BY <1>2, <1>7, <1>8, <1>9 DEF DumpComplete, Addrs
<1>. QED
  BY <1>3, <1>4, <1>5, <1>6, <1>10 DEF IInv

\* Every step keeps the invariant.
LEMMA IInvNext ==
  IInv /\ [Next]_vars => IInv'
<1> SUFFICES ASSUME IInv, [Next]_vars PROVE IInv'
  OBVIOUS
<1>1. CASE PrintValue
  BY <1>1, ScanStep DEF PrintValue, Emit, Kinds
<1>2. CASE PrintInvalid
  <2>1. pc' \in {"walk", "memerr"}
    BY <1>2 DEF PrintInvalid, InFrame
  <2>. QED
    BY <1>2, <2>1, ScanStep DEF PrintInvalid, Emit, Kinds
<1>3. CASE PrintDeadFrame
  <2>1. pc' \in {"walk", "memerr"}
    BY <1>3 DEF PrintDeadFrame, InFrame
  <2>2. (IF pcr(slot) # 0 THEN "DEADFRAME" ELSE "DUMMY") \in Kinds \ {"FRAME"}
    BY DEF Kinds
  <2>. QED
    BY <1>3, <2>1, <2>2, ScanStep DEF PrintDeadFrame, Emit
<1>4. CASE InvalidSlotFault
  BY <1>4, FaultStep, PrevFaultRange DEF InvalidSlotFault
<1>5. CASE FrameStep
  BY <1>5, FrameStepIInv
<1>6. CASE FrameFault
  BY <1>6, FaultStep, PrevFaultRange DEF FrameFault
<1>7. CASE Finish
  BY <1>7, FinishIInv
<1>8. CASE UNCHANGED vars
  BY <1>8 DEF vars, IInv, TypeOK, CursorInv, PartialDumpSound, ProgressInv,
              DumpComplete, Addrs, FrameSpans
<1>. QED
  BY <1>1, <1>2, <1>3, <1>4, <1>5, <1>6, <1>7, <1>8 DEF Next


-----------------------------------------------------------------------------
(* Theorems.                                                              *)

\* The invariant holds in every state of every run on well-formed images.
LEMMA AlwaysIInv ==
  ASSUME WellFormedInput
  PROVE  Spec => []IInv
<1>1. Init => IInv
  BY InitIInv
<1>2. IInv /\ [Next]_vars => IInv'
  BY IInvNext
<1>. QED
  BY <1>1, <1>2, PTL DEF Spec

\* Type correctness of uj-stack: on every well-formed stack image, of any
\* size, dump_stack's two cursors stay inside the image and every line it
\* prints is at a slot of the image.
THEOREM TypeCorrect ==
  ASSUME WellFormedInput
  PROVE  Spec => []TypeOK
<1>1. IInv => TypeOK
  BY DEF IInv
<1>. QED
  BY <1>1, AlwaysIInv, PTL

\* Whenever uj-stack stops, on a well-formed image, every line printed so
\* far labels a slot FRAME exactly when the VM keeps a live frame link
\* there: frame_prev decodes both the size and the return-pc encoding of a
\* link to the caller's link.
THEOREM PartialDumpIsSound ==
  ASSUME WellFormedInput
  PROVE  Spec => []PartialDumpSound
<1>1. IInv => PartialDumpSound
  BY DEF IInv
<1>. QED
  BY <1>1, AlwaysIInv, PTL

\* A uj-stack that completes on a well-formed image has printed exactly the
\* slots from top - 1 down to the lowest live frame link, and the dummy
\* frame at L->stack.
THEOREM DumpIsComplete ==
  ASSUME WellFormedInput
  PROVE  Spec => []DumpComplete
<1>1. IInv => DumpComplete
  BY DEF IInv
<1>. QED
  BY <1>1, AlwaysIInv, PTL

\* dump_stack prints each line strictly below the previous one, so it
\* never prints a slot twice.
THEOREM OutputDescends ==
  ASSUME WellFormedInput
  PROVE  Spec => PrintsDescend
<1>. DEFINE Desc == \A r \in printed' \ printed : r.addr < last
<1>1. IInv /\ [Next]_vars => [Desc]_vars
  <2> SUFFICES ASSUME IInv, [Next]_vars PROVE [Desc]_vars
    OBVIOUS
  <2>0. framelink \in Slots /\ slot \in Slots
    BY IInvFacts
  <2>1. CASE PrintValue \/ PrintInvalid \/ PrintDeadFrame
    BY <2>0, <2>1 DEF PrintValue, PrintInvalid, PrintDeadFrame, InFrame, Emit,
                      IInv, CursorInv
  <2>2. CASE FrameStep
    BY <2>0, <2>2 DEF FrameStep, InFrame, Emit, IInv, CursorInv
  <2>3. CASE Finish
    BY <2>0, <2>3, MaxSlotAssumption
    DEF Finish, Emit, IInv, CursorInv, TypeOK, Slots
  <2>4. CASE InvalidSlotFault \/ FrameFault \/ UNCHANGED vars
    BY <2>4 DEF InvalidSlotFault, FrameFault, vars
  <2>. QED
    BY <2>1, <2>2, <2>3, <2>4 DEF Next
<1>. QED
  BY <1>1, AlwaysIInv, PTL DEF Spec, PrintsDescend

-----------------------------------------------------------------------------
(* Refinement: dump_stack implements the top-down scan of StackScan.      *)

\* On a live frame the frame cursor is a live link: the sentinel's link is
\* zero.
LEMMA InFrameLive ==
  ASSUME IInv, InFrame
  PROVE  /\ framelink \in img.frames
         /\ ScanState = "scan"
         /\ Abs!FrameBelow
<1>1. framelink # 0
  BY IInvFacts DEF InFrame, pcr
<1>2. framelink \in img.frames
  BY <1>1 DEF IInv, CursorInv
<1>3. framelink <= slot
  BY DEF IInv, CursorInv
<1>. QED
  BY <1>2, <1>3 DEF InFrame, ScanState, Abs!FrameBelow

\* Printing the slot above the frame cursor is a Line step of the scan.
LEMMA LineRefines ==
  ASSUME IInv, InFrame, slot > framelink,
         NEW k \in Kinds \ {"FRAME"},
         printed' = printed \cup {[addr |-> slot, kind |-> k]},
         slot' = slot - 1, pc' \in {"walk", "memerr"}, img' = img
  PROVE  Abs!Line
<1>1. framelink \in img.frames /\ ScanState = "scan" /\ Abs!FrameBelow
  BY InFrameLive
<1>2. slot \notin img.frames
  BY IInvFacts DEF IInv, CursorInv, Slots
<1>3. ScanState' \in {"scan", "aborted"}
  BY DEF ScanState
<1>4. k \in Abs!LineKinds /\ (k = "FRAME" <=> slot \in img.frames)
  BY <1>2 DEF Kinds, Abs!LineKinds
<1>. QED
  BY <1>1, <1>3, <1>4 DEF Abs!Line

\* The outer loop's step prints the current link as a frame: a Line step.
LEMMA FrameStepRefines ==
  ASSUME IInv, FrameStep
  PROVE  Abs!Line
<1>1. framelink \in img.frames /\ ScanState = "scan" /\ Abs!FrameBelow
  BY InFrameLive DEF FrameStep
<1>2. slot = framelink
  BY IInvFacts DEF FrameStep, IInv, CursorInv, Slots
<1>3. ScanState' \in {"scan", "aborted"}
  BY DEF FrameStep, ScanState
<1>4. "FRAME" \in Abs!LineKinds
  BY DEF Abs!LineKinds
<1>. QED
  BY <1>1, <1>2, <1>3, <1>4 DEF FrameStep, Emit, Abs!Line

\* print_framelink(L, L['stack']) at the sentinel is the scan's Close.
LEMMA FinishRefines ==
  ASSUME IInv, Finish
  PROVE  Abs!Close
<1>0. /\ img \in ImageType
      /\ img.stack[0].w1 = 0
      /\ 0 \notin img.frames
      /\ img.frames \subseteq Slots
      /\ slot \in Slots
  BY IInvFacts
<1>1. framelink \notin img.frames
  BY FramePrevLive DEF Finish, IInv, CursorInv
<1>2. framelink = 0
  BY <1>1 DEF IInv, CursorInv
<1>3. \A f \in img.frames : ~(f <= slot)
  BY <1>0, <1>2 DEF IInv, CursorInv, Slots
<1>4. ~Abs!FrameBelow
  BY <1>3 DEF Abs!FrameBelow
<1>5. ScanState = "scan" /\ ScanState' = "done"
  BY <1>0 DEF Finish, ScanState, pcr
<1>6. printed' = printed \cup {[addr |-> 0, kind |-> "DUMMY"]}
  BY <1>0 DEF Finish, Emit, pcr
<1>. QED
  BY <1>4, <1>5, <1>6 DEF Finish, Abs!Close

\* A step that only raises is the scan's Abort.
LEMMA FaultRefines ==
  ASSUME IInv, InFrame, pc' \in {"memerr", "typeerr"},
         UNCHANGED <<img, slot, printed>>
  PROVE  Abs!Abort
<1>1. ScanState = "scan"
  BY InFrameLive
<1>2. ScanState' = "aborted"
  BY DEF ScanState
<1>. QED
  BY <1>1, <1>2 DEF Abs!Abort

\* Every step of dump_stack from a state of IInv is a step of the scan or
\* a stutter of it.
LEMMA NextRefines == IInv /\ [Next]_vars => [Abs!ANext]_Abs!avars
<1> SUFFICES ASSUME IInv, [Next]_vars PROVE [Abs!ANext]_Abs!avars
  OBVIOUS
<1>1. CASE PrintValue
  BY <1>1, LineRefines DEF PrintValue, Emit, Kinds, Abs!ANext
<1>2. CASE PrintInvalid
  BY <1>2, LineRefines DEF PrintInvalid, InFrame, Emit, Kinds, Abs!ANext
<1>3. CASE PrintDeadFrame
  <2>1. (IF pcr(slot) # 0 THEN "DEADFRAME" ELSE "DUMMY") \in Kinds \ {"FRAME"}
    BY DEF Kinds
  <2>. QED
    BY <1>3, <2>1, LineRefines DEF PrintDeadFrame, InFrame, Emit, Abs!ANext
<1>4. CASE InvalidSlotFault
  BY <1>4, FaultRefines, PrevFaultRange DEF InvalidSlotFault, Abs!ANext
<1>5. CASE FrameStep
  BY <1>5, FrameStepRefines DEF Abs!ANext
<1>6. CASE FrameFault
  BY <1>6, FaultRefines, PrevFaultRange DEF FrameFault, Abs!ANext
<1>7. CASE Finish
  BY <1>7, FinishRefines DEF Abs!ANext
<1>8. CASE UNCHANGED vars
  BY <1>8 DEF vars, Abs!avars, ScanState
<1>. QED
  BY <1>1, <1>2, <1>3, <1>4, <1>5, <1>6, <1>7, <1>8 DEF Next

\* uj-stack implements the top-down scan on every well-formed image: every
\* state maps to a scan state, and every step of dump_stack to a step of
\* the scan or a stutter.
THEOREM ImplementsScan ==
  ASSUME WellFormedInput
  PROVE  Spec => Abs!ASafeSpec
<1>1. Init => Abs!AInit
  BY DEF Init, Abs!AInit, ScanState, ScanImages
<1>2. IInv /\ [Next]_vars => [Abs!ANext]_Abs!avars
  BY NextRefines
<1>. QED
  BY <1>1, <1>2, AlwaysIInv, PTL DEF Spec, Abs!ASafeSpec

=============================================================================
