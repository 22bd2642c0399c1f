----------------------------- MODULE StackDump -----------------------------
(***************************************************************************)
(* The uj-stack command of tools/ujit-gdb.py: dump_stack walks the frame  *)
(* chain of a coroutine from its current frame (base - 1) down to the     *)
(* dummy frame at L->stack, printing every slot between two frame links   *)
(* with print_stack_slot and every frame link with print_framelink.       *)
(*                                                                         *)
(* The inspected memory is read-only: a stack image (one record per       *)
(* 16-byte TValue slot: the first word gcr/func and the second word       *)
(* ftsz/pcr, whose low half is the value tag), the GC heap (each object's *)
(* kind byte gct and whether its memory is readable) and the bytecode.    *)
(* Any read of unreadable memory raises gdb.MemoryError, which nothing in *)
(* dump_stack catches: the command stops with what it has printed.        *)
(***************************************************************************)
EXTENDS FrameLink

CONSTANTS
  MaxSlot,  \* the stack image holds slots 0..MaxSlot; slot 0 is L->stack
  Objs,     \* GC objects a slot may reference
  Null,     \* the NULL reference
  Heap,     \* Heap[o].gct: the object's kind index; Heap[o].readable
  Code,     \* bytecode memory: byte address -> 32-bit instruction word
  Images    \* the memory images (stack, base, top) the command may be given

Slots == 0..MaxSlot

\* A slot as the dumper reads it: first word, second word.
SlotVal == [gcr : Objs \cup {Null}, w1 : Int]

\* The VM's frame-link layout (for the proofs and the image generators,
\* not read by the dumper): frames is the set of live frame-link slots
\* above the dummy frame at slot 0.
ImageType == [stack : [Slots -> SlotVal], base : 1..(MaxSlot + 1),
              top : 1..(MaxSlot + 1), frames : SUBSET Slots]

ASSUME MaxSlotAssumption == MaxSlot \in Nat
ASSUME NullAssumption == Null \notin Objs
ASSUME HeapAssumption == Heap \in [Objs -> [gct : Nat, readable : BOOLEAN]]
ASSUME CodeAssumption ==
  \A a \in DOMAIN Code : a \in Nat /\ a % 4 = 0 /\ Code[a] \in Nat
ASSUME ImagesAssumption == Images \subseteq ImageType

-----------------------------------------------------------------------------
(* The frame layout the VM maintains (spec section 3): a Lua frame's link  *)
(* is the return pc, and the call instruction before it names (doubled in *)
(* the x2 dispatch variant) the register that became the callee's base;  *)
(* any other frame's link is its size in bytes plus its type bits.        *)

\* The non-Lua link types: C, CONT, VARG and their protected variants.
NonLuaTypes == {1, 2, 3, 5, 6, 7}

\* The call opcodes the VM leaves before a return address.
CallOps == {BC_CALLM, BC_CALL, BC_CALLMT, BC_CALLT}

\* ins is a call instruction whose A field puts the callee d slots up.
IsCallSite(ins, d) ==
  /\ ins % 256 \in CallOps
  /\ (ins \div 256) % 256 = 2 * (d - 1)

\* The link words the VM writes for a frame d slots above its caller.
IsLinkWord(w, d) ==
  \/ \E t \in NonLuaTypes : w = 16 * d + t
  \/ /\ w - 4 \in DOMAIN Code
     /\ IsCallSite(Code[w - 4], d)

WellFormed(im) ==
  /\ im \in ImageType
  /\ 0 \notin im.frames
  /\ im.stack[0].w1 = 0
  /\ im.base - 1 \in im.frames \cup {0}
  /\ im.base <= im.top
  /\ \A f \in im.frames :
       /\ f < im.base
       /\ \E d \in 1..128 :
            /\ f - d \in im.frames \cup {0}
            /\ \A g \in im.frames : ~(f - d < g /\ g < f)
            /\ IsLinkWord(im.stack[f].w1, d)

WellFormedImages == {im \in ImageType : WellFormed(im)}

-----------------------------------------------------------------------------
VARIABLES
  img,        \* the memory image being dumped (never written)
  framelink,  \* dump_stack's frame cursor
  slot,       \* dump_stack's slot cursor
  printed,    \* the lines printed so far: [addr, kind]
  last,       \* the address of the last line printed
  pc          \* "walk", "done", or the exception that ended the command

vars == <<img, framelink, slot, printed, last, pc>>

\* The line kinds: a value, a slot with an invalid tag ("DEADF: not valid
\* type"), a stale frame link ("DEADF: [..]"), a live frame link
\* ("FRAME: [..]") and a frame whose link is zero ("FRAME: dummy L").
Kinds == {"VALUE", "DEADF", "DEADFRAME", "FRAME", "DUMMY"}

Readable(o) == o \in Objs /\ Heap[o].readable

\* The second word of a slot: ftsz / pcr.
pcr(a) == img.stack[a].w1

\* Reading pcr[-1] for a Lua link: unreadable code or an opcode lj_bc_mode
\* does not know ends the command; otherwise frame_prev cannot fail.
PrevFault(a) ==
  IF ~frame_islua(pcr(a)) THEN "none"
  ELSE IF pcr(a) - 4 \notin DOMAIN Code THEN "memerr"
  ELSE IF bc_op(Code[pcr(a) - 4]) \notin SupportedOps THEN "typeerr"
  ELSE "none"

frame_prevl(a) == a - frame_deltal(Code[pcr(a) - 4])

frame_prevd(a) == a - frame_sized(pcr(a))

frame_prev(a) == IF frame_islua(pcr(a)) THEN frame_prevl(a) ELSE frame_prevd(a)

\* dump_tvalue reads fields of a function (ffid) or a trace (traceno); a
\* string is printed through str() of a char *, which gdb renders as
\* "<error: ...>" when the memory is unreadable, without raising.
DumpReadsObj(s) == tagisvalid(s.w1) /\ tag_index(s.w1) \in {LJ_TFUNC, LJ_TTRACE}

Emit(a, kind) ==
  /\ printed' = printed \cup {[addr |-> a, kind |-> kind]}
  /\ last' = a

\* Mutant: the slot cursor starts at top instead of top - 1.
Init_slot_at_top ==
  /\ img \in Images
  /\ framelink = img.base - 1
  /\ slot = img.top
  /\ printed = {}
  /\ last = img.top
  /\ pc = "walk"

Init ==
  /\ img \in Images
  /\ framelink = img.base - 1
  /\ slot = img.top - 1
  /\ printed = {}
  /\ last = img.top
  /\ pc = "walk"

\* The outer loop's body runs while the current link is non-zero.
InFrame == pc = "walk" /\ pcr(framelink) # 0

-----------------------------------------------------------------------------
(* One iteration of the inner loop: print_stack_slot(slot); slot -= 1.     *)

\* A slot with a valid tag is printed with dump_tvalue.
PrintValue ==
  /\ InFrame /\ slot > framelink
  /\ tagisvalid(pcr(slot))
  /\ Emit(slot, "VALUE")
  /\ slot' = slot - 1
  /\ pc' = IF DumpReadsObj(img.stack[slot]) /\ ~Readable(img.stack[slot].gcr)
             THEN "memerr" ELSE "walk"
  /\ UNCHANGED <<img, framelink>>

\* An invalid tag: print_stack_slot reads the kind byte of the referenced
\* object; a non-function is printed as "not valid type".
PrintInvalid ==
  /\ InFrame /\ slot > framelink
  /\ ~tagisvalid(pcr(slot))
  /\ Readable(img.stack[slot].gcr)
  /\ Heap[img.stack[slot].gcr].gct # LJ_TFUNC
  /\ Emit(slot, "DEADF")
  /\ slot' = slot - 1
  /\ UNCHANGED <<img, framelink, pc>>

\* An invalid tag over a function: a stale frame link, printed by
\* print_framelink(slot, FRAME_DEAD), which computes frame_prev first.
PrintDeadFrame ==
  /\ InFrame /\ slot > framelink
  /\ ~tagisvalid(pcr(slot))
  /\ Readable(img.stack[slot].gcr)
  /\ Heap[img.stack[slot].gcr].gct = LJ_TFUNC
  /\ PrevFault(slot) = "none"
  /\ Emit(slot, IF pcr(slot) # 0 THEN "DEADFRAME" ELSE "DUMMY")
  /\ slot' = slot - 1
  /\ UNCHANGED <<img, framelink, pc>>

\* The same slot ends the command: its object is unreadable, or it is a
\* stale Lua link whose pcr[-1] cannot be decoded.
InvalidSlotFault ==
  /\ InFrame /\ slot > framelink
  /\ ~tagisvalid(pcr(slot))
  /\ \/ /\ ~Readable(img.stack[slot].gcr)
        /\ pc' = "memerr"
     \/ /\ Readable(img.stack[slot].gcr)
        /\ Heap[img.stack[slot].gcr].gct = LJ_TFUNC
        /\ PrevFault(slot) # "none"
        /\ pc' = PrevFault(slot)
  /\ UNCHANGED <<img, framelink, slot, printed, last>>

-----------------------------------------------------------------------------
\* Mutant: the outer loop forgets slot -= 1.
FrameStep_nodec ==
  /\ InFrame /\ slot <= framelink
  /\ PrevFault(framelink) = "none"
  /\ framelink' = frame_prev(framelink)
  /\ Emit(framelink, "FRAME")
  /\ slot' = slot
  /\ pc' = IF Readable(img.stack[framelink].gcr) /\ frame_prev(framelink) \in Slots
             THEN "walk" ELSE "memerr"
  /\ UNCHANGED img

(* The rest of the outer loop's body: step to the previous frame, print    *)
(* the frame just left (dump_gcfunc reads its function object), and       *)
(* slot -= 1.  The loop test that follows reads pcr(framelink): outside   *)
(* the image that read raises gdb.MemoryError.                            *)
FrameStep ==
  /\ InFrame /\ slot <= framelink
  /\ PrevFault(framelink) = "none"
  /\ framelink' = frame_prev(framelink)
  /\ Emit(framelink, "FRAME")
  /\ slot' = slot - 1
  /\ pc' = IF Readable(img.stack[framelink].gcr) /\ frame_prev(framelink) \in Slots
             THEN "walk" ELSE "memerr"
  /\ UNCHANGED img

\* frame_prev of the current link cannot decode pcr[-1].
FrameFault ==
  /\ InFrame /\ slot <= framelink
  /\ PrevFault(framelink) # "none"
  /\ pc' = PrevFault(framelink)
  /\ UNCHANGED <<img, framelink, slot, printed, last>>

\* The loop ends at a zero link; print_framelink(L, L['stack']) then prints
\* the frame at slot 0, whichever link the walk stopped at.
Finish ==
  /\ pc = "walk" /\ pcr(framelink) = 0
  /\ PrevFault(0) = "none"
  /\ Emit(0, IF pcr(0) # 0 THEN "FRAME" ELSE "DUMMY")
  /\ pc' = IF pcr(0) # 0 /\ ~Readable(img.stack[0].gcr) THEN "memerr" ELSE "done"
  /\ UNCHANGED <<img, framelink, slot>>

Next ==
  \/ PrintValue
  \/ PrintInvalid
  \/ PrintDeadFrame
  \/ InvalidSlotFault
  \/ FrameStep
  \/ FrameFault
  \/ Finish

\* The command runs to completion: nothing it waits on can stop it.
Spec == Init /\ [][Next]_vars /\ WF_vars(Next)

-----------------------------------------------------------------------------
(* Properties.                                                             *)

TypeOK ==
  /\ img \in ImageType
  /\ framelink \in Slots
  /\ slot \in Slots
  /\ printed \subseteq [addr : Slots, kind : Kinds]
  /\ last \in 0..(MaxSlot + 1)
  /\ pc \in {"walk", "done", "memerr", "typeerr"}

\* The addresses of the lines printed as live frames.
FrameLines == {r.addr : r \in {q \in printed : q.kind = "FRAME"}}

(* Partial output is sound: whenever the command is interrupted, every    *)
(* line printed so far labels a slot as a live frame exactly when the VM  *)
(* laid a frame link there (frame_prev decodes both link encodings), and  *)
(* no line is printed at or above top.                                    *)
PartialDumpSound ==
  \A r \in printed :
    /\ r.kind = "FRAME" <=> r.addr \in img.frames
    /\ r.addr < img.top

\* The slots at or above the lowest live frame link and below top.
FrameSpans == {a \in 0..(img.top - 1) : \E f \in img.frames : f <= a}

(* A completed dump prints every slot from top - 1 down to the lowest    *)
(* live frame link, then the sentinel as the dummy frame: the walk stops  *)
(* at the first zero link, so the span between the sentinel and the      *)
(* lowest frame is never scanned.                                         *)
DumpComplete ==
  pc = "done" =>
    /\ {r.addr : r \in printed} = FrameSpans \cup {0}
    /\ [addr |-> 0, kind |-> "DUMMY"] \in printed

(* Every span between two boundaries is dumped (spec section 4.3): a       *)
(* completed dump prints every slot from top - 1 down to L->stack.        *)
DumpsEverySpan ==
  pc = "done" => {r.addr : r \in printed} = 0..(img.top - 1)

(* dump_stack's two cursors never revisit memory: each line printed is    *)
(* strictly below the previous one, so no slot is printed twice.          *)
PrintsDescend == [][\A r \in printed' \ printed : r.addr < last]_vars

(* Every frame step moves the frame cursor strictly down the stack image: *)
(* the spec's CorruptFrameChain condition is never met silently.          *)
WalkDescends == [][FrameStep => framelink' \in 0..(framelink - 1)]_vars

(* A memory-read failure while scanning the stack is recovered per slot   *)
(* (spec section 7): the command never ends on gdb.MemoryError.           *)
StackScanSurvivesUnreadable == pc # "memerr"

-----------------------------------------------------------------------------
(* The refinement: dump_stack's slot cursor is the abstract cursor, its    *)
(* printed lines the abstract output, and every exception an abort.        *)

\* The command's outcome as the abstract specification sees it.
ScanState == IF pc = "walk" THEN "scan" ELSE IF pc = "done" THEN "done" ELSE "aborted"

\* The input images, as the set StackScan's initial state ranges over.
ScanImages == Images

Abs == INSTANCE StackScan
         WITH aimg <- img, cursor <- slot, out <- printed, state <- ScanState,
              Images <- ScanImages

(* dump_stack implements the top-down scan: each print_stack_slot call    *)
(* and each outer-loop step prints the next slot down, labelled a frame    *)
(* exactly at a live link, and print_framelink(L, L['stack']) closes the   *)
(* output once no live link is left below the cursor; the command ends.    *)
ScanRefinement == Abs!ASpec

=============================================================================
