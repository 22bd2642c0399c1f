---------------------------- MODULE MCStackDump ----------------------------
(***************************************************************************)
(* Model-checking instance of StackDump: a four-slot stack, a heap with    *)
(* readable and unreadable objects, and a few bytecode words, so that     *)
(* every outcome of print_stack_slot and print_framelink happens.         *)
(***************************************************************************)
EXTENDS StackDump, Sequences, TLC

CONSTANTS FnR, FnU, StrR, TabR, Thr

\* FnU is a function object whose memory the image lacks.
MCHeap ==
  (FnR :> [gct |-> LJ_TFUNC, readable |-> TRUE]) @@
  (FnU :> [gct |-> LJ_TFUNC, readable |-> FALSE]) @@
  (StrR :> [gct |-> LJ_TSTR, readable |-> TRUE]) @@
  (TabR :> [gct |-> LJ_TTAB, readable |-> TRUE]) @@
  (Thr :> [gct |-> LJ_TTHREAD, readable |-> TRUE])

\* Return pcs 4, 8, 12 follow calls putting the callee 1, 2 and 3 slots up
\* (A = 0, 2, 4 in the x2 variant); pc 16 follows an opcode the dumper does
\* not know (0x12); pc 20 follows unreadable code.
MCCode ==
  (0 :> BC_CALL) @@
  (4 :> BC_CALLM + 256 * 2 + 65536 * 3) @@
  (8 :> BC_CALLT + 256 * 4) @@
  (12 :> 18 + 256 * 6)

\* Type bits of the non-Lua links generated: C, CONT, PCALL|VARG.
MCLinkTypes == {1, 2, 7}

Root == [gcr |-> Thr, w1 |-> 0]
Nil == [gcr |-> Null, w1 |-> -1 - LJ_TNIL]

\* Live frame links d slots above the previous frame.
LiveLinks(d) ==
  {[gcr |-> o, w1 |-> w] :
     o \in {FnR, FnU},
     w \in {16 * d + t : t \in MCLinkTypes}
             \cup {a + 4 : a \in {x \in DOMAIN MCCode : IsCallSite(MCCode[x], d)}}}

\* What the slots between frames hold: values, and stale slots whose tag
\* is invalid (old frame links over functions, a zeroed link, or garbage).
Fill ==
  {Nil,
   [gcr |-> StrR, w1 |-> -1 - LJ_TSTR],
   [gcr |-> FnU, w1 |-> -1 - LJ_TFUNC],
   [gcr |-> TabR, w1 |-> -1 - LJ_TTAB],
   [gcr |-> FnR, w1 |-> 17],
   [gcr |-> FnR, w1 |-> 8],
   [gcr |-> FnR, w1 |-> 16],
   [gcr |-> FnR, w1 |-> 20],
   [gcr |-> FnR, w1 |-> 0],
   [gcr |-> TabR, w1 |-> 17],
   [gcr |-> Null, w1 |-> 17]}

\* The frame below f in the layout F.
Below(F, f) == CHOOSE g \in (F \cup {0}) : g < f /\ \A h \in F : ~(g < h /\ h < f)

SlotOpts(F, top, a) ==
  IF a = 0 THEN {Root}
  ELSE IF a \in F THEN LiveLinks(a - Below(F, a))
  ELSE IF a < top THEN Fill
  ELSE {Nil}

Top(F) == IF F = {} THEN 0 ELSE CHOOSE f \in F : \A g \in F : g <= f

\* The layouts: the live frame links, and a top above the highest of them.
Layouts ==
  {L \in [frames : SUBSET (1..MaxSlot), top : 1..(MaxSlot + 1)] :
     L.top > Top(L.frames)}

\* Every content a slot of some layout may hold.
SlotValues == {Root, Nil} \cup Fill \cup UNION {LiveLinks(d) : d \in 1..MaxSlot}

\* The contents each slot of each layout may hold.
Opts == [L \in Layouts, a \in Slots |-> SlotOpts(L.frames, L.top, a)]

RECURSIVE Stacks(_)
\* Each layout with a content chosen for each of the slots 0..n-1 (slot a
\* at position a + 1 of st).  Built as one comprehension per slot rather
\* than as a union of sets, which TLC merges element by element.
Stacks(n) ==
  IF n = 0 THEN {[lay |-> L, st |-> <<>>] : L \in Layouts}
  ELSE {[lay |-> c[1].lay, st |-> Append(c[1].st, c[2])] :
          c \in {c \in Stacks(n - 1) \X SlotValues : c[2] \in Opts[c[1].lay, n - 1]}}

MCImages ==
  {[stack |-> [a \in Slots |-> p.st[a + 1]], base |-> Top(p.lay.frames) + 1,
    top |-> p.lay.top, frames |-> p.lay.frames] : p \in Stacks(MaxSlot + 1)}

\* The same layouts with the link of the current frame overwritten by a
\* zero-size or negative-size C link (corrupt memory).
MCCorruptImages ==
  {[im EXCEPT !.stack[im.base - 1].w1 = w] :
     im \in {i \in MCImages : i.base > 1}, w \in {1, -15}}

\* What the passing runs write over the link of the current frame: nothing,
\* or a Lua link whose pcr[-1] is an opcode lj_bc_mode does not know (16)
\* or lies outside the code (20).
LinkOverwrites == {<<>>, <<16>>, <<20>>}

\* The image im with the overwrite o, when it has a current frame.
Overwritten(im, o) ==
  IF o = <<>> \/ im.base = 1 THEN im
  ELSE [im EXCEPT !.stack[im.base - 1].w1 = Head(o)]

\* The images of the passing runs: the VM's layouts, and the same layouts
\* with a current link that cannot be decoded.
MCRunImages == {Overwritten(c[1], c[2]) : c \in MCImages \X LinkOverwrites}

\* Every generated layout is one the VM can produce.
ASSUME MCImagesWellFormed == MCImages \subseteq WellFormedImages
=============================================================================
