----------------------------- MODULE FrameLink -----------------------------
(***************************************************************************)
(* Pure decoding helpers of tools/ujit-gdb.py: how the dumper reads a     *)
(* frame-link word (ftsz / pcr), the A operand of the bytecode             *)
(* instruction before a return address, and the tag word of a TValue.     *)
(*                                                                         *)
(* A machine word is modelled by the integer it denotes as a signed        *)
(* int64.  Masking with a small power of two is TLA+'s %, which is        *)
(* floored, so w % 8 is w & 7 for negative words too; a right shift is    *)
(* \div, which is floored as Python's >> is.                              *)
(***************************************************************************)
EXTENDS Integers

\* Frame-link field masks (FRAME_TYPE, FRAME_P, FRAME_TYPEP, FRAME_PCALL).
FRAME_TYPE == 3
FRAME_P == 4
FRAME_TYPEP == 7
FRAME_PCALL == 6

\* The "no register" operand value that x2 decoding leaves alone.
NO_REG == 255

\* Operand modes of the bytecode mode word.
BCMdst == 1
BCMbase == 2
BCMvar == 3
BCMrbase == 4
BCMnum == 9

\* The opcodes whose dispatch mode the dumper knows.
BC_CALLM == 51
BC_CALL == 52
BC_CALLMT == 53
BC_CALLT == 54
BC_FUNCF == 77
BC_IFUNCF == 78
BC_JFUNCF == 79
BC_FUNCV == 80
BC_IFUNCV == 81
BC_JFUNCV == 82
BC_FUNCC == 83
BC_FUNCCW == 84

\* Value-tag indices: a TValue of kind k carries the tag word ~k.
LJ_TNIL == 0
LJ_TSTR == 4
LJ_TTHREAD == 6
LJ_TFUNC == 8
LJ_TTRACE == 9
LJ_TTAB == 11
LJ_TNUMX == 13

-----------------------------------------------------------------------------
(* Frame-link word.                                                        *)

\* ftsz & FRAME_TYPE, ftsz & FRAME_TYPEP.
frame_type(w) == w % 4
frame_typep(w) == w % 8

\* (ftsz & FRAME_PCALL) == FRAME_PCALL: bits 1 and 2 are both set.
frame_ispcall(w) == (w % 8) \div 2 = 3

\* Mutant: the size field shifted by 3 instead of 4.
frame_sized_shift3(w) == (w - (w % 8)) \div 8

\* (ftsz & ~FRAME_TYPEP) >> 4: clear the three tag bits, then shift.
frame_sized(w) == (w - (w % 8)) \div 16

\* frametype_name(frame_type(fr)) == "L" and int(ftsz) > 0: a Lua frame,
\* whose word is the return pc, not a size.
frame_islua(w) == frame_type(w) = 0 /\ w > 0

-----------------------------------------------------------------------------
(* Bytecode operand decoding (instruction words are op | A << 8 | ...).    *)

\* The opcodes lj_bc_mode has an entry for; any other is "not_found".
SupportedOps == {BC_CALLM, BC_CALL, BC_CALLMT, BC_CALLT, BC_FUNCF, BC_IFUNCF,
                 BC_JFUNCF, BC_FUNCV, BC_IFUNCV, BC_JFUNCV, BC_FUNCC, BC_FUNCCW}

\* lj_bc_mode: 0xb004, 0xb304, 0x4b32, 0x4b02.
lj_bc_mode(op) ==
  CASE op \in {BC_FUNCF, BC_IFUNCF, BC_FUNCV, BC_IFUNCV, BC_FUNCC, BC_FUNCCW}
         -> 45060
    [] op \in {BC_JFUNCF, BC_JFUNCV} -> 45828
    [] op \in {BC_CALLM, BC_CALL} -> 19250
    [] op \in {BC_CALLMT, BC_CALLT} -> 19202

\* mode & 7, defined only for SupportedOps: for any other opcode the code
\* evaluates "not_found" & 7 and raises TypeError (the assert never fires).
bcmode_a(op) == lj_bc_mode(op) % 8

isx2_bcm(m) == IF m \in {BCMdst, BCMvar, BCMbase, BCMrbase, BCMnum} THEN 1 ELSE 0

isx2_a(op) == isx2_bcm(bcmode_a(op))

bc_op(i) == i % 256

bc_a_raw(i) == (i \div 256) % 256

\* Mutant: the x2 dispatch variant's doubled operand not halved.
x2_decode_r_nohalve(i, r) == r

\* In the x2 dispatch variant registers are stored doubled.
x2_decode_r(i, r) == IF isx2_a(bc_op(i)) = 1 /\ r # NO_REG THEN r \div 2 ELSE r

bc_a(i) == x2_decode_r(i, bc_a_raw(i))

\* Slots between a Lua frame and its caller's frame: 1 + A of the call.
frame_deltal(i) == 1 + bc_a(i)

-----------------------------------------------------------------------------
(* TValue tag word.                                                        *)

(* value_tag is the low 32 bits of a slot's second word; it is valid when *)
(* >= LJ_T__MIN = 0xfffffff2 = ~13.  For words of magnitude below 2^31    *)
(* that is exactly the words -14 .. -1, i.e. ~13 .. ~0 as int64.           *)
tagisvalid(w) == w \in -14..-1

\* The kind index of a valid tag word: ~w.
tag_index(w) == -1 - w

=============================================================================
