--------------------------- MODULE MCTraceDwarf ---------------------------
(***************************************************************************)
(* Model-checking instance of TraceDwarf: three registry entries, every   *)
(* list shape over them, and object files whose headers cover the low or *)
(* the high target, or are unreadable, undumpable or unterminated.        *)
(***************************************************************************)
EXTENDS TraceDwarf, TLC

CONSTANTS E1, E2, E3

\* Headers covering [0, 2) and [2, 4); the targets 1 and 2 (a boundary).
BLo == [readable |-> TRUE, terminated |-> TRUE, low |-> 0, high |-> 2,
        dumpable |-> TRUE]
BHi == [BLo EXCEPT !.low = 2, !.high = 4]
BUnreadable == [BLo EXCEPT !.readable = FALSE]
BUndumpable == [BLo EXCEPT !.dumpable = FALSE]
BUnterminated == [BHi EXCEPT !.terminated = FALSE]

MCTargets == {1, 2}

MCBlobs == {BLo, BHi, BUnreadable, BUndumpable, BUnterminated}

AllRegistries ==
  [first : Entries \cup {NoEntry},
   next : [Entries -> Entries \cup {NoEntry}],
   blob : [Entries -> MCBlobs]]

\* The list from first reaches NULL: the registry the VM maintains.
Acyclic(r) ==
  LET walk[k \in 0..Cardinality(Entries)] ==
        IF k = 0 THEN r.first
        ELSE IF walk[k - 1] = NoEntry THEN NoEntry ELSE r.next[walk[k - 1]]
  IN  walk[Cardinality(Entries)] = NoEntry

\* Registries as gdb finds them: each entry on the list at most once.
MCRegistries == {r \in AllRegistries : Acyclic(r)}

\* Corrupt registries whose list runs into a cycle.
MCCyclicRegistries == {r \in AllRegistries : ~Acyclic(r)}

\* A name scan past the blob may land on bytes that read as a header
\* covering the low target.
MCOverrun == {[low |-> 0, high |-> 2]}
=============================================================================
