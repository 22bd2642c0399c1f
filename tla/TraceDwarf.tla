----------------------------- MODULE TraceDwarf -----------------------------
(***************************************************************************)
(* The load-trace-dwarf command of tools/ujit-gdb.py (LoadTraceDwarf).     *)
(* invoke walks the GDB JIT registry from __jit_debug_descriptor's         *)
(* first_entry along next_entry, counting entries in i; for each one       *)
(* find_and_load_trace_dwarf reads the .debug_info header of the entry's  *)
(* in-memory object file: it skips the fixed prefix and the NUL-terminated *)
(* DW_AT_name, reads low_pc and high_pc, and accepts the entry when        *)
(* low_pc <= target < high_pc.  The first accepted entry's object file is  *)
(* dumped to /tmp/trace_<i>.sym and loaded with add-symbol-file.           *)
(*                                                                         *)
(* gdb.MemoryError anywhere inside the loop (the dump included) is caught  *)
(* once, around the whole loop: the command prints a warning and then      *)
(* "<i> entries scanned, nothing relevant found".  Any other gdb.error     *)
(* ends the command.  The inspected memory is frozen.                      *)
(***************************************************************************)
EXTENDS Integers, FiniteSets

CONSTANTS
  Entries,     \* the jit_code_entry structures an image may hold
  NoEntry,     \* the NULL entry pointer
  Registries,  \* the registries (below) the command may be given
  Overrun,     \* the (low_pc, high_pc) pairs a read past a blob may yield
  Targets,     \* the target pcs (the argument, or $rip)
  MaxScan      \* a bound on the entry counter, for model checking

\* What reading entry e's object file yields: whether the entry and its
\* section header are readable, whether DW_AT_name ends inside the blob,
\* the header's low_pc and high_pc, and whether the whole object file
\* (symfile_addr .. symfile_addr + symfile_size) is readable.
BlobType == [readable : BOOLEAN, terminated : BOOLEAN,
             low : Int, high : Int, dumpable : BOOLEAN]

\* A registry: __jit_debug_descriptor.first_entry, each entry's next_entry
\* and what reading its object file yields.
RegistryType == [first : Entries \cup {NoEntry},
                 next : [Entries -> Entries \cup {NoEntry}],
                 blob : [Entries -> BlobType]]

ASSUME NoEntryAssumption == NoEntry \notin Entries
ASSUME RegistriesAssumption == Registries \subseteq RegistryType
ASSUME OverrunAssumption == Overrun \subseteq [low : Int, high : Int]
ASSUME TargetsAssumption == Targets \subseteq Int
ASSUME MaxScanAssumption == MaxScan \in Nat

VARIABLES
  reg,       \* the registry in the image (never written)
  target,    \* target_pc
  entry,     \* the loop's cursor
  i,         \* the entries counter
  pc,        \* "loop", "dump", "add", "done" or "failed" (gdb.error)
  found,     \* the index printed by "FOUND: <i>", or 0
  loaded,    \* the entries whose object file add-symbol-file loaded
  warned,    \* "Traversal ... aborted (memory access error)" printed
  reported   \* the count in "<i> entries scanned, nothing ...", or -1

vars == <<reg, target, entry, i, pc, found, loaded, warned, reported>>

\* Mutant: the upper bound taken as inclusive.
InRange_inclusive(r) == r.low <= target /\ target <= r.high

\* low_pc <= target_pc < high_pc.
InRange(r) == r.low <= target /\ target < r.high

\* The (low_pc, high_pc) pairs reading entry e's header can yield: its own,
\* or, when the name scan runs past the blob, whatever lies beyond it.
Headers(e) == IF reg.blob[e].terminated THEN {reg.blob[e]} ELSE Overrun

\* Reading entry e's header can raise gdb.MemoryError: the entry or its
\* section header is unreadable, or the name scan ran off mapped memory.
MayFault(e) == ~reg.blob[e].readable \/ ~reg.blob[e].terminated

\* except gdb.MemoryError: print the warning and fall through to the count.
\* n is the counter's value when the exception is raised.
AbortTraversal(n) ==
  /\ warned' = TRUE
  /\ reported' = n
  /\ pc' = "done"

Init ==
  /\ reg \in Registries
  /\ target \in Targets
  /\ entry = reg.first
  /\ i = 0
  /\ pc = "loop"
  /\ found = 0
  /\ loaded = {}
  /\ warned = FALSE
  /\ reported = -1

-----------------------------------------------------------------------------
(* One iteration of while (entry != 0x0): i += 1, then                    *)
(* find_and_load_trace_dwarf(target_pc, entry, i).                        *)

\* Mutant: the counter is not incremented.
ScanMiss_nocount ==
  /\ pc = "loop" /\ entry # NoEntry /\ i < MaxScan
  /\ reg.blob[entry].readable
  /\ \E h \in Headers(entry) : ~InRange(h)
  /\ i' = i
  /\ entry' = reg.next[entry]
  /\ UNCHANGED <<reg, target, pc, found, loaded, warned, reported>>

\* The header is out of range: return False, entry = entry["next_entry"].
ScanMiss ==
  /\ pc = "loop" /\ entry # NoEntry /\ i < MaxScan
  /\ reg.blob[entry].readable
  /\ \E h \in Headers(entry) : ~InRange(h)
  /\ i' = i + 1
  /\ entry' = reg.next[entry]
  /\ UNCHANGED <<reg, target, pc, found, loaded, warned, reported>>

\* The header is in range: print "FOUND: <i>" and go on to the dump.
ScanMatch ==
  /\ pc = "loop" /\ entry # NoEntry /\ i < MaxScan
  /\ reg.blob[entry].readable
  /\ \E h \in Headers(entry) : InRange(h)
  /\ i' = i + 1
  /\ found' = i + 1
  /\ pc' = "dump"
  /\ UNCHANGED <<reg, target, entry, loaded, warned, reported>>

\* Reading the entry or its header raises gdb.MemoryError.
ScanFault ==
  /\ pc = "loop" /\ entry # NoEntry /\ i < MaxScan
  /\ MayFault(entry)
  /\ i' = i + 1
  /\ AbortTraversal(i + 1)
  /\ UNCHANGED <<reg, target, entry, found, loaded>>

\* The loop reaches the NULL entry: "<i> entries scanned, nothing relevant
\* found".
ReportNotFound ==
  /\ pc = "loop" /\ entry = NoEntry
  /\ reported' = i
  /\ pc' = "done"
  /\ UNCHANGED <<reg, target, entry, i, found, loaded, warned>>

-----------------------------------------------------------------------------
(* The accepted entry: gdb.execute(dump_cmd), then add-symbol-file.       *)

\* dump binary memory writes the object file to /tmp/trace_<i>.sym.
DumpBlob ==
  /\ pc = "dump" /\ reg.blob[entry].dumpable
  /\ pc' = "add"
  /\ UNCHANGED <<reg, target, entry, i, found, loaded, warned, reported>>

\* The object file is unreadable: gdb.MemoryError reaches the loop's
\* handler, after "FOUND" was printed.
DumpFault ==
  /\ pc = "dump" /\ ~reg.blob[entry].dumpable
  /\ AbortTraversal(i)
  /\ UNCHANGED <<reg, target, entry, i, found, loaded>>

\* Mutant: the error swallowed, the command ending as if it had finished.
DumpFail_done ==
  /\ pc = "dump"
  /\ pc' = "done"
  /\ UNCHANGED <<reg, target, entry, i, found, loaded, warned, reported>>

\* The file cannot be written: gdb.error ends the command.
DumpFail ==
  /\ pc = "dump"
  /\ pc' = "failed"
  /\ UNCHANGED <<reg, target, entry, i, found, loaded, warned, reported>>

\* Mutant: the symbols loaded are those of the entry after the match.
AddSymbols_next ==
  /\ pc = "add"
  /\ loaded' = loaded \cup {reg.next[entry]}
  /\ pc' = "done"
  /\ UNCHANGED <<reg, target, entry, i, found, warned, reported>>

\* add-symbol-file loads the dumped file at low_pc; "Try to run bt now".
AddSymbols ==
  /\ pc = "add"
  /\ loaded' = loaded \cup {entry}
  /\ pc' = "done"
  /\ UNCHANGED <<reg, target, entry, i, found, warned, reported>>

\* add-symbol-file rejects the dumped file: gdb.error ends the command.
AddFail ==
  /\ pc = "add"
  /\ pc' = "failed"
  /\ UNCHANGED <<reg, target, entry, i, found, loaded, warned, reported>>

Next ==
  \/ ScanMiss
  \/ ScanMatch
  \/ ScanFault
  \/ ReportNotFound
  \/ DumpBlob
  \/ DumpFault
  \/ DumpFail
  \/ AddSymbols
  \/ AddFail

\* The command runs to completion on its own.
Spec == Init /\ [][Next]_vars /\ WF_vars(Next)


-----------------------------------------------------------------------------
(* Properties.                                                             *)

TypeOK ==
  /\ reg \in RegistryType
  /\ target \in Targets
  /\ entry \in Entries \cup {NoEntry}
  /\ i \in 0..MaxScan
  /\ pc \in {"loop", "dump", "add", "done", "failed"}
  /\ found \in 0..MaxScan
  /\ loaded \subseteq Entries
  /\ warned \in BOOLEAN
  /\ reported \in -1..MaxScan

\* The first n entries of the registry's list, positions 0..n-1: p[0] is
\* first_entry and each p[k + 1] is p[k]'s next_entry.  The list is
\* determined by the registry, so Chain(n) holds at most one chain.
Chain(n) ==
  {p \in [0..(n - 1) -> Entries] :
     /\ n > 0 => p[0] = reg.first
     /\ \A k \in 0..(n - 2) : p[k + 1] = reg.next[p[k]]}

\* The pointer that follows the chain p of n entries.
ChainEnd(p, n) == IF n = 0 THEN reg.first ELSE reg.next[p[n - 1]]

\* The spec's acceptance test, low_pc <= target < high_pc, applied to an
\* entry's own header.
Covers(b) == b.low <= target /\ target < b.high

(* The object file add-symbol-file loads is that of the first entry of     *)
(* the list whose own .debug_info header covers the target, and the index  *)
(* "FOUND" printed is its position: the header reader, the range test and  *)
(* the loop's early return agree (spec: first match wins).                 *)
LoadedIsFirstMatch ==
  loaded # {} =>
    \E p \in Chain(found) :
       /\ found > 0
       /\ loaded = {p[found - 1]}
       /\ Covers(reg.blob[p[found - 1]])
       /\ \A j \in 0..(found - 2) : ~Covers(reg.blob[p[j]])

(* "<i> entries scanned, nothing relevant found" without the warning       *)
(* means the whole list was scanned, <i> is its length, and no entry       *)
(* covers the target.                                                      *)
NotFoundIsExhaustive ==
  reported >= 0 /\ ~warned =>
    \E p \in Chain(reported) :
       /\ ChainEnd(p, reported) = NoEntry
       /\ \A j \in 0..(reported - 1) : ~Covers(reg.blob[p[j]])

(* A match, once announced with "FOUND", is never followed by "nothing     *)
(* relevant found" (spec: on first acceptance, stop and return the match). *)
FoundNotDenied == found > 0 => reported = -1

(* The traversal scans at most as many entries as the registry holds       *)
(* (spec: traversals are finite and abort cleanly on corrupted chains).    *)
ScanBounded == i <= Cardinality(Entries)


-----------------------------------------------------------------------------
(* The refinement: once the command has ended, its result as TraceLocate   *)
(* sees it.  add-symbol-file having run is a match on the cursor's entry   *)
(* at the index "FOUND" printed; the warning is an abort; otherwise the    *)
(* count printed is a not-found.                                           *)

Outcome ==
  IF pc = "done"
    THEN IF loaded # {} THEN [kind |-> "match", entry |-> entry, index |-> found]
         ELSE IF warned THEN [kind |-> "aborted"]
         ELSE [kind |-> "notfound", count |-> reported]
  ELSE IF pc = "failed" THEN [kind |-> "failed"]
  ELSE [kind |-> "pending"]

Locate == INSTANCE TraceLocate WITH areg <- reg, atarget <- target,
                                    outcome <- Outcome

(* load-trace-dwarf implements locate: the traversal, the dump and         *)
(* add-symbol-file end in the first covering entry of the list, in a       *)
(* not-found whose count is the list's length, or in a memory or gdb       *)
(* error; no result changes once printed; and the command ends.            *)
LocateRefinement == Locate!ASpec

=============================================================================
