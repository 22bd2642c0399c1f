----------------------------- MODULE TraceLocate -----------------------------
(***************************************************************************)
(* What load-trace-dwarf promises, without its cursor and counter: in one  *)
(* step it locates the trace owning the target address in the JIT debug   *)
(* registry.  The result is the first entry of the list whose range       *)
(* [low_pc, high_pc) holds the target, with its position; or "not found"   *)
(* with the length of the list, which no entry covers; or the command      *)
(* gives up, on a memory error (a warning) or on a gdb error.              *)
(***************************************************************************)
EXTENDS Integers

CONSTANTS
  Entries,     \* the jit_code_entry structures
  NoEntry,     \* the NULL entry pointer
  Registries,  \* records [first, next, blob] as TraceDwarf's RegistryType
  Targets      \* the target pcs

VARIABLES
  areg,        \* the registry
  atarget,     \* the target pc
  outcome      \* the command's result, or Pending

avars == <<areg, atarget, outcome>>

\* The results of locate.
Pending == [kind |-> "pending"]
Match(e, n) == [kind |-> "match", entry |-> e, index |-> n]
NotFound(n) == [kind |-> "notfound", count |-> n]
Aborted == [kind |-> "aborted"]
Failed == [kind |-> "failed"]

\* r is a match result, or a not-found result.
IsMatch(r) ==
  /\ r.kind = "match"
  /\ r = Match(r.entry, r.index) /\ r.entry \in Entries /\ r.index \in Nat
IsNotFound(r) ==
  /\ r.kind = "notfound"
  /\ r = NotFound(r.count) /\ r.count \in Nat

\* The first n entries of the registry's list, first_entry at position 0.
Chain(n) ==
  {p \in [0..(n - 1) -> Entries] :
     /\ n > 0 => p[0] = areg.first
     /\ \A k \in 0..(n - 2) : p[k + 1] = areg.next[p[k]]}

\* The pointer that follows the chain p of n entries.
ChainEnd(p, n) == IF n = 0 THEN areg.first ELSE areg.next[p[n - 1]]

\* The entry's range holds the target: low_pc <= target < high_pc.
Covers(b) == b.low <= atarget /\ atarget < b.high

\* e is the n-th entry of the list, it covers the target, and no entry
\* before it does.
FirstMatch(e, n) ==
  /\ n > 0
  /\ \E p \in Chain(n) :
       /\ p[n - 1] = e
       /\ Covers(areg.blob[e])
       /\ \A j \in 0..(n - 2) : ~Covers(areg.blob[p[j]])

\* The list has n entries and none covers the target.
Exhausted(n) ==
  \E p \in Chain(n) :
     /\ ChainEnd(p, n) = NoEntry
     /\ \A j \in 0..(n - 1) : ~Covers(areg.blob[p[j]])

AInit ==
  /\ areg \in Registries
  /\ atarget \in Targets
  /\ outcome = Pending

\* The first match wins.
Locate ==
  /\ outcome = Pending
  /\ \E r \in {outcome'} : IsMatch(r) /\ FirstMatch(r.entry, r.index)
  /\ UNCHANGED <<areg, atarget>>

\* Every entry was examined and none matched.
ReportNotFound ==
  /\ outcome = Pending
  /\ \E r \in {outcome'} : IsNotFound(r) /\ Exhausted(r.count)
  /\ UNCHANGED <<areg, atarget>>

\* gdb.MemoryError: the traversal is abandoned with a warning.
Abort ==
  /\ outcome = Pending
  /\ outcome' = Aborted
  /\ UNCHANGED <<areg, atarget>>

\* Any other gdb.error ends the command.
Fail ==
  /\ outcome = Pending
  /\ outcome' = Failed
  /\ UNCHANGED <<areg, atarget>>

ANext == Locate \/ ReportNotFound \/ Abort \/ Fail

ASafeSpec == AInit /\ [][ANext]_avars

\* locate returns.  Abort is enabled in every pending state, so this is
\* what weak fairness of ANext would require.
ASpec == ASafeSpec /\ <>(outcome # Pending)

=============================================================================
