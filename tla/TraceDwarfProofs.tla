------------------------- MODULE TraceDwarfProofs --------------------------
(***************************************************************************)
(* Type correctness of load-trace-dwarf for every registry, set of        *)
(* entries and bound.  TypeOK alone is not inductive: add-symbol-file     *)
(* loads the cursor's entry, so the cursor must be a real entry (not      *)
(* NULL) whenever the command is past the match.                          *)
(***************************************************************************)
EXTENDS TraceDwarf, TLAPS

\* Past a match the cursor is on the accepted entry.
MatchOnEntry == pc \in {"dump", "add"} => entry \in Entries

TDInv == TypeOK /\ MatchOnEntry

\* The scan so far: the first n entries of the list were read and none
\* covers the target, and e is the pointer that follows them.
Walked(n, e) ==
  \E p \in Chain(n) :
     /\ ChainEnd(p, n) = e
     /\ \A j \in 0..(n - 1) : ~Covers(reg.blob[p[j]])

\* Entry e is at position n - 1 of the list, covers the target, and no
\* entry before it does.
MatchedAt(n, e) ==
  \E p \in Chain(n) :
     /\ n > 0
     /\ p[n - 1] = e
     /\ Covers(reg.blob[e])
     /\ \A j \in 0..(n - 2) : ~Covers(reg.blob[p[j]])

\* What the loop, the dump and the report have established so far, for
\* the phase p, counter n, cursor e, loaded set ld, reported count rp,
\* warning w and found index f.
ScanInvAt(p, n, e, ld, rp, w, f) ==
  /\ p = "loop" =>
       Walked(n, e) /\ ld = {} /\ rp = -1 /\ ~w
  /\ p \in {"dump", "add"} =>
       MatchedAt(n, e) /\ f = n /\ ld = {} /\ rp = -1 /\ ~w
  /\ ld # {} => ld = {e} /\ MatchedAt(f, e)
  /\ rp >= 0 /\ ~w => Walked(rp, NoEntry)

ScanInv == ScanInvAt(pc, i, entry, loaded, reported, warned, found)

\* A name scan that runs past its blob raises gdb.MemoryError instead of
\* reading bytes beyond it as a header (the overrun of trace_overrun
\* excluded).
HeaderOwnInput ==
  \A r \in Registries : \A e \in Entries : ~r.blob[e].terminated => Overrun = {}

\* The inductive invariant of the first-match theorems.
FMInv == TDInv /\ reg \in Registries /\ ScanInv

LEMMA InitTDInv == Init => TDInv
<1> SUFFICES ASSUME Init PROVE TDInv
  OBVIOUS
<1>1. reg \in RegistryType
  BY RegistriesAssumption DEF Init
<1>2. entry \in Entries \cup {NoEntry}
  BY <1>1 DEF Init, RegistryType
<1>3. i \in 0..MaxScan /\ found \in 0..MaxScan /\ reported \in -1..MaxScan
  BY MaxScanAssumption DEF Init
<1>4. warned \in BOOLEAN /\ loaded \subseteq Entries /\ pc \notin {"dump", "add"}
  BY DEF Init
<1>. QED
  BY <1>1, <1>2, <1>3, <1>4 DEF Init, TDInv, TypeOK, MatchOnEntry

\* The registry's next pointers stay in the entries or NULL.
LEMMA NextEntry ==
  ASSUME reg \in RegistryType, entry \in Entries
  PROVE  reg.next[entry] \in Entries \cup {NoEntry}
BY DEF RegistryType

LEMMA TDInvNext == TDInv /\ [Next]_vars => TDInv'
<1> SUFFICES ASSUME TDInv, [Next]_vars PROVE TDInv'
  OBVIOUS
<1>. USE MaxScanAssumption DEF TDInv, TypeOK, MatchOnEntry
<1>1. CASE ScanMiss
  <2>1. entry \in Entries
    BY <1>1 DEF ScanMiss
  <2>. QED
    BY <1>1, <2>1, NextEntry DEF ScanMiss
<1>2. CASE ScanMatch
  BY <1>2 DEF ScanMatch
<1>3. CASE ScanFault
  BY <1>3 DEF ScanFault, AbortTraversal
<1>4. CASE ReportNotFound
  BY <1>4 DEF ReportNotFound
<1>5. CASE DumpBlob
  BY <1>5 DEF DumpBlob
<1>6. CASE DumpFault
  BY <1>6 DEF DumpFault, AbortTraversal
<1>7. CASE DumpFail
  BY <1>7 DEF DumpFail
<1>8. CASE AddSymbols
  BY <1>8 DEF AddSymbols
<1>9. CASE UNCHANGED vars
  BY <1>9 DEF vars
<1>10. CASE AddFail
  BY <1>10 DEF AddFail
<1>. QED
  BY <1>1, <1>2, <1>3, <1>4, <1>5, <1>6, <1>7, <1>8, <1>9, <1>10 DEF Next

\* Type correctness of load-trace-dwarf: the cursor stays on an entry of
\* the registry or NULL, the counter and the reported count stay within
\* the bound, and add-symbol-file is only given real entries.
THEOREM TraceDwarfTypeCorrect == Spec => []TypeOK
<1>1. TDInv => TypeOK
  BY DEF TDInv
<1>. QED
  BY <1>1, InitTDInv, TDInvNext, PTL DEF Spec


-----------------------------------------------------------------------------
(* First match wins: the entry loaded is the first of the list whose own  *)
(* header covers the target, and "nothing relevant found" without the     *)
(* warning means the whole list was read.                                 *)

\* The registry and the target are never written: ScanInv after a step is
\* ScanInvAt of the new phase, cursor and outputs over the same list.
LEMMA ScanInvFrame ==
  ASSUME reg' = reg, target' = target
  PROVE  ScanInv' = ScanInvAt(pc', i', entry', loaded', reported', warned', found')
BY DEF ScanInv, ScanInvAt, Walked, MatchedAt, Chain, ChainEnd, Covers

\* One more entry read: the chain of n entries followed by e, the entry
\* that follows it, is the chain of n + 1 entries.
LEMMA ExtendChain ==
  ASSUME reg \in RegistryType, NEW n \in Nat, NEW p \in Chain(n),
         NEW e \in Entries, ChainEnd(p, n) = e
  PROVE  LET q == [k \in 0..n |-> IF k < n THEN p[k] ELSE e]
         IN  /\ q \in Chain(n + 1)
             /\ q[n] = e
             /\ \A k \in 0..(n - 1) : q[k] = p[k]
             /\ ChainEnd(q, n + 1) = reg.next[e]
<1> DEFINE q == [k \in 0..n |-> IF k < n THEN p[k] ELSE e]
<1>1. p \in [0..(n - 1) -> Entries]
  BY DEF Chain
<1>2. q \in [0..n -> Entries]
  BY <1>1
<1>3. n + 1 > 0 => q[0] = reg.first
  <2>1. CASE n = 0
    BY <2>1 DEF ChainEnd
  <2>2. CASE n > 0
    BY <2>2 DEF Chain
  <2>. QED
    BY <2>1, <2>2
<1>4. \A k \in 0..(n - 1) : q[k + 1] = reg.next[q[k]]
  <2> TAKE k \in 0..(n - 1)
  <2>1. CASE k + 1 < n
    BY <2>1 DEF Chain
  <2>2. CASE k + 1 = n
    BY <2>2 DEF ChainEnd
  <2>. QED
    BY <2>1, <2>2
<1>. QED
  BY <1>2, <1>3, <1>4 DEF Chain, ChainEnd

\* A read entry that does not cover the target extends the scan.
LEMMA WalkStep ==
  ASSUME reg \in RegistryType, NEW n \in Nat, NEW e \in Entries,
         Walked(n, e), ~Covers(reg.blob[e])
  PROVE  Walked(n + 1, reg.next[e])
<1>1. PICK p \in Chain(n) : /\ ChainEnd(p, n) = e
                            /\ \A j \in 0..(n - 1) : ~Covers(reg.blob[p[j]])
  BY DEF Walked
<1> DEFINE q == [k \in 0..n |-> IF k < n THEN p[k] ELSE e]
<1>2. /\ q \in Chain(n + 1)
      /\ q[n] = e
      /\ \A k \in 0..(n - 1) : q[k] = p[k]
      /\ ChainEnd(q, n + 1) = reg.next[e]
  BY <1>1, ExtendChain
<1>3. \A j \in 0..n : ~Covers(reg.blob[q[j]])
  BY <1>1, <1>2
<1>. QED
  BY <1>2, <1>3 DEF Walked

\* A read entry that covers the target is the first match.
LEMMA MatchStep ==
  ASSUME reg \in RegistryType, NEW n \in Nat, NEW e \in Entries,
         Walked(n, e), Covers(reg.blob[e])
  PROVE  MatchedAt(n + 1, e)
<1>1. PICK p \in Chain(n) : /\ ChainEnd(p, n) = e
                            /\ \A j \in 0..(n - 1) : ~Covers(reg.blob[p[j]])
  BY DEF Walked
<1> DEFINE q == [k \in 0..n |-> IF k < n THEN p[k] ELSE e]
<1>2. /\ q \in Chain(n + 1)
      /\ q[n] = e
      /\ \A k \in 0..(n - 1) : q[k] = p[k]
  BY <1>1, ExtendChain
<1>3. \A j \in 0..((n + 1) - 2) : ~Covers(reg.blob[q[j]])
  BY <1>1, <1>2
<1>4. n + 1 > 0 /\ q[(n + 1) - 1] = e /\ Covers(reg.blob[e])
  BY <1>2
<1>. QED
  BY <1>2, <1>3, <1>4 DEF MatchedAt

\* Without an overrun, the only header an entry yields is its own.
LEMMA OwnHeader ==
  ASSUME HeaderOwnInput, reg \in Registries, NEW e \in Entries,
         NEW h \in Headers(e)
  PROVE  h = reg.blob[e] /\ (InRange(h) <=> Covers(reg.blob[e]))
<1>1. reg.blob[e].terminated
  BY DEF HeaderOwnInput, Headers
<1>2. h = reg.blob[e]
  BY <1>1 DEF Headers
<1>. QED
  BY <1>2 DEF InRange, Covers

LEMMA InitFMInv == Init => FMInv
<1> SUFFICES ASSUME Init PROVE FMInv
  OBVIOUS
<1>1. TDInv /\ reg \in Registries
  BY InitTDInv DEF Init
<1>2. Walked(0, entry)
  <2>1. [k \in 0..(0 - 1) |-> reg.first] \in Chain(0)
    BY DEF Chain
  <2>. QED
    BY <2>1 DEF Init, Walked, ChainEnd
<1>. QED
  BY <1>1, <1>2 DEF Init, FMInv, ScanInv, ScanInvAt

LEMMA FMInvNext ==
  ASSUME HeaderOwnInput
  PROVE  FMInv /\ [Next]_vars => FMInv'
<1> SUFFICES ASSUME FMInv, [Next]_vars PROVE FMInv'
  OBVIOUS
<1>0. /\ TDInv'
      /\ reg \in RegistryType /\ reg \in Registries /\ i \in Nat
      /\ entry \in Entries \cup {NoEntry}
      /\ reg' = reg /\ target' = target
  BY TDInvNext, MaxScanAssumption
  DEF FMInv, TDInv, TypeOK, Next, vars, ScanMiss, ScanMatch, ScanFault,
      ReportNotFound, DumpBlob, DumpFault, DumpFail, AddSymbols, AddFail
<1>1. ScanInv' = ScanInvAt(pc', i', entry', loaded', reported', warned', found')
  BY <1>0, ScanInvFrame
<1>2. ScanInvAt(pc, i, entry, loaded, reported, warned, found)
  BY DEF FMInv, ScanInv
<1>3. ScanInvAt(pc', i', entry', loaded', reported', warned', found')
  <2>1. CASE ScanMiss
    <3>1. entry \in Entries /\ pc = "loop"
      BY <1>0, <2>1, NoEntryAssumption DEF ScanMiss
    <3>2. ~Covers(reg.blob[entry])
      BY <1>0, <2>1, <3>1, OwnHeader DEF ScanMiss
    <3>3. Walked(i + 1, reg.next[entry])
      BY <1>0, <1>2, <3>1, <3>2, WalkStep DEF ScanInvAt
    <3>. QED
      BY <1>2, <2>1, <3>1, <3>3 DEF ScanMiss, ScanInvAt
  <2>2. CASE ScanMatch
    <3>1. entry \in Entries /\ pc = "loop"
      BY <1>0, <2>2, NoEntryAssumption DEF ScanMatch
    <3>2. Covers(reg.blob[entry])
      BY <1>0, <2>2, <3>1, OwnHeader DEF ScanMatch
    <3>3. MatchedAt(i + 1, entry)
      BY <1>0, <1>2, <3>1, <3>2, MatchStep DEF ScanInvAt
    <3>. QED
      BY <1>2, <2>2, <3>1, <3>3 DEF ScanMatch, ScanInvAt
  <2>3. CASE ScanFault
    BY <1>2, <2>3 DEF ScanFault, AbortTraversal, ScanInvAt
  <2>4. CASE ReportNotFound
    BY <1>2, <2>4 DEF ReportNotFound, ScanInvAt
  <2>5. CASE DumpBlob
    BY <1>2, <2>5 DEF DumpBlob, ScanInvAt
  <2>6. CASE DumpFault
    BY <1>2, <2>6 DEF DumpFault, AbortTraversal, ScanInvAt
  <2>7. CASE DumpFail
    BY <1>2, <2>7 DEF DumpFail, ScanInvAt
  <2>8. CASE AddSymbols
    BY <1>2, <2>8 DEF AddSymbols, ScanInvAt
  <2>9. CASE UNCHANGED vars
    BY <1>2, <2>9 DEF vars
  <2>10. CASE AddFail
    BY <1>2, <2>10 DEF AddFail, ScanInvAt
  <2>. QED
    BY <2>1, <2>2, <2>3, <2>4, <2>5, <2>6, <2>7, <2>8, <2>9, <2>10 DEF Next
<1>. QED
  BY <1>0, <1>1, <1>3 DEF FMInv, ScanInv

LEMMA AlwaysFMInv ==
  ASSUME HeaderOwnInput
  PROVE  Spec => []FMInv
BY InitFMInv, FMInvNext, PTL DEF Spec

\* First match wins: when no name scan reads past its blob, the object file
\* load-trace-dwarf hands to add-symbol-file is that of the first entry of
\* the registry's list whose own header covers the target, and "FOUND"
\* prints its position.
THEOREM LoadedIsFirstMatchHolds ==
  ASSUME HeaderOwnInput
  PROVE  Spec => []LoadedIsFirstMatch
<1>1. FMInv => LoadedIsFirstMatch
  <2> SUFFICES ASSUME FMInv, loaded # {} PROVE LoadedIsFirstMatch!2
    BY DEF LoadedIsFirstMatch
  <2>1. loaded = {entry} /\ MatchedAt(found, entry)
    BY DEF FMInv, ScanInv, ScanInvAt
  <2>. QED
    BY <2>1 DEF MatchedAt
<1>. QED
  BY <1>1, AlwaysFMInv, PTL

\* "<i> entries scanned, nothing relevant found" without the memory-error
\* warning is only printed after load-trace-dwarf has read the whole list:
\* <i> is its length and no entry's header covers the target.
THEOREM NotFoundIsExhaustiveHolds ==
  ASSUME HeaderOwnInput
  PROVE  Spec => []NotFoundIsExhaustive
<1>1. FMInv => NotFoundIsExhaustive
  BY DEF FMInv, ScanInv, ScanInvAt, NotFoundIsExhaustive, Walked
<1>. QED
  BY <1>1, AlwaysFMInv, PTL


-----------------------------------------------------------------------------
(* The refinement: load-trace-dwarf implements TraceLocate.  The abstract *)
(* first match and exhaustion are MatchedAt and Walked over the same      *)
(* registry, so FMInv carries the whole argument.                         *)

\* A match established by the scan is TraceLocate's first match.
LEMMA MatchedIsFirstMatch ==
  ASSUME NEW n, NEW e, MatchedAt(n, e)
  PROVE  Locate!FirstMatch(e, n)
BY DEF MatchedAt, Locate!FirstMatch, Chain, Locate!Chain, Covers, Locate!Covers

\* A scan that has walked to NULL has exhausted the list.
LEMMA WalkedIsExhausted ==
  ASSUME NEW n, Walked(n, NoEntry)
  PROVE  Locate!Exhausted(n)
BY DEF Walked, Locate!Exhausted, Chain, Locate!Chain, ChainEnd, Locate!ChainEnd,
       Covers, Locate!Covers

\* While the loop, the dump or add-symbol-file is running, no result is out.
LEMMA RunningIsPending ==
  ASSUME pc \in {"loop", "dump", "add"}
  PROVE  Outcome = Locate!Pending
BY DEF Outcome, Locate!Pending

\* A memory error, in the loop or in the dump, is TraceLocate's Abort.
LEMMA AbortRefines ==
  ASSUME FMInv, pc \in {"loop", "dump"}, pc' = "done", warned' = TRUE,
         loaded' = loaded, reg' = reg, target' = target
  PROVE  Locate!Abort
<1>1. loaded = {}
  BY DEF FMInv, ScanInv, ScanInvAt
<1>2. Outcome' = Locate!Aborted
  BY <1>1 DEF Outcome, Locate!Aborted
<1>. QED
  BY <1>2, RunningIsPending DEF Locate!Abort

\* Reaching the NULL entry reports TraceLocate's not-found with the count.
LEMMA NotFoundRefines ==
  ASSUME FMInv, ReportNotFound
  PROVE  Locate!ReportNotFound
<1>1. Walked(i, NoEntry) /\ loaded = {} /\ ~warned /\ i \in Nat
  BY MaxScanAssumption DEF ReportNotFound, FMInv, ScanInv, ScanInvAt, TDInv, TypeOK
<1>2. Outcome' = Locate!NotFound(i)
  BY <1>1 DEF ReportNotFound, Outcome, Locate!NotFound
<1>3. Locate!IsNotFound(Locate!NotFound(i)) /\ Locate!Exhausted(i)
  BY <1>1, WalkedIsExhausted DEF Locate!IsNotFound, Locate!NotFound
<1>4. Outcome = Locate!Pending
  BY RunningIsPending DEF ReportNotFound
<1>5. \E r \in {Outcome'} : Locate!IsNotFound(r) /\ Locate!Exhausted(r.count)
  BY <1>2, <1>3 DEF Locate!NotFound
<1>. QED
  BY <1>4, <1>5 DEF ReportNotFound, Locate!ReportNotFound

\* add-symbol-file on the accepted entry is TraceLocate's Locate.
LEMMA AddRefines ==
  ASSUME FMInv, AddSymbols
  PROVE  Locate!Locate
<1>1. /\ MatchedAt(i, entry) /\ found = i /\ loaded = {}
      /\ entry \in Entries /\ found \in Nat
  BY MaxScanAssumption DEF AddSymbols, FMInv, ScanInv, ScanInvAt, TDInv, TypeOK,
                           MatchOnEntry
<1>2. Outcome' = Locate!Match(entry, found)
  BY <1>1 DEF AddSymbols, Outcome, Locate!Match
<1>3. Locate!IsMatch(Locate!Match(entry, found))
      /\ Locate!FirstMatch(entry, found)
  BY <1>1, MatchedIsFirstMatch DEF Locate!IsMatch, Locate!Match
<1>4. Outcome = Locate!Pending
  BY RunningIsPending DEF AddSymbols
<1>5. \E r \in {Outcome'} : Locate!IsMatch(r) /\ Locate!FirstMatch(r.entry, r.index)
  BY <1>2, <1>3 DEF Locate!Match
<1>. QED
  BY <1>4, <1>5 DEF AddSymbols, Locate!Locate

\* load-trace-dwarf implements locate when no name scan reads past its
\* blob: every step of the traversal, the dump and add-symbol-file is a
\* step of TraceLocate or leaves its result unchanged, and once a result
\* (the first covering entry, a not-found with the list's length, an abort
\* or a failure) is out, no step changes it.
THEOREM ImplementsLocate ==
  ASSUME HeaderOwnInput
  PROVE  Spec => Locate!ASafeSpec
<1>1. Init => Locate!AInit
  BY DEF Init, Locate!AInit, Outcome, Locate!Pending
<1>2. FMInv /\ [Next]_vars => [Locate!ANext]_Locate!avars
  <2> SUFFICES ASSUME FMInv, [Next]_vars PROVE [Locate!ANext]_Locate!avars
    OBVIOUS
  <2>1. CASE ScanMiss \/ ScanMatch \/ DumpBlob
    <3>1. pc \in {"loop", "dump", "add"} /\ pc' \in {"loop", "dump", "add"}
          /\ reg' = reg /\ target' = target
      BY <2>1 DEF ScanMiss, ScanMatch, DumpBlob
    <3>2. Outcome' = Outcome
      BY <3>1, RunningIsPending DEF Outcome, Locate!Pending
    <3>. QED
      BY <3>1, <3>2 DEF Locate!avars
  <2>2. CASE ScanFault \/ DumpFault
    BY <2>2, AbortRefines DEF ScanFault, DumpFault, AbortTraversal, Locate!ANext
  <2>3. CASE ReportNotFound
    BY <2>3, NotFoundRefines DEF Locate!ANext
  <2>4. CASE DumpFail \/ AddFail
    <3>1. pc \in {"dump", "add"} /\ pc' = "failed" /\ reg' = reg /\ target' = target
      BY <2>4 DEF DumpFail, AddFail
    <3>2. Outcome = Locate!Pending
      BY <3>1, RunningIsPending
    <3>3. Outcome' = Locate!Failed
      BY <3>1 DEF Outcome, Locate!Failed
    <3>. QED
      BY <3>1, <3>2, <3>3 DEF Locate!Fail, Locate!ANext
  <2>5. CASE AddSymbols
    BY <2>5, AddRefines DEF Locate!ANext
  <2>6. CASE UNCHANGED vars
    BY <2>6 DEF vars, Locate!avars, Outcome
  <2>. QED
    BY <2>1, <2>2, <2>3, <2>4, <2>5, <2>6 DEF Next
<1>. QED
  BY <1>1, <1>2, AlwaysFMInv, PTL DEF Spec, Locate!ASafeSpec

=============================================================================
