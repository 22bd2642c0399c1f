# TLA+ models of `src/tools/ujit-gdb.py`

`ujit-gdb.py` is a gdb extension for post-mortem analysis of uJIT (LuaVela).
It inspects the memory image of a stopped or crashed process and never writes
to it. Its state is the cursors and counters of each command while it runs,
and the lines the command prints. These modules model the commands that run
a loop over the image: they walk the Lua stack, scan a table's hash part
and walk the JIT debug registry.
The image is a CONSTANT-chosen input that nothing writes.

## The parts and how they interact

| Part (code) | Module | Status |
|---|---|---|
| Frame-link, bytecode-operand and tag decoding (`frame_*`, `lj_bc_mode`, `bcmode_a`, `isx2_*`, `bc_a`, `x2_decode_r`, `frame_deltal`, `tagisvalid`, lines 10-298) | `FrameLink` | modelled |
| `uj-stack`: `dump_stack`, `print_stack_slot`, `print_framelink`, `dump_tvalue` (lines 314-482) | `StackDump`, abstract spec `StackScan`, proofs in `StackDumpProofs` | modelled |
| `uj-stack-vm` (`UJDumpStackVM`, `is_in_vm`, `funcproto`) | `StackDumpVM`, abstract spec `StackScan`, proofs in `StackDumpVMProofs` | modelled |
| `load-trace-dwarf` (`LoadTraceDwarf`, lines 849-926) | `TraceDwarf`, abstract spec `TraceLocate`, proofs in `TraceDwarfProofs` | partly |
| `uj-tab-collisions` (`UJTABCOLLISIONS`, lines 743-783) | `TabCollisions`, abstract spec `CollisionReport`, proofs in `TabCollisionsProofs` | modelled |
| `uj-tab`, `uj-str`, `uj-tv`, `uj-global-state`, `uj-bc`, gdb helpers | — | not modelled |

`uj-stack` and `uj-stack-vm` share `dump_stack`, and `dump_stack` uses the
decoders in `FrameLink`. `StackDumpVM` EXTENDS `StackDump`: the VM command
runs its own checks and unwinding first, and then takes `dump_stack`'s
actions unchanged. `StackDump` INSTANCEs `StackScan` to state that it
implements it, and `StackDumpVM` INSTANCEs it again for the whole VM
command. `TraceDwarf` INSTANCEs `TraceLocate`, and `TabCollisions`
INSTANCEs `CollisionReport`, in the same way.
`load-trace-dwarf` and `uj-tab-collisions` share nothing with
the others.

### `FrameLink`

A machine word is the integer it denotes as a signed int64. `& (2^k - 1)` is
`% 2^k`, and `>>` is `\div`: both are floored, as Python's operators are on
negative numbers. This matters for the size field of a corrupt negative link.
`lj_bc_mode` is defined only on the twelve opcodes the code knows. For any
other opcode the code computes `"not_found" & 7` and raises TypeError. The
model treats that as an error outcome (`PrevFault`); it is not an assertion.

### `StackDump`

An image is a record `[stack, base, top, frames]`:

- `stack`: for each slot 0..MaxSlot, its two words `[gcr, w1]`;
- `frames`: the slots where the VM laid a live frame link. This is ghost
  information that the properties use and the code never reads.

`Heap` gives each object its `gct` and whether its memory is readable.
`Code` gives the instruction word at a return pc.

| Variable | Code |
|---|---|
| `framelink`, `slot` | `dump_stack`'s two cursors |
| `printed` | the set of output lines, each a `(slot, kind)` record |
| `last` | the slot of the last line printed |
| `pc` | `walk`, `done`, or the exception that ended the command |

Actions:

- `PrintValue`, `PrintInvalid`, `PrintDeadFrame`, `InvalidSlotFault`: one
  call of `print_stack_slot` each. This covers a valid tag; an invalid tag
  over a non-function; an invalid tag over a function, printed through
  `print_framelink(FRAME_DEAD)`; and a read that raises.
- `FrameStep`, `FrameFault`: one iteration of the outer loop, up to
  `slot -= 1`. `frame_prev` is evaluated before `print_framelink`, as in
  the code.
- `Finish`: the final `print_framelink(L, L['stack'])`.

`gdb.MemoryError` and TypeError are not caught anywhere in `uj-stack`, so
each one is a terminal `pc`.

`dump_tvalue` reads the object behind a slot only for functions
(`dump_gcfunc` reads `ffid`) and traces (`traceno`). For a string it calls
`strdata`, which formats a `char *` with `str()`. gdb renders unreadable
memory as `<error: ...>` without raising. So `DumpReadsObj` is true only
for those two tags.

### `StackScan`: what `dump_stack` promises

`StackScan` is the abstract specification of the walk. A cursor moves down
from `top - 1`, one line per slot. A line is FRAME exactly at a live link,
and one of the other kinds elsewhere. Lines are printed while some live link
lies at or below the cursor. Then the closing dummy frame is printed, and
the scan is done. At any step the scan may abort, which stands for an
exception.

`StackDump` maps its state onto it:

```
Abs == INSTANCE StackScan
         WITH aimg <- img, cursor <- slot, out <- printed, state <- ScanState
```

`ScanState` is `"scan"` while `pc = "walk"`, `"done"` at the end, and
`"aborted"` after an exception. A `print_framelink` step of the inner loop
maps to `Line` at the link's slot, because the code's `slot -= 1` follows it
in the same action. `ScanRefinement == Abs!ASpec`, the abstract spec with
weak fairness, is a property of the `stack_dump` run.

### `StackDumpVM`

- `CheckVM`: `is_in_vm`. The frame name is a bytecode handler, another
  function, or None. None raises AttributeError.
- `ReadProto`: reads the prototype.
- `Unwind`, `UnwindFault`: the `while pcr(framelink) != 0` loop, with its
  own cursor `vmlink`.
- `StartDump`: reads `L` and moves on to `dump_stack`'s actions.

`AbsVM` instantiates `StackScan` again, with the scan's state mapped by
`ScanStateVM`: `scan` from `check` through the dump, `done` at `done`, and
`aborted` for every other stop (no VM frame, AttributeError, a fault).
The cursor starts at `base + framesize - 1`, the slot `dump_stack` is
given. `VMScanRefinement == AbsVM!ASpec` is a property of the `stack_vm`
run: the checks and the unwinding print nothing, and the command as a
whole performs the top-down scan.

### `TraceDwarf`

A registry is `[first, next, blob]`: `first_entry`, `next_entry`, and what
reading each entry's object file yields. That is:

- readability;
- whether `DW_AT_name` ends inside the blob;
- `low_pc` and `high_pc`;
- whether the whole file can be dumped.

When the name scan runs past the blob, the header read returns a pair from
`Overrun`, which stands for other memory.

| Variable | Code |
|---|---|
| `entry`, `i` | the loop cursor and the counter |
| `found` | "FOUND: i" |
| `loaded` | what add-symbol-file loaded |
| `warned` | the traversal-aborted warning |
| `reported` | "i entries scanned, nothing relevant found" |

Actions:

- `ScanMiss`, `ScanMatch`, `ScanFault`: one loop iteration.
- `ReportNotFound`: the loop reached the NULL entry.
- `DumpBlob`, `DumpFault`, `DumpFail`: the dump command and its failures.
- `AddSymbols`: add-symbol-file; `AddFail`: add-symbol-file rejects the
  dumped file and `gdb.error` ends the command.

A `gdb.MemoryError` raised inside the dump is caught by the handler around
the loop. The model follows the code here.

The properties speak of the list through `Chain(n)`: the functions `p` from
`0..n-1` to entries with `p[0] = first_entry` and each `p[k+1]` the
`next_entry` of `p[k]`. The list is determined by the registry, so
`Chain(n)` holds at most one chain, and "the first n entries are ..." is
`\E p \in Chain(n) : ...`. An earlier version used a recursive function
`ListAt`; the chain states the same thing without recursion, so that the
properties can be proved.

### `TraceLocate`: what `load-trace-dwarf` promises

`TraceLocate` is the `locate(target, registry) -> TraceMatch | NotFound`
contract of `spec.md` section 4.4, as the code keeps it. Its variables are
the registry, the target and one result, `Pending` at first. One step sets
the result, and nothing changes it afterwards:

- `Locate`: `Match(e, n)`, where `e` is the `n`-th entry of the list, it
  covers the target, and no earlier entry does (`FirstMatch`);
- `ReportNotFound`: `NotFound(n)`, where the list has `n` entries and none
  covers the target (`Exhausted`);
- `Abort`: a memory error, with the warning;
- `Fail`: any other `gdb.error`.

`TraceDwarf` maps its state onto it with `Outcome`:

- `Pending` while `pc` is `loop`, `dump` or `add`;
- at `done`: a match on the cursor's entry at index `found` if
  add-symbol-file ran, `Aborted` if the warning was printed, and otherwise
  `NotFound(reported)`;
- at `failed`: `Failed`.

`LocateRefinement == Locate!ASpec` is a property of the `trace_dwarf` run.
`ASpec` requires that the result is eventually not `Pending`. `Abort` is
enabled in every pending state, so this is what weak fairness of `ANext`
would require. It is written without `ENABLED` because TLC cannot evaluate
`ENABLED` through a substitution of `outcome` by an expression.

### `TabCollisions`

The state is the table (never written), the loop index `i`, the dict
`collides` (a function from string objects to sequences of node indexes),
the set of nodes reported as "Not a string key", the keys reported, `count`
and `pc`.

- `Start` reads the header.
- `ScanNil`, `ScanOther`, `ScanStr` and `ScanFault` are the four outcomes of
  one iteration of the node loop. `ScanFault` is the read of an unmapped
  node.
- `ScanEnd` leaves the loop.
- `ReportKey` is one iteration over the keys found at two or more nodes.
  The order of a Python dict is left open.
- `Finish` prints the count.

`strdata(key)` formats a `char *` with `str()`, and gdb prints a `char *` as
its address followed by the text. So two nodes share a dict entry exactly
when they reference the same string object, and a key is modelled by that
object.

The code passes `key`, the whole TValue, to `strdata`, not `key['gcr']`.
The model assumes that gdb's cast reads the string pointer held in the
key's first word.

Because keys are grouped by object, the command reports a key only when
the same object is stored at two or more nodes. That happens only in a
corrupt table. It does not report keys whose main positions collide, which
would need the string hash. Collision reporting is out of the scope of
`spec.md`, so this is recorded here and not as a finding.

### `CollisionReport`: what `uj-tab-collisions` promises

`CollisionReport` states the command's output without the loop index and
the dict. Its variables are the table, the nodes announced as "Not a
string key", the keys reported, the count and a phase (`running`, `done`,
`aborted`).

- `NotString`: announce one more node whose key is neither nil nor a
  string, before any key is reported.
- `Report`: once every such node is announced, report one more key held
  by two different nodes (`Colliding`), and count it.
- `Finish`: once exactly the colliding keys are reported, print the count.
- `Abort`: a memory error, possible only before the report starts.

`TabCollisions` maps its own variables onto it, and its `pc` onto the
phase with `Phase`: `done` at `done`, `aborted` at `memerr`, and
`running` otherwise. Reading the header, scanning a nil or string key,
and leaving the loop are stutters. `ReportRefinement == Report!ASpec` is a
property of the `tab_collisions` run. Its liveness part, `<>(phase #
"running")`, is weak fairness of `ANext`, written without `ENABLED` for
the reason given for `TraceLocate`.

## Runs

| Run | Result | What it shows |
|---|---|---|
| `stack_dump` (`MCStackDump.cfg`) | pass, 26 560 states | Checks `TypeOK`, `PartialDumpSound`, `DumpComplete`, and `PrintsDescend` on every well-formed four-slot layout, and on layouts whose current link cannot be decoded. `ScanRefinement`: every behaviour implements `StackScan`, including its weak fairness, so the dump ends. |
| `stack_vm` (`MCStackDumpVM.cfg`) | pass, 59 204 states | The unwinding reaches the sentinel (`UnwindFindsStack`), so the coroutine dumped owns the stack. The dump from the VM's base is complete. The whole command implements `StackScan` from the VM stack top, including its eventual end (`VMScanRefinement`). |
| `tab_collisions` (`MCTabCollisions.cfg`) | pass, 4 604 states | On every table of one to four nodes, `ScanAccounts` holds: the dict holds exactly the nodes of each string key scanned so far, in ascending order, and the non-string lines name exactly the other non-nil nodes. The keys printed are exactly the string keys held by two different nodes (`CollidingKeysReported`), and the count printed is their number (`CountIsCollidingKeys`). The command implements `CollisionReport`, including its eventual end (`ReportRefinement`). |
| `trace_dwarf` (`MCTraceDwarf.cfg`) | pass, 95 006 states | The entry loaded is the first whose own header covers the target (`LoadedIsFirstMatch`). "Nothing relevant found" without a warning means the whole list was scanned and its length reported (`NotFoundIsExhaustive`). The command implements `TraceLocate`, including its eventual result (`LocateRefinement`). |
| `stack_corrupt_link` | violation of `WalkDescends` | A C link of size 0 or a negative size keeps the frame cursor in place or raises it. There is no step budget, so the loop never ends. |
| `stack_vm_nameless_frame` | violation of `OutsideVMIsReported` | When the newest frame has no symbol, as in JIT-compiled trace code, `name()` is None. `uj-stack-vm` then stops with AttributeError instead of printing its "should only be called from VM" hint. |
| `stack_unreadable` | violation of `StackScanSurvivesUnreadable` | One unreadable object ends the whole dump. |
| `stack_bottom_span` | violation of `DumpsEverySpan` | The slots below the lowest live frame link are never printed. |
| `trace_cyclic` | violation of `ScanBounded` | A cyclic `next_entry` chain is scanned forever. |
| `trace_overrun` | violation of `LoadedIsFirstMatch` | A name without a NUL makes the reader take `low_pc`/`high_pc` from beyond the blob, and a non-covering entry is loaded. |
| `trace_dump_fault` | violation of `FoundNotDenied` | A failed dump after "FOUND" is reported as "nothing relevant found". |

Each violation is recorded as a finding in `PROJECT.json`, against the line
of code and the section of `spec.md` it contradicts.

Every property of a passing run has a mutant in `PROJECT.json`: a plausible
bug in the mapped code that TLC catches.

| Mutant | Plausible bug |
|---|---|
| `frame_sized_shift3` | the size field shifted by 3 |
| `x2_decode_r_nohalve` | the x2 operand not halved |
| `FrameStep_nodec` | the missing `slot -= 1` |
| `Init_slot_at_top` | `slot = top` |
| `StartDump_anylink` | the dump started before the zero link |
| `InRange_inclusive` | an inclusive `high_pc` |
| `ScanMiss_nocount` | the counter not advanced |
| `AddSymbols_next` | the wrong entry loaded |
| `x2_decode_r_nohalve` (for `ScanRefinement` and `VMScanRefinement`) | a mis-sized Lua frame, which prints a FRAME line at a non-link slot |
| `ScanOther_next` | the wrong node index written for a non-string key |
| `ScanStr_replace` | `setdefault` dropped, so an entry is replaced |
| `ReportKey_any` | `len(...) > 1` written as `>= 1` |
| `ReportKey_samecount` | `count += 1` left out |
| `ScanOther_silent` | the "Not a string key" line left out (`ReportRefinement`) |
| `DumpFail_done` | a `gdb.error` of the dump swallowed, the command ending as if it had finished |

## Bounds and why they are enough

### `MCStackDump`

The stack has four slots (0..3). That allows up to three live frames above
the sentinel, every `top` from just above the current frame to the end of
the stack, and an empty span.

Frame links cover:

- each link type, C, CONT and PCALL|VARG (type bits 1, 2 and 7);
- Lua links through a `BC_CALL`, `BC_CALLM` or `BC_CALLT` site, so both
  operand modes of `lj_bc_mode` are decoded;
- readable and unreadable frame functions.

Free slots hold:

- nil, a string, an unreadable function and a table;
- stale links over a function: C, Lua, zeroed, an unknown opcode, and code
  outside the image;
- invalid tags over a table and over NULL.

So every branch of `print_stack_slot`, `print_framelink` and `frame_prev`
is taken. Frames are at most 3 slots apart, which exercises
`frame_deltal = 1 + A/2` for A = 0, 2 and 4.

The 10 128 images are built slot by slot, each stage a single set
comprehension over the previous stage and the slot's contents (`Stacks`).
A union of large sets of records is merged element by element by TLC, and
took most of a run's time.

### `MCTraceDwarf`

- three entries;
- registries that are every NULL-terminated list over them;
- blobs that are in range, out of range, unreadable, undumpable, or without
  a NUL;
- two targets, so that a blob covers one target and misses the other.

`MaxScan = 4` is above the longest acyclic list, so the guard `i < MaxScan`
never cuts a run short. It exists only for the cyclic run, where the
counter would otherwise grow without bound.

### `MCTabCollisions`

The tables are:

- one with an unmapped header;
- every hash part of one to four nodes (`hmask` 0..3) whose keys are drawn
  from nil, string `S1`, string `S2`, a number and an unmapped node.

So a key can be found at 0 to 4 nodes. Both strings can collide in the same
table. An unmapped node can follow any prefix of the scan.

## Fairness

Each command is one synchronous Python call inside gdb. No other actor runs
while it does, and the inspected process is stopped. Once the command has
started, it keeps taking steps, so each `Spec` is weakly fair on its whole
`Next`. That each command ends is stated as the eventuality of its abstract
specification (`<>(state # "scan")` and the like), which each refinement
property includes; there is no separate termination property. No fairness
is assumed between actions, because there is only one
actor. The passing runs set `CHECK_DEADLOCK FALSE`: a command that has ended
(`done`, or an exception) stops, which is the terminal state and not a
deadlock.

## What is proved (TLAPS)

### `StackDumpProofs`

Each theorem holds for every `MaxSlot`, heap, code map and set of input
images, under the hypothesis `WellFormedInput == Images \subseteq
WellFormedImages`. It says that the image is one the VM lays out:

- the sentinel link at slot 0 is zero;
- every live link is 1..128 slots above the frame below it, with no live
  link between them;
- a C/CONT/PCALL link encodes that distance as `16 * d + type`;
- a Lua link is a return pc after a call instruction whose A operand
  decodes to that distance.

The MC module checks, as an ASSUME, that every layout it generates
satisfies this.

| Theorem | Statement |
|---|---|
| `TypeCorrect` | `Spec => []TypeOK` |
| `PartialDumpIsSound` | `Spec => []PartialDumpSound`: whenever the dump stops, every line printed says FRAME exactly at a live link, and nothing is printed at or above top |
| `DumpIsComplete` | `Spec => []DumpComplete`: a dump that completes has printed exactly the frame spans and the dummy frame |
| `OutputDescends` | `Spec => PrintsDescend`: every line is below the previous one |

The inductive invariant is
`IInv == TypeOK /\ CursorInv /\ PartialDumpSound /\ ProgressInv /\ DumpComplete`.

- `CursorInv`: the frame cursor is a live link or 0, and no live link lies
  between the two cursors.
- `ProgressInv`: exactly the slots above the slot cursor have been printed.

Neither property is inductive alone. `PartialDumpSound` needs `CursorInv`
to know that a slot printed by `print_stack_slot` is not a live link.
`DumpComplete` needs `ProgressInv`.

The step proof rests on these lemmas:

- `FramePrevLive`: `frame_prev` of a live link is the next live link down,
  and decoding it cannot fault.
- `NonLuaLinkDecode`, `LuaLinkIsLua`, `CallOpsX2`, `CallSiteDelta`: the
  bit-level decoding lemmas that `FramePrevLive` uses.

`IInv` was first checked as a TLC invariant. The proof has one lemma per
action: `ScanStep`, `FaultStep`, `FrameStepIInv` and `FinishIInv`.

`ImplementsScan` proves `Spec => Abs!ASafeSpec` under `WellFormedInput`.
`ASafeSpec` is `StackScan`'s initial condition and next-state relation,
without fairness. The proof goes through these steps:

- The initial state maps to `AInit`.
- Each `print_stack_slot` action maps to `Line` (`LineRefines`). `IInv`
  supplies the fact that the slot is not a live link, and that a live link
  lies at or below the cursor.
- `FrameStep` maps to `Line` at the link (`FrameStepRefines`).
- `Finish` maps to `Close` (`FinishRefines`).
- A fault maps to `Abort` (`FaultRefines`).

These cases are collected in `NextRefines`: under `IInv`, every step of
`Next` is a step of `Abs!ANext` or a stutter. `ImplementsScan` and
`ImplementsScanVM` both cite it.

### `StackDumpVMProofs`

`VMTypeCorrect` proves `SpecVM => []TypeOKVM`, and `UnwindReachesStack`
proves `SpecVM => []UnwindFindsStack`, both under `WellFormedInput`.
`VMDumpIsComplete` proves `SpecVM => []DumpComplete` from the same
invariant. The
inductive invariant `VMInv` has several parts:

- The unwinding cursor is a live link or the sentinel.
- Before the dump starts, `dump_stack`'s variables keep their initial
  values.
- From then on, `IInv` holds.
- `UnwindFindsStack` holds.

It rests on `FramePrevLive`, and on `ZeroLinkIsSentinel`: the only link
with a zero `pcr` is the sentinel's.

`ImplementsScanVM` proves `SpecVM => AbsVM!ASafeSpec` under
`WellFormedInput`: `uj-stack-vm` implements `StackScan`. The proof is
`ImplementsScan`'s argument extended to the whole command:

- `InitVM` maps to `AInit`: the phase `check` maps to `scan`, nothing is
  printed, and the cursor is the top slot.
- `PreStepRefines`: a step before the dump writes neither the image, the
  cursor nor the output. If it stays in the checks or starts the dump it
  is a stutter; if it stops the command it is `Abort`. `FrameNames` and
  `PrevFaultRange` give the phases each action can reach.
- A step of `dump_stack` starts at `walk`, where `VMInv` gives `IInv`.
  `NextRefines` makes it a step of `Abs!ANext`. Before and after it the
  phase is one of `walk`, `done`, `memerr`, `typeerr`, where `ScanState`
  and `ScanStateVM` agree (`DumpPhases`), so it is a step of `AbsVM!ANext`
  (`SameScanState`).

### `TraceDwarfProofs`

`TraceDwarfTypeCorrect` proves `Spec => []TypeOK` for every registry and
bound. `TypeOK` alone is not inductive. It is strengthened with
`MatchOnEntry`: past a match, the cursor is an entry and not NULL.

The other theorems hold under the hypothesis `HeaderOwnInput`: an entry's
`DW_AT_name` that does not end inside its blob yields no header from
beyond it (`Overrun = {}`). Without it, `trace_overrun` shows that a
non-covering entry can be loaded.

| Theorem | Statement |
|---|---|
| `LoadedIsFirstMatchHolds` | `Spec => []LoadedIsFirstMatch`: the file add-symbol-file loads is that of the first entry of the list whose own header covers the target, at the index "FOUND" printed |
| `NotFoundIsExhaustiveHolds` | `Spec => []NotFoundIsExhaustive`: "nothing relevant found" without the warning comes after the whole list was read, with its length |
| `ImplementsLocate` | `Spec => Locate!ASafeSpec`: `load-trace-dwarf` implements `TraceLocate` without its liveness part |

The inductive invariant is `FMInv == TDInv /\ reg \in Registries /\ ScanInv`.
`ScanInv` says what each phase has established:

- in the loop, the first `i` entries were read, none covers the target,
  and the cursor is the pointer that follows them (`Walked(i, entry)`);
- in the dump and in add-symbol-file, the cursor is the `i`-th entry, it
  covers the target, no earlier entry does (`MatchedAt(i, entry)`), and
  `found = i`;
- whatever was loaded is the cursor's entry and a first match;
- a count reported without the warning is the length of a fully walked
  list.

The properties alone are not inductive. They speak only of the end of the
command, and the loop needs the facts about the prefix already read.

Lemmas:

- `ExtendChain`: the chain of `n` entries followed by its next pointer is
  the chain of `n + 1` entries.
- `WalkStep`, `MatchStep`: a miss extends `Walked`; a hit gives `MatchedAt`.
- `OwnHeader`: under `HeaderOwnInput`, the only header an entry yields is
  its own.
- `ScanInvFrame`: no step writes the registry, so `ScanInv'` is `ScanInvAt`
  of the new phase, cursor and outputs.

For the refinement, `TraceLocate`'s `FirstMatch` and `Exhausted` are
`MatchedAt` and `Walked(_, NoEntry)` over the mapped registry
(`MatchedIsFirstMatch`, `WalkedIsExhausted`). A loop step, the dump and the
cursor's moves leave `Outcome` at `Pending`. The step lemmas are:

- `AbortRefines`: a memory error maps to `Abort`;
- `NotFoundRefines`: reaching NULL maps to `ReportNotFound`;
- `AddRefines`: add-symbol-file maps to `Locate`.

`DumpFail` and `AddFail` map to `Fail`. No action is enabled at `done` or
`failed`, so a result never changes.

### `TabCollisionsProofs`

`TabTypeCorrect` proves `Spec => []TypeOK`, and `ScanAccountsHolds` proves
`Spec => []ScanAccounts`, for every set of strings and every table
satisfying `TablesAssumption`. The inductive invariant adds `StartClean`:
nothing is scanned before the header is read.

The step for a string key rests on three lemmas:

- `KeyNodesStep` and `OtherNodesStep`: scanning node `i` adds `i` to the
  reference set of its own kind only.
- `KeyNodesBelow`: every recorded node is below `i`.
- `AppendAscending`: appending a node above all recorded ones keeps the
  list ascending, and adds the node to its range.

`AccountsFrame` restates `ScanAccounts'` over the same table, since no step
writes the table.

`CollidingKeysReportedHolds` proves `Spec => []CollidingKeysReported`: when
the count is printed, the keys reported are exactly the string keys held by
two different nodes. The inductive invariant adds `ReportInv`:

- only keys whose node list has more than one entry are reported;
- nothing is reported before the scan ends;
- the report runs with `i = hmask + 1`;
- at the end, every unreported key has at most one node.

With `ScanAccounts` at `i = hmask + 1`, a key's node list is ascending and
its range is the key's node set. `LenRepeated` then gives the link: an
ascending list has two or more entries exactly when two of its entries
differ.

`ImplementsReport` proves `Spec => Report!ASafeSpec`: `uj-tab-collisions`
implements `CollisionReport` without its liveness part. Its argument:

- `AbstractSets`: at `i = hmask + 1`, the reference set of other keys is
  `OtherKeyNodes`, and `Colliding` is the abstract `Colliding`.
- `SilentStep`: reading the header, a nil or string key, and leaving the
  loop change no mapped variable. A memory error maps to `Abort`, since
  `ReportInv` shows nothing was reported before the scan ended.
- `NotStringRefines`: a non-string key at node `i` is a node of
  `OtherKeyNodes` not yet announced, since every announced node is below
  `i`.
- `ReportKeyRefines`: a key reported has two or more nodes, so it
  collides (`KeyCollides`), and at the report every non-string node has
  been announced.
- `FinishRefines`: at the end the reported keys are exactly the colliding
  ones (`ReportedAtEnd`).

## Only model-checked

- **Liveness.** The fairness part of
  `ScanRefinement` and `VMScanRefinement`, and the eventual result of
  `LocateRefinement` and `ReportRefinement`, are outside
  TLAPS's reach: the prover does not reason about fairness or `ENABLED`.
- **The count in `CountIsCollidingKeys`.** The keys reported are proved
  (`CollidingKeysReported`). The count's equality with their cardinality is
  not. `Cardinality` is defined in `FiniteSets` by a recursive function
  over subsets, so every fact about it needs induction. The library that
  states those facts, `FiniteSetTheorems`, reaches a RECURSIVE operator
  through `Functions` and `Folds`, so a proof module cannot use it.
- **`ScanBounded` and `FoundNotDenied`.** They are the properties of
  violation runs: the code breaks them.
- **Non-well-formed images.** The decode-fault images and the corrupt-link
  images are outside the theorems' hypothesis. They are checked by TLC only.

## Not modelled

| Part | Why |
|---|---|
| `uj-tab` | Prints each slot of a table's two parts in two bounded loops. It is output only. |
| `uj-str`, `uj-tv`, `uj-global-state` | They call C functions in the inferior or print one value. |
| `uj-bc` | Its only stack step is one `frame_prev`, which is already modelled. The bytecode dump itself is a C call in the inferior. |
| gdb helpers (type cache, `cast`, `tou64`, `parse_arg`, `ptr2uint`) | Conversions for gdb. The masks they apply are folded into `FrameLink`. |
| The text of the output | Not modelled. |

## Plan for later sittings

1. Model `uj-bc`'s `get_prev_frame_func_and_pc`. It reads `pcr(base - 1)`
   as a bytecode pc even when the link is a C or PCALL frame.
