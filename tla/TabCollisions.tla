---------------------------- MODULE TabCollisions ----------------------------
(***************************************************************************)
(* The uj-tab-collisions command of tools/ujit-gdb.py (UJTABCOLLISIONS):   *)
(* it reads a GCtab's header (node, hmask, metatable), scans the hmask + 1 *)
(* nodes of its hash part and groups the nodes of each string key in a     *)
(* dict keyed by strdata(key), then prints every key found at two or more  *)
(* nodes with its node indexes, and their number.                          *)
(*                                                                         *)
(* strdata(key) is str() of a char * into the key's GCstr: gdb renders it  *)
(* as the address followed by the text ("<error: ...>" when the memory is  *)
(* unreadable, without raising), so two nodes share a dict entry exactly   *)
(* when they reference the same string object: a key is modelled by its   *)
(* object.  A read of an unmapped node raises gdb.MemoryError, which ends  *)
(* the command.                                                            *)
(***************************************************************************)
EXTENDS Integers, Sequences, FiniteSets

CONSTANTS
  Strs,     \* the string objects a key may reference
  Tables    \* the tables the command may be given

\* Kind indices of the two tags the scan tells apart (tag_name(~k)).
LJ_TNIL == 0
LJ_TSTR == 4

\* A node's key as read from memory: its tag's kind index (any other word
\* is "not a string"), the referenced object, and whether the node's memory
\* is mapped.
KeyType == [tag : Int, gcr : Strs, mapped : BOOLEAN]

\* A table: whether its header is mapped, hmask, and its nodes' keys.
ASSUME TablesAssumption ==
  \A t \in Tables : /\ t.mapped \in BOOLEAN /\ t.hmask \in Nat
                    /\ t.node \in [0..t.hmask -> KeyType]

VARIABLES
  tab,       \* the table (never written)
  i,         \* the scan's node index
  collides,  \* the dict: string object -> node indexes, in scan order
  notstr,    \* the nodes reported as "Not a string key @ node[i]"
  reported,  \* the keys printed as colliding
  count,     \* the colliding-keys counter
  pc         \* "start", "scan", "report", "done" or "memerr"

vars == <<tab, i, collides, notstr, reported, count, pc>>

\* hsize = t['hmask'] + 1.
HSize == tab.hmask + 1

Key(n) == tab.node[n]

Init ==
  /\ tab \in Tables
  /\ i = 0
  /\ collides = [s \in {} |-> <<>>]
  /\ notstr = {}
  /\ reported = {}
  /\ count = 0
  /\ pc = "start"

\* node, hmask and metatable are read before the loop (mt != 0 fetches the
\* header): an unmapped header ends the command before any output.
Start ==
  /\ pc = "start"
  /\ pc' = IF tab.mapped THEN "scan" ELSE "memerr"
  /\ UNCHANGED <<tab, i, collides, notstr, reported, count>>

\* One iteration of the node loop, after reading key['value_tag'].
ScanGuard == pc = "scan" /\ i < HSize /\ Key(i).mapped

\* A nil key: continue.
ScanNil ==
  /\ ScanGuard /\ Key(i).tag = LJ_TNIL
  /\ i' = i + 1
  /\ UNCHANGED <<tab, collides, notstr, reported, count, pc>>

\* Mutant: the node index written is off by one.
ScanOther_next ==
  /\ ScanGuard /\ Key(i).tag \notin {LJ_TNIL, LJ_TSTR}
  /\ notstr' = notstr \cup {i + 1}
  /\ i' = i + 1
  /\ UNCHANGED <<tab, collides, reported, count, pc>>

\* Mutant: the line for a non-string key not printed.
ScanOther_silent ==
  /\ ScanGuard /\ Key(i).tag \notin {LJ_TNIL, LJ_TSTR}
  /\ i' = i + 1
  /\ UNCHANGED <<tab, collides, notstr, reported, count, pc>>

\* Any other tag: "Not a string key @ node[i]", continue.
ScanOther ==
  /\ ScanGuard /\ Key(i).tag \notin {LJ_TNIL, LJ_TSTR}
  /\ notstr' = notstr \cup {i}
  /\ i' = i + 1
  /\ UNCHANGED <<tab, collides, reported, count, pc>>

\* Mutant: the entry is replaced instead of extended (setdefault dropped).
ScanStr_replace ==
  /\ ScanGuard /\ Key(i).tag = LJ_TSTR
  /\ LET hk == Key(i).gcr
     IN collides' = [s \in DOMAIN collides \cup {hk} |->
                       IF s = hk THEN <<i>> ELSE collides[s]]
  /\ i' = i + 1
  /\ UNCHANGED <<tab, notstr, reported, count, pc>>

\* A string key: collides[hk] = collides.setdefault(hk, []) + [i].
ScanStr ==
  /\ ScanGuard /\ Key(i).tag = LJ_TSTR
  /\ LET hk == Key(i).gcr
     IN collides' = [s \in DOMAIN collides \cup {hk} |->
                       IF s # hk THEN collides[s]
                       ELSE IF hk \in DOMAIN collides THEN Append(collides[hk], i)
                       ELSE <<i>>]
  /\ i' = i + 1
  /\ UNCHANGED <<tab, notstr, reported, count, pc>>

\* Reading node[i]['key'] of an unmapped node raises gdb.MemoryError.
ScanFault ==
  /\ pc = "scan" /\ i < HSize /\ ~Key(i).mapped
  /\ pc' = "memerr"
  /\ UNCHANGED <<tab, i, collides, notstr, reported, count>>

ScanEnd ==
  /\ pc = "scan" /\ i = HSize
  /\ pc' = "report"
  /\ UNCHANGED <<tab, i, collides, notstr, reported, count>>

\* Mutant: a key found at a single node is counted too.
ReportKey_any ==
  /\ pc = "report"
  /\ \E k \in DOMAIN collides \ reported :
       /\ Len(collides[k]) >= 1
       /\ reported' = reported \cup {k}
  /\ count' = count + 1
  /\ UNCHANGED <<tab, i, collides, notstr, pc>>

ReportKey_samecount ==
  /\ pc = "report"
  /\ \E k \in DOMAIN collides \ reported :
       /\ Len(collides[k]) > 1
       /\ reported' = reported \cup {k}
  /\ count' = count
  /\ UNCHANGED <<tab, i, collides, notstr, pc>>

\* One iteration over filter(len(collides[k]) > 1, collides.keys()):
\* count += 1 and the key's node list is written (dict order left open).
ReportKey ==
  /\ pc = "report"
  /\ \E k \in DOMAIN collides \ reported :
       /\ Len(collides[k]) > 1
       /\ reported' = reported \cup {k}
  /\ count' = count + 1
  /\ UNCHANGED <<tab, i, collides, notstr, pc>>

\* "Number of colliding keys: count".
Finish ==
  /\ pc = "report"
  /\ \A k \in DOMAIN collides \ reported : Len(collides[k]) <= 1
  /\ pc' = "done"
  /\ UNCHANGED <<tab, i, collides, notstr, reported, count>>

Next ==
  \/ Start \/ ScanNil \/ ScanOther \/ ScanStr \/ ScanFault \/ ScanEnd
  \/ ReportKey \/ Finish

\* The command runs to completion on its own.
Spec == Init /\ [][Next]_vars /\ WF_vars(Next)

-----------------------------------------------------------------------------
(* Properties.                                                             *)

TypeOK ==
  /\ tab \in Tables
  /\ i \in 0..HSize
  /\ DOMAIN collides \subseteq Strs
  /\ \A s \in DOMAIN collides : collides[s] \in Seq(0..(HSize - 1))
  /\ notstr \subseteq 0..(HSize - 1)
  /\ reported \subseteq DOMAIN collides
  /\ count \in Nat
  /\ pc \in {"start", "scan", "report", "done", "memerr"}

\* Reference: the nodes below n whose key is the string object s.
KeyNodes(s, n) == {j \in 0..(n - 1) : Key(j).tag = LJ_TSTR /\ Key(j).gcr = s}

\* Reference: the nodes below n whose key is neither nil nor a string.
OtherNodes(n) == {j \in 0..(n - 1) : Key(j).tag \notin {LJ_TNIL, LJ_TSTR}}

(* Every scanned node is accounted for: the dict holds exactly the string  *)
(* keys met so far, each with exactly its nodes in ascending order, and    *)
(* the "Not a string key" lines name exactly the other non-nil nodes.      *)
ScanAccounts ==
  pc \in {"scan", "report", "done"} =>
    /\ DOMAIN collides = {s \in Strs : KeyNodes(s, i) # {}}
    /\ \A s \in DOMAIN collides :
         /\ {collides[s][m] : m \in DOMAIN collides[s]} = KeyNodes(s, i)
         /\ \A m, n \in DOMAIN collides[s] : m < n => collides[s][m] < collides[s][n]
    /\ notstr = OtherNodes(i)

(* A string key collides when two different nodes of the hash part hold  *)
(* it: its node list in collides has more than one entry.                  *)
Colliding(s) == \E m, n \in KeyNodes(s, HSize) : m # n

(* Once "Number of colliding keys" is printed, the keys printed before it  *)
(* are exactly the colliding string keys of the table: none is missed and  *)
(* none is reported with a single node.                                    *)
CollidingKeysReported ==
  pc = "done" => reported = {s \in Strs : Colliding(s)}

(* The last line's count is the number of string keys found at two or     *)
(* more nodes of the hash part, and those are the keys printed.            *)
CountIsCollidingKeys ==
  pc = "done" =>
    /\ reported = {s \in Strs : Cardinality(KeyNodes(s, HSize)) > 1}
    /\ count = Cardinality(reported)


-----------------------------------------------------------------------------
(* The refinement: the lines printed are CollisionReport's, the command    *)
(* runs until the count is printed or gdb.MemoryError ends it.            *)

Phase == IF pc = "done" THEN "done" ELSE IF pc = "memerr" THEN "aborted" ELSE "running"

Report == INSTANCE CollisionReport
            WITH atab <- tab, anotstr <- notstr, areported <- reported,
                 acount <- count, phase <- Phase

(* uj-tab-collisions implements CollisionReport: every "Not a string key"  *)
(* line names a new non-string node and comes before the first key; every  *)
(* key printed is a new colliding key, counted once; the count is printed  *)
(* only after all of both; a memory error ends the command before any key; *)
(* and the command ends.                                                   *)
ReportRefinement == Report!ASpec

=============================================================================
