--------------------------- MODULE CollisionReport ---------------------------
(***************************************************************************)
(* What uj-tab-collisions promises, without its dict and its node loop:    *)
(* it prints a "Not a string key" line for each node of the hash part      *)
(* whose key is neither nil nor a string, then each string key held by two *)
(* different nodes, once, counting them, and ends when all of both have    *)
(* been printed.  Unreadable memory ends it before any key is printed.    *)
(***************************************************************************)
EXTENDS Integers

CONSTANTS
  Strs,       \* the string objects a key may reference
  Tables      \* records [mapped, hmask, node] as in TabCollisions

VARIABLES
  atab,       \* the table
  anotstr,    \* the nodes printed as "Not a string key"
  areported,  \* the keys printed as colliding
  acount,     \* the count of keys printed
  phase       \* "running", "done" or "aborted"

avars == <<atab, anotstr, areported, acount, phase>>

\* The nodes of the hash part, and the tag indices of nil and string keys.
Nodes == 0..atab.hmask
NilTag == 0
StrTag == 4

\* Node n's key is the string object s.
HoldsStr(n, s) == atab.node[n].tag = StrTag /\ atab.node[n].gcr = s

\* Two different nodes hold the string s.
Colliding(s) == \E m, n \in Nodes : m # n /\ HoldsStr(m, s) /\ HoldsStr(n, s)

\* The nodes whose key is neither nil nor a string.
OtherKeyNodes == {n \in Nodes : atab.node[n].tag \notin {NilTag, StrTag}}

AInit ==
  /\ atab \in Tables
  /\ anotstr = {}
  /\ areported = {}
  /\ acount = 0
  /\ phase = "running"

\* "Not a string key @ node[n]", before any key is reported.
NotString ==
  /\ phase = "running" /\ areported = {}
  /\ \E n \in OtherKeyNodes \ anotstr : anotstr' = anotstr \cup {n}
  /\ UNCHANGED <<atab, areported, acount, phase>>

\* A colliding key not printed yet is printed and counted.
Report ==
  /\ phase = "running" /\ anotstr = OtherKeyNodes
  /\ \E k \in Strs \ areported : Colliding(k) /\ areported' = areported \cup {k}
  /\ acount' = acount + 1
  /\ UNCHANGED <<atab, anotstr, phase>>

\* Every colliding key and every other key has been printed: the count.
Finish ==
  /\ phase = "running" /\ anotstr = OtherKeyNodes
  /\ areported = {s \in Strs : Colliding(s)}
  /\ phase' = "done"
  /\ UNCHANGED <<atab, anotstr, areported, acount>>

\* gdb.MemoryError: the command ends before any key is printed.
Abort ==
  /\ phase = "running" /\ areported = {}
  /\ phase' = "aborted"
  /\ UNCHANGED <<atab, anotstr, areported, acount>>

ANext == NotString \/ Report \/ Finish \/ Abort

ASafeSpec == AInit /\ [][ANext]_avars

\* The command returns.  Abort is enabled in every running state before a
\* key is reported, and Report or Finish after, so this is what weak
\* fairness of ANext would require.
ASpec == ASafeSpec /\ <>(phase # "running")

=============================================================================
