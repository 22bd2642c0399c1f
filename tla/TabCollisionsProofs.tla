------------------------ MODULE TabCollisionsProofs ------------------------
(***************************************************************************)
(* Proofs about uj-tab-collisions for every table and set of strings: the *)
(* dict it builds accounts, in ascending order, for exactly the nodes of  *)
(* each string key scanned so far.  The argument: each iteration scans    *)
(* node i, which extends exactly one of KeyNodes(_, i) or OtherNodes(i)   *)
(* (or none, for nil) by i, and i is above every node already recorded.   *)
(***************************************************************************)
EXTENDS TabCollisions, TLAPS

\* Before the header is read nothing has been scanned.
StartClean ==
  pc = "start" => i = 0 /\ DOMAIN collides = {} /\ notstr = {}

TCInv == TypeOK /\ StartClean /\ ScanAccounts

\* ScanAccounts of a dict c, a "Not a string key" set ns and an index k
\* at phase p, over the (never written) table.
AccountsAt(p, c, ns, k) ==
  p \in {"scan", "report", "done"} =>
    /\ DOMAIN c = {s \in Strs : KeyNodes(s, k) # {}}
    /\ \A s \in DOMAIN c :
         /\ {c[s][m] : m \in DOMAIN c[s]} = KeyNodes(s, k)
         /\ \A m, n \in DOMAIN c[s] : m < n => c[s][m] < c[s][n]
    /\ ns = OtherNodes(k)

\* The report so far: only keys whose node list has two or more entries
\* are reported, none before the scan ends, and every key left unreported
\* once the count is printed has at most one node.
ReportInv ==
  /\ reported \subseteq {s \in DOMAIN collides : Len(collides[s]) > 1}
  /\ pc \in {"start", "scan"} => reported = {}
  /\ pc \in {"report", "done"} => i = HSize
  /\ pc = "done" => \A k \in DOMAIN collides \ reported : Len(collides[k]) <= 1

\* The facts about the table every step uses.
LEMMA TableFacts ==
  ASSUME tab \in Tables
  PROVE  /\ tab.hmask \in Nat
         /\ HSize \in Nat \ {0}
         /\ \A n \in 0..(HSize - 1) : Key(n) \in KeyType
BY TablesAssumption DEF HSize, Key

\* The table is never written, so ScanAccounts after a step is
\* AccountsAt of the new dict, set and index over the same table.
LEMMA AccountsFrame ==
  ASSUME tab' = tab
  PROVE  /\ ScanAccounts = AccountsAt(pc, collides, notstr, i)
         /\ ScanAccounts' = AccountsAt(pc', collides', notstr', i')
         /\ HSize' = HSize
BY DEF ScanAccounts, AccountsAt, KeyNodes, OtherNodes, Key, HSize

\* Scanning node n adds n to the reference set of its own kind only.
LEMMA KeyNodesStep ==
  ASSUME NEW s, NEW n \in Nat
  PROVE  KeyNodes(s, n + 1) =
           KeyNodes(s, n) \cup
             (IF Key(n).tag = LJ_TSTR /\ Key(n).gcr = s THEN {n} ELSE {})
BY DEF KeyNodes

LEMMA OtherNodesStep ==
  ASSUME NEW n \in Nat
  PROVE  OtherNodes(n + 1) =
           OtherNodes(n) \cup
             (IF Key(n).tag \notin {LJ_TNIL, LJ_TSTR} THEN {n} ELSE {})
BY DEF OtherNodes

\* Nothing is recorded at or above the scan index.
LEMMA KeyNodesBelow ==
  ASSUME NEW s, NEW n \in Nat
  PROVE  KeyNodes(s, n) \subseteq 0..(n - 1)
BY DEF KeyNodes

\* Appending a node above all recorded ones keeps a list ascending and
\* adds the node to its range.
LEMMA AppendAscending ==
  ASSUME NEW c \in Seq(Nat), NEW x \in Nat,
         \A m, n \in DOMAIN c : m < n => c[m] < c[n],
         \A m \in DOMAIN c : c[m] < x
  PROVE  /\ {Append(c, x)[m] : m \in DOMAIN Append(c, x)} =
              {c[m] : m \in DOMAIN c} \cup {x}
         /\ \A m, n \in DOMAIN Append(c, x) :
              m < n => Append(c, x)[m] < Append(c, x)[n]
<1>1. DOMAIN Append(c, x) = 1..(Len(c) + 1) /\ DOMAIN c = 1..Len(c)
  OBVIOUS
<1>2. \A m \in 1..Len(c) : Append(c, x)[m] = c[m]
  OBVIOUS
<1>3. Append(c, x)[Len(c) + 1] = x
  OBVIOUS
<1>4. {Append(c, x)[m] : m \in DOMAIN Append(c, x)} = {c[m] : m \in DOMAIN c} \cup {x}
  BY <1>1, <1>2, <1>3
<1>5. ASSUME NEW m \in DOMAIN Append(c, x), NEW n \in DOMAIN Append(c, x), m < n
      PROVE  Append(c, x)[m] < Append(c, x)[n]
  <2>1. CASE n = Len(c) + 1
    BY <1>1, <1>2, <1>3, <1>5, <2>1
  <2>2. CASE n # Len(c) + 1
    BY <1>1, <1>2, <1>5, <2>2
  <2>. QED
    BY <2>1, <2>2
<1>. QED
  BY <1>4, <1>5

LEMMA InitTCInv == Init => TCInv
BY TableFacts DEF Init, TCInv, TypeOK, StartClean, ScanAccounts

\* A step that scans node i and leaves the dict alone keeps the dict's
\* part of the invariant when node i is not a string.
LEMMA NonStringStep ==
  ASSUME TCInv, ScanGuard, Key(i).tag # LJ_TSTR,
         i' = i + 1, collides' = collides,
         notstr' = OtherNodes(i + 1),
         UNCHANGED <<tab, reported, count, pc>>
  PROVE  TCInv'
<1>0. i \in Nat /\ i < HSize /\ HSize \in Nat \ {0}
  BY TableFacts DEF TCInv, TypeOK, ScanGuard
<1>1. \A s : KeyNodes(s, i + 1) = KeyNodes(s, i)
  <2> TAKE s
  <2>. QED
    BY <1>0, KeyNodesStep
<1>2. pc = "scan" /\ pc' = "scan"
  BY DEF ScanGuard
<1>3. /\ ScanAccounts = AccountsAt(pc, collides, notstr, i)
      /\ ScanAccounts' = AccountsAt(pc', collides', notstr', i')
      /\ HSize' = HSize
  BY AccountsFrame
<1>4. TypeOK'
  <2>1. notstr' \subseteq 0..(HSize - 1)
    BY <1>0 DEF OtherNodes
  <2>. QED
    BY <1>0, <1>2, <1>3, <2>1 DEF TCInv, TypeOK
<1>5. AccountsAt(pc, collides, notstr, i)
  BY <1>3 DEF TCInv
<1>6. AccountsAt("scan", collides, OtherNodes(i + 1), i + 1)
  BY <1>1, <1>2, <1>5 DEF AccountsAt
<1>7. ScanAccounts'
  BY <1>2, <1>3, <1>6
<1>8. StartClean'
  BY <1>2 DEF StartClean
<1>. QED
  BY <1>4, <1>7, <1>8 DEF TCInv

\* Scanning a string key appends i to that key's list.
LEMMA StringStep ==
  ASSUME TCInv, ScanStr
  PROVE  TCInv'
<1>0. i \in Nat /\ i < HSize /\ HSize \in Nat \ {0} /\ Key(i) \in KeyType
  BY TableFacts DEF TCInv, TypeOK, ScanStr, ScanGuard
<1>. DEFINE hk == Key(i).gcr
<1>1. hk \in Strs /\ Key(i).tag = LJ_TSTR
  BY <1>0 DEF KeyType, ScanStr, ScanGuard
<1>2. DOMAIN collides' = DOMAIN collides \cup {hk}
  BY DEF ScanStr
<1>3. \A s \in DOMAIN collides' :
        collides'[s] = IF s # hk THEN collides[s]
                       ELSE IF hk \in DOMAIN collides THEN Append(collides[hk], i)
                       ELSE <<i>>
  BY DEF ScanStr
<1>4. \A s : KeyNodes(s, i + 1) = KeyNodes(s, i) \cup (IF s = hk THEN {i} ELSE {})
  <2> TAKE s
  <2>. QED
    BY <1>0, <1>1, KeyNodesStep
<1>5. OtherNodes(i + 1) = OtherNodes(i)
  BY <1>0, <1>1, OtherNodesStep
<1>6. pc = "scan" /\ pc' = "scan" /\ tab' = tab /\ i' = i + 1 /\ notstr' = notstr
  BY DEF ScanStr, ScanGuard
<1>7. /\ ScanAccounts = AccountsAt(pc, collides, notstr, i)
      /\ ScanAccounts' = AccountsAt(pc', collides', notstr', i')
      /\ HSize' = HSize
  BY <1>6, AccountsFrame
<1>8. AccountsAt("scan", collides, notstr, i)
  BY <1>6, <1>7 DEF TCInv
<1>9. DOMAIN collides' = {s \in Strs : KeyNodes(s, i + 1) # {}}
  BY <1>1, <1>2, <1>4, <1>8 DEF AccountsAt
<1>10. ASSUME NEW s \in DOMAIN collides'
       PROVE  /\ {collides'[s][m] : m \in DOMAIN collides'[s]} = KeyNodes(s, i + 1)
              /\ \A m, n \in DOMAIN collides'[s] :
                   m < n => collides'[s][m] < collides'[s][n]
  <2>1. CASE s # hk
    <3>1. s \in DOMAIN collides /\ collides'[s] = collides[s]
      BY <1>2, <1>3, <2>1
    <3>2. KeyNodes(s, i + 1) = KeyNodes(s, i)
      BY <1>4, <2>1
    <3>. QED
      BY <1>8, <3>1, <3>2 DEF AccountsAt
  <2>2. CASE s = hk /\ hk \in DOMAIN collides
    <3>. DEFINE c == collides[hk]
    <3>1. c \in Seq(0..(HSize - 1))
      BY <2>2 DEF TCInv, TypeOK
    <3>2. /\ {c[m] : m \in DOMAIN c} = KeyNodes(hk, i)
          /\ \A m, n \in DOMAIN c : m < n => c[m] < c[n]
      BY <2>2, <1>8 DEF AccountsAt
    <3>3. KeyNodes(hk, i) \subseteq 0..(i - 1)
      BY <1>0, KeyNodesBelow
    <3>4. \A m \in DOMAIN c : c[m] < i
      BY <3>2, <3>3, <1>0
    <3>5. c \in Seq(Nat)
      BY <3>1, <1>0
    <3>6. collides'[s] = Append(c, i)
      BY <2>2, <1>3
    <3>7. KeyNodes(s, i + 1) = KeyNodes(hk, i) \cup {i}
      BY <1>4, <2>2
    <3>8. /\ {Append(c, i)[m] : m \in DOMAIN Append(c, i)} =
               {c[m] : m \in DOMAIN c} \cup {i}
          /\ \A m, n \in DOMAIN Append(c, i) :
               m < n => Append(c, i)[m] < Append(c, i)[n]
      BY <3>2, <3>4, <3>5, <1>0, AppendAscending
    <3>. QED
      BY <2>2, <3>2, <3>6, <3>7, <3>8
  <2>3. CASE s = hk /\ hk \notin DOMAIN collides
    <3>1. KeyNodes(hk, i) = {}
      BY <2>3, <1>1, <1>8 DEF AccountsAt
    <3>2. collides'[s] = <<i>>
      BY <2>3, <1>3
    <3>3. KeyNodes(s, i + 1) = {i}
      BY <3>1, <1>4, <2>3
    <3>. QED
      BY <3>2, <3>3
  <2>. QED
    BY <2>1, <2>2, <2>3
<1>11. AccountsAt("scan", collides', notstr, i + 1)
  BY <1>5, <1>8, <1>9, <1>10 DEF AccountsAt
<1>12. ScanAccounts'
  BY <1>6, <1>7, <1>11
<1>13. TypeOK'
  <2>1. ASSUME NEW s \in DOMAIN collides'
        PROVE  collides'[s] \in Seq(0..(HSize - 1))
    <3>1. CASE s # hk
      BY <1>2, <1>3, <3>1 DEF TCInv, TypeOK
    <3>2. CASE s = hk /\ hk \in DOMAIN collides
      <4>1. collides[hk] \in Seq(0..(HSize - 1))
        BY <3>2 DEF TCInv, TypeOK
      <4>2. collides'[s] = Append(collides[hk], i)
        BY <1>3, <3>2
      <4>3. i \in 0..(HSize - 1)
        BY <1>0
      <4>. QED
        BY <4>1, <4>2, <4>3
    <3>3. CASE s = hk /\ hk \notin DOMAIN collides
      <4>1. collides'[s] = <<i>>
        BY <1>3, <3>3
      <4>2. i \in 0..(HSize - 1)
        BY <1>0
      <4>. QED
        BY <4>1, <4>2
    <3>. QED
      BY <3>1, <3>2, <3>3
  <2>2. DOMAIN collides' \subseteq Strs /\ reported' \subseteq DOMAIN collides'
    BY <1>1, <1>2 DEF TCInv, TypeOK, ScanStr
  <2>3. tab' \in Tables /\ i' \in 0..HSize' /\ notstr' \subseteq 0..(HSize' - 1)
    BY <1>0, <1>6, <1>7 DEF TCInv, TypeOK
  <2>4. count' \in Nat /\ pc' \in {"start", "scan", "report", "done", "memerr"}
    BY <1>6 DEF TCInv, TypeOK, ScanStr
  <2>. QED
    BY <1>7, <2>1, <2>2, <2>3, <2>4 DEF TypeOK
<1>14. StartClean'
  BY <1>6 DEF StartClean
<1>. QED
  BY <1>12, <1>13, <1>14 DEF TCInv

LEMMA TCInvNext == TCInv /\ [Next]_vars => TCInv'
<1> SUFFICES ASSUME TCInv, [Next]_vars PROVE TCInv'
  OBVIOUS
<1>1. CASE Start
  <2>1. tab' = tab /\ i' = 0 /\ DOMAIN collides' = {} /\ notstr' = {}
    BY <1>1 DEF Start, TCInv, StartClean
  <2>2. \A s : KeyNodes(s, 0) = {}
    BY DEF KeyNodes
  <2>3. OtherNodes(0) = {}
    BY DEF OtherNodes
  <2>4. ScanAccounts'
    BY <2>1, <2>2, <2>3, AccountsFrame DEF AccountsAt
  <2>5. TypeOK'
    BY <1>1, <2>1, AccountsFrame DEF Start, TCInv, TypeOK
  <2>. QED
    BY <1>1, <2>4, <2>5 DEF Start, TCInv, StartClean
<1>2. CASE ScanNil
  <2>1. i \in Nat
    BY DEF TCInv, TypeOK
  <2>2. OtherNodes(i + 1) = OtherNodes(i)
    BY <1>2, <2>1, OtherNodesStep DEF ScanNil, ScanGuard, LJ_TNIL, LJ_TSTR
  <2>3. notstr = OtherNodes(i)
    BY <1>2, AccountsFrame DEF ScanNil, ScanGuard, TCInv, AccountsAt
  <2>. QED
    BY <1>2, <2>2, <2>3, NonStringStep DEF ScanNil, LJ_TNIL, LJ_TSTR
<1>3. CASE ScanOther
  <2>1. i \in Nat
    BY DEF TCInv, TypeOK
  <2>2. OtherNodes(i + 1) = OtherNodes(i) \cup {i}
    BY <1>3, <2>1, OtherNodesStep DEF ScanOther
  <2>3. notstr = OtherNodes(i)
    BY <1>3, AccountsFrame DEF ScanOther, ScanGuard, TCInv, AccountsAt
  <2>. QED
    BY <1>3, <2>2, <2>3, NonStringStep DEF ScanOther
<1>4. CASE ScanStr
  BY <1>4, StringStep
<1>5. CASE ScanFault \/ ScanEnd \/ ReportKey \/ Finish \/ UNCHANGED vars
  <2>1. UNCHANGED <<tab, i, collides, notstr>>
    BY <1>5 DEF ScanFault, ScanEnd, ReportKey, Finish, vars
  <2>2. pc' \in {"scan", "report", "done"} => pc \in {"scan", "report", "done"}
    BY <1>5 DEF ScanFault, ScanEnd, ReportKey, Finish, vars
  <2>3. pc' # "start" \/ pc = "start"
    BY <1>5 DEF ScanFault, ScanEnd, ReportKey, Finish, vars
  <2>4. /\ ScanAccounts = AccountsAt(pc, collides, notstr, i)
        /\ ScanAccounts' = AccountsAt(pc', collides', notstr', i')
        /\ HSize' = HSize
    BY <2>1, AccountsFrame
  <2>5. ScanAccounts'
    BY <2>1, <2>2, <2>4 DEF TCInv, AccountsAt
  <2>6. StartClean'
    BY <2>1, <2>3 DEF TCInv, StartClean
  <2>7. reported' \subseteq DOMAIN collides' /\ count' \in Nat
    BY <1>5, <2>1 DEF ScanFault, ScanEnd, ReportKey, Finish, vars, TCInv, TypeOK
  <2>8. pc' \in {"start", "scan", "report", "done", "memerr"}
    BY <1>5 DEF ScanFault, ScanEnd, ReportKey, Finish, vars, TCInv, TypeOK
  <2>9. TypeOK'
    BY <2>1, <2>4, <2>7, <2>8 DEF TCInv, TypeOK
  <2>. QED
    BY <2>5, <2>6, <2>9 DEF TCInv
<1>. QED
  BY <1>1, <1>2, <1>3, <1>4, <1>5 DEF Next

LEMMA AlwaysTCInv == Spec => []TCInv
BY InitTCInv, TCInvNext, PTL DEF Spec

\* Type correctness of uj-tab-collisions: the scan index stays within the
\* hash part and every recorded node index is a node of the table.
THEOREM TabTypeCorrect == Spec => []TypeOK
BY AlwaysTCInv, PTL DEF TCInv

\* The dict uj-tab-collisions builds holds, for every string key scanned
\* so far, exactly the nodes holding it in ascending order, and the "Not a
\* string key" lines name exactly the other non-nil nodes.
THEOREM ScanAccountsHolds == Spec => []ScanAccounts
BY AlwaysTCInv, PTL DEF TCInv


-----------------------------------------------------------------------------
(* The keys reported.                                                     *)

\* An ascending list has two or more entries exactly when two of its
\* entries differ.
LEMMA LenRepeated ==
  ASSUME NEW S, S \subseteq Int, NEW c \in Seq(S),
         \A m, n \in DOMAIN c : m < n => c[m] < c[n]
  PROVE  Len(c) > 1 <=> \E x, y \in {c[m] : m \in DOMAIN c} : x # y
<1>1. ASSUME Len(c) > 1 PROVE \E x, y \in {c[m] : m \in DOMAIN c} : x # y
  <2>0. Len(c) \in Nat /\ DOMAIN c = 1..Len(c) /\ \A m \in DOMAIN c : c[m] \in S
    OBVIOUS
  <2>a. 1 \in DOMAIN c /\ 2 \in DOMAIN c
    BY <1>1, <2>0
  <2>b. c[1] \in S /\ c[2] \in S
    BY <2>a, <2>0
  <2>1. 1 \in DOMAIN c /\ 2 \in DOMAIN c /\ c[1] \in Int /\ c[2] \in Int
    BY <2>a, <2>b
  <2>2. c[1] < c[2]
    BY <2>1
  <2>3. c[1] # c[2]
    BY <2>1, <2>2
  <2>. QED
    BY <2>1, <2>3
<1>2. ASSUME Len(c) <= 1 PROVE ~\E x, y \in {c[m] : m \in DOMAIN c} : x # y
  <2>1. \A m \in DOMAIN c : m = 1
    BY <1>2, Len(c) \in Nat /\ DOMAIN c = 1..Len(c)
  <2>. QED
    BY <2>1
<1>. QED
  BY <1>1, <1>2

LEMMA InitReportInv == Init => ReportInv
BY DEF Init, ReportInv

LEMMA ReportInvNext == TCInv /\ ReportInv /\ [Next]_vars => ReportInv'
<1> SUFFICES ASSUME TCInv, ReportInv, [Next]_vars PROVE ReportInv'
  OBVIOUS
<1>0. tab' = tab /\ HSize' = HSize
  <2>1. tab' = tab
    BY DEF Next, vars, Start, ScanNil, ScanOther, ScanStr, ScanFault, ScanEnd,
           ReportKey, Finish
  <2>. QED
    BY <2>1, AccountsFrame
<1>1. CASE Start
  BY <1>1 DEF Start, ReportInv
<1>2. CASE ScanNil \/ ScanOther \/ ScanStr
  <2>1. pc = "scan" /\ pc' = "scan" /\ reported' = reported
    BY <1>2 DEF ScanNil, ScanOther, ScanStr, ScanGuard
  <2>. QED
    BY <2>1 DEF ReportInv
<1>3. CASE ScanFault
  BY <1>3 DEF ScanFault, ReportInv
<1>4. CASE ScanEnd
  BY <1>0, <1>4 DEF ScanEnd, ReportInv
<1>5. CASE ReportKey
  BY <1>0, <1>5 DEF ReportKey, ReportInv
<1>6. CASE Finish
  BY <1>0, <1>6 DEF Finish, ReportInv
<1>7. CASE UNCHANGED vars
  BY <1>0, <1>7 DEF vars, ReportInv
<1>. QED
  BY <1>1, <1>2, <1>3, <1>4, <1>5, <1>6, <1>7 DEF Next

LEMMA AlwaysReportInv == Spec => [](TCInv /\ ReportInv)
BY InitTCInv, TCInvNext, InitReportInv, ReportInvNext, PTL DEF Spec

\* Once the scan is over, a key's node list has two or more entries exactly
\* when two different nodes hold the key.
LEMMA KeyCollides ==
  ASSUME TCInv, pc \in {"report", "done"}, i = HSize,
         NEW s \in DOMAIN collides
  PROVE  Len(collides[s]) > 1 <=> Colliding(s)
<1>1. HSize \in Nat /\ collides[s] \in Seq(0..HSize - 1)
  BY TableFacts DEF TCInv, TypeOK
<1>2. /\ {collides[s][m] : m \in DOMAIN collides[s]} = KeyNodes(s, HSize)
      /\ \A m, n \in DOMAIN collides[s] :
           m < n => collides[s][m] < collides[s][n]
  BY DEF TCInv, ScanAccounts
<1>3. Len(collides[s]) > 1 <=>
        \E x, y \in {collides[s][m] : m \in DOMAIN collides[s]} : x # y
  <2>1. 0..HSize - 1 \subseteq Int
    OBVIOUS
  <2>. QED
    BY <1>1, <1>2, <2>1, LenRepeated, ZenonT(60)
<1>. QED
  BY <1>2, <1>3 DEF Colliding

\* When no unreported key has two nodes, the keys reported are exactly the
\* colliding keys.
LEMMA ReportedAtEnd ==
  ASSUME TCInv, ReportInv, pc \in {"report", "done"},
         \A k \in DOMAIN collides \ reported : Len(collides[k]) <= 1
  PROVE  reported = {s \in Strs : Colliding(s)}
<1>1. i = HSize /\ HSize \in Nat
  BY TableFacts DEF ReportInv, TCInv, TypeOK
<1>2. reported \subseteq {s \in DOMAIN collides : Len(collides[s]) > 1}
  BY DEF ReportInv
<1>3. DOMAIN collides = {s \in Strs : KeyNodes(s, HSize) # {}}
  BY <1>1 DEF TCInv, ScanAccounts
<1>4. \A s \in DOMAIN collides : Len(collides[s]) > 1 <=> Colliding(s)
  BY <1>1, KeyCollides
<1>5. \A s \in Strs : Colliding(s) => s \in DOMAIN collides
  BY <1>3 DEF Colliding
<1>6. \A s \in DOMAIN collides : s \in reported <=> Len(collides[s]) > 1
  BY <1>2
<1>. QED
  BY <1>2, <1>3, <1>4, <1>5, <1>6

\* uj-tab-collisions reports exactly the string keys held by two or more
\* different nodes of the hash part: once "Number of colliding keys" is
\* printed, the keys printed before it are those, for every table.
THEOREM CollidingKeysReportedHolds ==
  Spec => []CollidingKeysReported
<1>1. ASSUME TCInv, ReportInv, pc = "done"
      PROVE  reported = {s \in Strs : Colliding(s)}
  BY <1>1, ReportedAtEnd DEF ReportInv
<1>. QED
  BY <1>1, AlwaysReportInv, PTL DEF CollidingKeysReported


-----------------------------------------------------------------------------
(* The refinement: uj-tab-collisions implements CollisionReport.  The      *)
(* abstract sets are the scan's reference sets at i = hmask + 1, and       *)
(* TCInv /\ ReportInv carries the argument.                                *)

\* The abstract non-string nodes and colliding keys are the reference sets
\* over the whole hash part.
LEMMA AbstractSets ==
  ASSUME tab \in Tables
  PROVE  /\ OtherNodes(HSize) = Report!OtherKeyNodes
         /\ \A s : Colliding(s) <=> Report!Colliding(s)
<1>1. tab.hmask \in Nat /\ 0..(HSize - 1) = Report!Nodes
  BY TableFacts DEF HSize, Report!Nodes
<1>2. OtherNodes(HSize) = Report!OtherKeyNodes
  BY <1>1 DEF OtherNodes, Report!OtherKeyNodes, Key, LJ_TNIL, LJ_TSTR,
              Report!NilTag, Report!StrTag
<1>3. ASSUME NEW s
      PROVE  KeyNodes(s, HSize) = {n \in Report!Nodes : Report!HoldsStr(n, s)}
  BY <1>1 DEF KeyNodes, Report!HoldsStr, Key, LJ_TSTR, Report!StrTag
<1>4. ASSUME NEW s PROVE Colliding(s) <=> Report!Colliding(s)
  <2>1. KeyNodes(s, HSize) = {n \in Report!Nodes : Report!HoldsStr(n, s)}
    BY <1>3
  <2>. QED
    BY <2>1 DEF Colliding, Report!Colliding
<1>. QED
  BY <1>2, <1>4

\* Before the report and outside the header read, no abstract output has
\* changed and the phase is running: a stutter of CollisionReport.
LEMMA SilentStep ==
  ASSUME pc \in {"start", "scan", "report"}, pc' \in {"scan", "report"},
         UNCHANGED <<tab, notstr, reported, count>>
  PROVE  UNCHANGED Report!avars
BY DEF Report!avars, Phase

\* A "Not a string key" line during the scan is a NotString step.
LEMMA NotStringRefines ==
  ASSUME TCInv, ReportInv, ScanOther
  PROVE  Report!NotString
<1>1. /\ pc = "scan" /\ reported = {} /\ i \in Nat /\ i < HSize
      /\ Key(i).tag \notin {LJ_TNIL, LJ_TSTR}
  BY DEF ScanOther, ScanGuard, ReportInv, TCInv, TypeOK
<1>2. i \in Report!OtherKeyNodes
  BY <1>1, TableFacts DEF TCInv, TypeOK, Report!OtherKeyNodes, Report!Nodes,
                          HSize, Key, LJ_TNIL, LJ_TSTR, Report!NilTag, Report!StrTag
<1>3. i \notin notstr
  BY <1>1 DEF TCInv, ScanAccounts, OtherNodes
<1>4. Phase = "running" /\ Phase' = "running"
  BY <1>1 DEF ScanOther, Phase
<1>. QED
  BY <1>1, <1>2, <1>3, <1>4 DEF ScanOther, Report!NotString

\* A key printed in the report is a Report step.
LEMMA ReportKeyRefines ==
  ASSUME TCInv, ReportInv, ReportKey
  PROVE  Report!Report
<1>1. pc = "report" /\ i = HSize /\ tab \in Tables
  BY DEF ReportKey, ReportInv, TCInv, TypeOK
<1>2. notstr = Report!OtherKeyNodes
  BY <1>1, AbstractSets DEF TCInv, ScanAccounts
<1>3. PICK k \in DOMAIN collides \ reported :
        Len(collides[k]) > 1 /\ reported' = reported \cup {k}
  BY DEF ReportKey
<1>4. k \in Strs \ reported /\ Report!Colliding(k)
  BY <1>1, <1>3, KeyCollides, AbstractSets DEF TCInv, TypeOK
<1>5. Phase = "running" /\ Phase' = "running"
  BY <1>1 DEF ReportKey, Phase
<1>. QED
  BY <1>2, <1>3, <1>4, <1>5 DEF ReportKey, Report!Report

\* Printing the count is a Finish step.
LEMMA FinishRefines ==
  ASSUME TCInv, ReportInv, Finish
  PROVE  Report!Finish
<1>1. pc = "report" /\ i = HSize /\ tab \in Tables
  BY DEF Finish, ReportInv, TCInv, TypeOK
<1>2. notstr = Report!OtherKeyNodes
  BY <1>1, AbstractSets DEF TCInv, ScanAccounts
<1>3. reported = {s \in Strs : Colliding(s)}
  BY <1>1, ReportedAtEnd DEF Finish
<1>4. reported = {s \in Strs : Report!Colliding(s)}
  BY <1>1, <1>3, AbstractSets
<1>5. Phase = "running" /\ Phase' = "done"
  BY <1>1 DEF Finish, Phase
<1>. QED
  BY <1>2, <1>4, <1>5 DEF Finish, Report!Finish

\* uj-tab-collisions implements CollisionReport for every table: each
\* "Not a string key" line names a new non-string node before any key is
\* printed, each key printed is a new colliding key and is counted, the
\* count comes after all of both, and a memory error ends the command
\* before any key is printed.
THEOREM ImplementsReport == Spec => Report!ASafeSpec
<1>1. Init => Report!AInit
  BY DEF Init, Report!AInit, Phase
<1>2. TCInv /\ ReportInv /\ [Next]_vars => [Report!ANext]_Report!avars
  <2> SUFFICES ASSUME TCInv, ReportInv, [Next]_vars
               PROVE  [Report!ANext]_Report!avars
    OBVIOUS
  <2>1. CASE Start
    <3>1. CASE tab.mapped
      BY <2>1, <3>1, SilentStep DEF Start
    <3>2. CASE ~tab.mapped
      <4>1. pc = "start" /\ pc' = "memerr" /\ reported = {}
        BY <2>1, <3>2 DEF Start, ReportInv
      <4>. QED
        BY <2>1, <4>1 DEF Start, Phase, Report!Abort, Report!ANext
    <3>. QED
      BY <3>1, <3>2
  <2>2. CASE ScanNil \/ ScanStr \/ ScanEnd
    BY <2>2, SilentStep DEF ScanNil, ScanStr, ScanEnd, ScanGuard
  <2>3. CASE ScanOther
    BY <2>3, NotStringRefines DEF Report!ANext
  <2>4. CASE ScanFault
    <3>1. pc = "scan" /\ pc' = "memerr" /\ reported = {}
      BY <2>4 DEF ScanFault, ReportInv
    <3>. QED
      BY <2>4, <3>1 DEF ScanFault, Phase, Report!Abort, Report!ANext
  <2>5. CASE ReportKey
    BY <2>5, ReportKeyRefines DEF Report!ANext
  <2>6. CASE Finish
    BY <2>6, FinishRefines DEF Report!ANext
  <2>7. CASE UNCHANGED vars
    BY <2>7 DEF vars, Report!avars, Phase
  <2>. QED
    BY <2>1, <2>2, <2>3, <2>4, <2>5, <2>6, <2>7 DEF Next
<1>. QED
  BY <1>1, <1>2, AlwaysReportInv, PTL DEF Spec, Report!ASafeSpec

=============================================================================
