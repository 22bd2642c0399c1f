-------------------------- MODULE MCTabCollisions --------------------------
(***************************************************************************)
(* Model-checking instance of TabCollisions: hash parts of one to four     *)
(* nodes whose keys are nil, one of two string objects, a table key, or    *)
(* unmapped memory, so that keys occur at zero, one, two or more nodes.   *)
(***************************************************************************)
EXTENDS TabCollisions, TLC

CONSTANTS S1, S2

\* The keys a node may hold (LJ_TTAB = 11 stands for any non-string).
MCKeys ==
  {[tag |-> LJ_TNIL, gcr |-> S1, mapped |-> TRUE],
   [tag |-> LJ_TSTR, gcr |-> S1, mapped |-> TRUE],
   [tag |-> LJ_TSTR, gcr |-> S2, mapped |-> TRUE],
   [tag |-> 11, gcr |-> S1, mapped |-> TRUE],
   [tag |-> LJ_TSTR, gcr |-> S1, mapped |-> FALSE]}

MCTables ==
  {[mapped |-> FALSE, hmask |-> 0,
    node |-> [n \in {0} |-> [tag |-> LJ_TNIL, gcr |-> S1, mapped |-> TRUE]]]}
  \cup
  UNION {{[mapped |-> TRUE, hmask |-> h, node |-> nd] : nd \in [0..h -> MCKeys]} :
         h \in 0..3}
=============================================================================
