----------------------------- MODULE StackScan -----------------------------
(***************************************************************************)
(* What uj-stack promises, without its two cursors: it prints the stack    *)
(* top-down, one line per slot from top - 1 to the lowest live frame link, *)
(* labelling a line as a frame exactly where the VM laid a live link, and  *)
(* then the dummy frame at L->stack.  Any line may be the last one: a read *)
(* of unreadable or undecodable memory ends the command.                   *)
(***************************************************************************)
EXTENDS Integers

CONSTANTS
  Images    \* records with at least the fields top and frames

VARIABLES
  aimg,     \* the stack image
  cursor,   \* the next slot to print
  out,      \* the lines printed: [addr, kind]
  state     \* "scan", "done" or "aborted"

avars == <<aimg, cursor, out, state>>

\* The labels of print_stack_slot and print_framelink.
LineKinds == {"VALUE", "DEADF", "DEADFRAME", "FRAME", "DUMMY"}

\* Some live frame link lies at or below the cursor.
FrameBelow == \E f \in aimg.frames : f <= cursor

AInit ==
  /\ aimg \in Images
  /\ cursor = aimg.top - 1
  /\ out = {}
  /\ state = "scan"

\* Print the slot at the cursor, a frame exactly when it is a live link.
Line ==
  /\ state = "scan" /\ FrameBelow
  /\ \E k \in LineKinds :
       /\ k = "FRAME" <=> cursor \in aimg.frames
       /\ out' = out \cup {[addr |-> cursor, kind |-> k]}
  /\ cursor' = cursor - 1
  /\ state' \in {"scan", "aborted"}
  /\ UNCHANGED aimg

\* Below the lowest frame: print the dummy frame and stop.
Close ==
  /\ state = "scan" /\ ~FrameBelow
  /\ out' = out \cup {[addr |-> 0, kind |-> "DUMMY"]}
  /\ state' \in {"done", "aborted"}
  /\ UNCHANGED <<aimg, cursor>>

\* A read fails: the command stops with what it has printed.
Abort ==
  /\ state = "scan"
  /\ state' = "aborted"
  /\ UNCHANGED <<aimg, cursor, out>>

ANext == Line \/ Close \/ Abort

ASafeSpec == AInit /\ [][ANext]_avars

ASpec == ASafeSpec /\ WF_avars(ANext)

=============================================================================
