------------------------------ MODULE RunPromise ------------------------------
(***************************************************************************)
(* What ScanPipeline.Run promises its caller.  It returns an error, or a   *)
(* result.  A file that a scanner should have looked at and did not is one *)
(* that a diagnostic in the result tells of, or one that could not be read *)
(* when the scanner opened it (nothing need say so), or the deadline has   *)
(* passed by then.                                                         *)
(***************************************************************************)
CONSTANTS
  Whole,   \* a result in which nothing is missing
  Told,    \* what is missing, diagnostics tell of
  Unread,  \* what they do not tell of could not be read
  Gap      \* readable files are missing, and nothing tells of them

VARIABLES
  running,  \* "no", "yes" or "returned"
  answer,   \* what Run returned: "none", "error", or one of the four results
  expired   \* has the context's deadline passed?

vars == <<running, answer, expired>>

Answers == {"error", Whole, Told, Unread} \cup (IF expired THEN {Gap} ELSE {})

Init == running = "no" /\ answer = "none" /\ expired \in BOOLEAN

Start == running = "no" /\ running' = "yes" /\ UNCHANGED <<answer, expired>>

Return ==
  /\ running = "yes"
  /\ running' = "returned"
  /\ answer' \in Answers
  /\ UNCHANGED expired

Expire == expired' = TRUE /\ UNCHANGED <<running, answer>>

Next == Start \/ Return \/ Expire

Spec == Init /\ [][Next]_vars
==============================================================================
