------------------------------ MODULE FileBatch ------------------------------
(***************************************************************************)
(* What SASTScanner.Scan promises, however many workers it has: once it is *)
(* called with a batch of files, results of files of the batch arrive one  *)
(* by one, each at most once, and the call returns with all of them unless *)
(* the deadline has passed, in which case it may return with fewer and no  *)
(* error says so.                                                          *)
(***************************************************************************)
CONSTANTS Files

VARIABLES
  batch,    \* the files of the call
  reported, \* the files whose results have been gathered
  call,     \* "no", "running" or "returned"
  expired   \* has the context's deadline passed?

vars == <<batch, reported, call, expired>>

Init == batch = {} /\ reported = {} /\ call = "no" /\ expired \in BOOLEAN

Call ==
  /\ call = "no"
  /\ call' = "running"
  /\ batch' \in SUBSET Files
  /\ UNCHANGED <<reported, expired>>

Report ==
  /\ call = "running"
  /\ \E f \in batch \ reported : reported' = reported \cup {f}
  /\ UNCHANGED <<batch, call, expired>>

Return ==
  /\ call = "running"
  /\ reported = batch \/ expired
  /\ call' = "returned"
  /\ UNCHANGED <<batch, reported, expired>>

Expire ==
  /\ expired' = TRUE
  /\ UNCHANGED <<batch, reported, call>>

Next == Call \/ Report \/ Return \/ Expire

Spec == Init /\ [][Next]_vars
==============================================================================
