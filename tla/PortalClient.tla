------------------------------ MODULE PortalClient ------------------------------
(***************************************************************************)
(* internal/portal: one request at a time to the portal, tried again once  *)
(* when the answer is a 5xx, given up on any other failure; and the portal *)
(* itself, which is not in the repository and is modelled by the contract  *)
(* the client is written against.                                          *)
(*                                                                         *)
(* A request the client has given up on may still reach the portal later,  *)
(* and a portal that answers 5xx may have acted on the request all the     *)
(* same (a proxy in front of it timed out).                                *)
(***************************************************************************)
EXTENDS Naturals, Sequences

CONSTANTS
  Faults,    \* what may go wrong: a subset of {"5xx", "4xx", "lost"}
  NoScanID,  \* the scan is not registered
  NoReport   \* nothing has been rendered or uploaded

VARIABLES
  expired,   \* the deadline of the context every request is made with
  call,      \* the call of doRequest: [at, op, id, body, attempt]
  wire,      \* the requests on their way to the portal
  scans      \* the portal's scans, each [status, report, html]; an ID is an index

clientVars == <<call, wire, scans>>

Idle == [at |-> "idle", op |-> "none", id |-> NoScanID, body |-> NoReport, attempt |-> 0]

ClientInit == call = Idle /\ wire = {} /\ scans = <<>>

\* CreateScan, UploadJSON, UploadHTML and UpdateStatus each call doRequest.
Request(op, id, body) ==
  /\ call = Idle
  /\ call' = [at |-> "send", op |-> op, id |-> id, body |-> body, attempt |-> 1]
  /\ UNCHANGED <<wire, scans>>

\* Past the deadline http.Client.Do fails before anything is sent.
Transmit ==
  /\ call.at = "send"
  /\ IF expired
     THEN call' = [call EXCEPT !.at = "failed"] /\ UNCHANGED wire
     ELSE /\ call' = [call EXCEPT !.at = "waiting"]
          /\ wire' = wire \cup {[call EXCEPT !.at = "waiting"]}
  /\ UNCHANGED scans

\* Mutant of GiveUp: a lost answer is retried as well.
GiveUpAfterRetry ==
  /\ call.at \in {"waiting", "2xx", "4xx", "5xx"}
  /\ expired \/ "lost" \in Faults
  /\ call' = IF call.attempt = 1 THEN [call EXCEPT !.at = "send", !.attempt = 2]
                                 ELSE [call EXCEPT !.at = "failed"]
  /\ UNCHANGED <<wire, scans>>

\* A transport error, the client's 60 s timeout, the deadline, a body that cannot
\* be read or decoded: there is no second attempt.
GiveUp ==
  /\ call.at \in {"waiting", "2xx", "4xx", "5xx"}
  /\ expired \/ "lost" \in Faults
  /\ call' = [call EXCEPT !.at = "failed"]
  /\ UNCHANGED <<wire, scans>>

\* Mutants of Answered: a server error is retried for ever; once too often.
AnsweredForever ==
  /\ call.at \in {"2xx", "4xx", "5xx"}
  /\ call' = CASE call.at = "5xx" -> [call EXCEPT !.at = "send"]
               [] call.at = "2xx" -> [call EXCEPT !.at = "ok"]
               [] OTHER           -> [call EXCEPT !.at = "failed"]
  /\ UNCHANGED <<wire, scans>>
AnsweredThrice ==
  /\ call.at \in {"2xx", "4xx", "5xx"}
  /\ call' = CASE call.at = "5xx" /\ call.attempt <= 2 -> [call EXCEPT !.at = "send", !.attempt = @ + 1]
               [] call.at = "2xx" -> [call EXCEPT !.at = "ok"]
               [] OTHER           -> [call EXCEPT !.at = "failed"]
  /\ UNCHANGED <<wire, scans>>

\* The loop of doRequest: after a first 5xx it sleeps and sends the request again.
Answered ==
  /\ call.at \in {"2xx", "4xx", "5xx"}
  /\ call' = CASE call.at = "5xx" /\ call.attempt = 1 -> [call EXCEPT !.at = "send", !.attempt = 2]
               [] call.at = "2xx"                     -> [call EXCEPT !.at = "ok"]
               [] OTHER                               -> [call EXCEPT !.at = "failed"]
  /\ UNCHANGED <<wire, scans>>

ClientStep == Transmit \/ GiveUp \/ Answered

------------------------------------------------------------------------------
(* The portal *)

Pending == [status |-> "pending", report |-> NoReport, html |-> FALSE]

\* What a request does.  Only the JSON report and the status call set the status.
Effect(r) ==
  CASE r.op = "create" -> Append(scans, Pending)
    [] r.op = "json"   -> [scans EXCEPT ![r.id].status = "completed", ![r.id].report = r.body]
    [] r.op = "html"   -> [scans EXCEPT ![r.id].html = TRUE]
    [] r.op = "failed" -> [scans EXCEPT ![r.id].status = "failed"]

\* The answer, if the client still waits for it; CreateScan's carries the new ID.
Reply(r, code) ==
  call' = IF call # r THEN call
          ELSE IF r.op = "create" /\ code = "2xx"
          THEN [call EXCEPT !.at = code, !.id = Len(scans) + 1]
          ELSE [call EXCEPT !.at = code]

Serve(r) ==
  /\ wire' = wire \ {r}
  /\ \/ Reply(r, "2xx") /\ scans' = Effect(r)
     \/ "5xx" \in Faults /\ Reply(r, "5xx") /\ scans' \in {scans, Effect(r)}
     \/ "4xx" \in Faults /\ Reply(r, "4xx") /\ UNCHANGED scans

Portal == \E r \in wire : Serve(r)
==============================================================================
