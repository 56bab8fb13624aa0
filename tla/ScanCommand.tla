------------------------------ MODULE ScanCommand ------------------------------
(***************************************************************************)
(* The two commands, `scan` and `upload`: a scan is registered with the    *)
(* portal, run under a deadline, judged, written, uploaded, and turned     *)
(* into an exit code.  ScanPipeline.Run is taken at its word (RunPromise,  *)
(* which Pipeline is shown to implement).                                  *)
(***************************************************************************)
EXTENDS PortalClient

CONSTANTS
  Commands,  \* the commands that are run: "scan", "upload"
  Whole, Told, Unread, Gap,  \* the results of Run, see RunPromise
  Running    \* there is no exit code yet

ASSUME CommandConstants ==
  /\ Commands \subseteq {"scan", "upload"}
  /\ Gap \notin {Whole, Told, Unread}
  /\ {NoReport, "error", "none"} \cap {Whole, Told, Unread, Gap} = {}
  /\ Running \notin {0, 1, 2}

VARIABLES
  cmd,           \* the command
  uploading,     \* --server and --token are given (always so for upload)
  pc,            \* where the command is
  running, answer,  \* the call of Run
  report,        \* the report written for the user, or NoReport
  hasFindings,   \* findings that count, admin-accepted ones left out
  scanID,
  uploadFailed,
  exit,          \* the exit code, or Running
  broke          \* the portal has answered CreateScan with a 5xx (history)

commandVars == <<cmd, uploading, pc, report, hasFindings, scanID, uploadFailed, exit>>
vars == <<expired, clientVars, running, answer, commandVars, broke>>

Engine == INSTANCE RunPromise

CommandInit ==
  /\ Engine!Init /\ ~expired
  /\ ClientInit
  /\ cmd \in Commands
  /\ uploading \in IF cmd = "upload" THEN {TRUE} ELSE BOOLEAN
  /\ pc = "start"
  /\ report = NoReport /\ hasFindings = FALSE
  /\ scanID = NoScanID
  /\ uploadFailed = FALSE
  /\ exit = Running
  /\ broke = FALSE

Goto(l) == pc' = l /\ UNCHANGED <<cmd, uploading, report, hasFindings, scanID, uploadFailed, exit>>
Exit(code) ==
  /\ pc' = "exit" /\ exit' = code
  /\ UNCHANGED <<cmd, uploading, report, hasFindings, scanID, uploadFailed>>

EngineIdle == UNCHANGED <<expired, running, answer>>
PortalIdle == UNCHANGED <<clientVars, broke>>

\* --group-by, half a pair of portal flags, or pipeline.New (the rules do not
\* load): an error before anything is registered.
BadUsage ==
  /\ pc = "start"
  /\ Exit(1)
  /\ EngineIdle /\ PortalIdle

StartScan ==
  /\ pc = "start" /\ cmd = "scan"
  /\ Goto(IF uploading THEN "create" ELSE "run")
  /\ EngineIdle /\ PortalIdle

\* upload reads a report that an earlier scan has written.
ReadReport ==
  /\ pc = "start" /\ cmd = "upload"
  /\ pc' = "create"
  /\ report' \in {Whole, Told, Unread}
  /\ UNCHANGED <<cmd, uploading, hasFindings, scanID, uploadFailed, exit>>
  /\ EngineIdle /\ PortalIdle

\* The request the command makes where it is.
OpAt(l) ==
  CASE l = "create" -> "create" [] l = "json" -> "json" [] l = "html" -> "html" [] l = "status" -> "failed"

Ask ==
  /\ pc \in {"create", "json", "html", "status"}
  /\ Request(OpAt(pc), scanID, IF pc \in {"json", "html"} THEN report ELSE NoReport)
  /\ UNCHANGED <<commandVars, broke>>
  /\ EngineIdle

Answer(ok) ==
  /\ call.at = IF ok THEN "ok" ELSE "failed"
  /\ call' = Idle
  /\ UNCHANGED <<wire, scans, broke>>
  /\ EngineIdle

Registered ==
  /\ pc = "create" /\ Answer(TRUE)
  /\ scanID' = call.id
  /\ pc' = IF cmd = "scan" THEN "run" ELSE "json"
  /\ UNCHANGED <<cmd, uploading, report, hasFindings, uploadFailed, exit>>

\* Without a registration the pipeline is not run.
NotRegistered ==
  /\ pc = "create" /\ Answer(FALSE)
  /\ Exit(2)

RunStarts ==
  /\ pc = "run" /\ Engine!Start
  /\ Goto("running")
  /\ PortalIdle

RunReturns ==
  /\ pc = "running" /\ Engine!Return
  /\ Goto("judge")
  /\ PortalIdle

\* Run's error, or a deadline that has passed by now, whatever Run returned.
Failed == answer = "error" \/ expired

\* Mutant of Judge: Run's error alone decides.
JudgeByError ==
  /\ pc = "judge"
  /\ IF answer # "error" THEN Goto("render")
     ELSE IF uploading THEN Goto("status")
     ELSE Exit(1)
  /\ EngineIdle /\ PortalIdle
Judge ==
  /\ pc = "judge"
  /\ IF ~Failed THEN Goto("render")
     ELSE IF uploading THEN Goto("status")
     ELSE Exit(1)
  /\ EngineIdle /\ PortalIdle

\* UpdateStatus "failed", with the same context; its error is only a warning.
StatusTold ==
  /\ pc = "status" /\ \E ok \in BOOLEAN : Answer(ok)
  /\ Exit(1)

\* Mutant of Render: the report is written after it was uploaded.
RenderLast ==
  /\ pc = "render"
  /\ IF uploading THEN Goto("json")
     ELSE /\ report' = answer /\ hasFindings' \in BOOLEAN
          /\ pc' = "decide"
          /\ UNCHANGED <<cmd, uploading, scanID, uploadFailed, exit>>
  /\ EngineIdle /\ PortalIdle
\* Exemptions are applied, the report rendered and written.
Render ==
  /\ pc = "render"
  /\ report' = answer /\ hasFindings' \in BOOLEAN
  /\ pc' = IF uploading THEN "json" ELSE "decide"
  /\ UNCHANGED <<cmd, uploading, scanID, uploadFailed, exit>>
  /\ EngineIdle /\ PortalIdle

\* --format is not known, the output file cannot be created, or Render fails: an
\* error, of which the portal is not told.
RenderFails ==
  /\ pc = "render"
  /\ Exit(1)
  /\ EngineIdle /\ PortalIdle

\* Mutant of JsonUploaded: a failed upload marks the scan failed.
JsonUploadedOrFailed ==
  /\ pc = "json"
  /\ \E ok \in BOOLEAN :
       /\ Answer(ok)
       /\ uploadFailed' = ~ok
       /\ pc' = IF ok THEN "html" ELSE "status"
  /\ UNCHANGED <<cmd, uploading, report, hasFindings, scanID, exit>>
JsonUploaded ==
  /\ pc = "json"
  /\ \E ok \in BOOLEAN : Answer(ok) /\ uploadFailed' = ~ok
  /\ pc' = "html"
  /\ UNCHANGED <<cmd, uploading, report, hasFindings, scanID, exit>>

\* buildUploadJSON fails: nothing is sent.
JsonNotBuilt ==
  /\ pc = "json" /\ cmd = "scan" /\ call = Idle
  /\ uploadFailed' = TRUE
  /\ pc' = "html"
  /\ UNCHANGED <<cmd, uploading, report, hasFindings, scanID, exit>>
  /\ EngineIdle /\ PortalIdle

\* The HTML report is optional: an error is only a warning.
HtmlUploaded ==
  /\ pc = "html" /\ \E ok \in BOOLEAN : Answer(ok)
  /\ Goto("decide")

\* It cannot be rendered, or upload was given none.
NoHtml ==
  /\ pc = "html" /\ call = Idle
  /\ Goto("decide")
  /\ EngineIdle /\ PortalIdle

\* Mutant of ExitCode: findings take precedence.
ExitCodeFindingsFirst(findings, failed) == IF findings THEN 1 ELSE IF failed THEN 2 ELSE 0
\* decideExitCode: a failed upload takes precedence over findings.
ExitCode(findings, failed) == IF failed THEN 2 ELSE IF findings THEN 1 ELSE 0

\* upload does not look at the findings of the report it uploads.
Decide ==
  /\ pc = "decide"
  /\ Exit(ExitCode(hasFindings, uploadFailed))
  /\ EngineIdle /\ PortalIdle

\* The deadline passes.  upload has none: its context is context.Background.
Expire ==
  /\ cmd = "scan" /\ ~expired /\ exit = Running
  /\ Engine!Expire
  /\ UNCHANGED commandVars /\ PortalIdle

Http ==
  /\ ClientStep
  /\ UNCHANGED <<commandVars, broke>> /\ EngineIdle

Backend ==
  /\ Portal
  /\ broke' = (broke \/ (call.op = "create" /\ call'.at = "5xx"))
  /\ UNCHANGED commandVars /\ EngineIdle

CommandStep ==
  \/ BadUsage \/ StartScan \/ ReadReport
  \/ Ask
  \/ Registered \/ NotRegistered
  \/ RunStarts \/ RunReturns
  \/ Judge \/ StatusTold
  \/ Render \/ RenderFails
  \/ JsonUploaded \/ JsonNotBuilt
  \/ HtmlUploaded \/ NoHtml
  \/ Decide

CommandNext == CommandStep \/ Http \/ Backend \/ Expire

CommandSpec == CommandInit /\ [][CommandNext]_vars

\* The process runs, Run returns (Pipeline!RunEnds), and every request ends: an
\* answer comes, or the client's timeout.  Nothing is assumed of the portal.
CommandFairSpec == CommandSpec /\ WF_vars(CommandStep) /\ WF_vars(Http)

------------------------------------------------------------------------------
(* Properties *)

Reports == {Whole, Told, Unread, Gap}

CommandTypeOK ==
  /\ cmd \in Commands /\ uploading \in BOOLEAN
  /\ pc \in {"start", "create", "run", "running", "judge", "status", "render", "json", "html",
             "decide", "exit"}
  /\ running \in {"no", "yes", "returned"} /\ answer \in Reports \cup {"none", "error"}
  /\ report \in Reports \cup {NoReport}
  /\ scanID \in Nat \cup {NoScanID}
  /\ exit \in {Running, 0, 1, 2}
  /\ call.at \in {"idle", "send", "waiting", "2xx", "4xx", "5xx", "ok", "failed"}
  /\ call.attempt \in 0..2
  /\ \A i \in 1..Len(scans) :
       scans[i] \in [status : {"pending", "completed", "failed"},
                     report : Reports \cup {NoReport}, html : BOOLEAN]

\* No report, on disk or on the portal, hides readable files that were not looked
\* at: "A timed-out scan is a failed scan, not a clean one" (scan.go).  The
\* deadline may pass at any point of the run or of the uploads.  (Files that the
\* scanners could not read are passed over without a word, see Pipeline.)
NoSilentGap ==
  /\ report # Gap
  /\ \A i \in 1..Len(scans) : scans[i].report # Gap

\* "A network failure here can never cost the user their local report": whatever
\* the portal was ever sent as a report, the user has.
LocalReportFirst ==
  /\ \A r \in wire : r.op \in {"json", "html"} => report # NoReport /\ r.body = report
  /\ \A i \in 1..Len(scans) :
       /\ scans[i].report \in {NoReport, report}
       /\ scans[i].html => report # NoReport

\* An upload failure "must not be masked": a command that was to upload and ends
\* with a report and without exit code 2 has its report on the portal.
UploadIsNotMasked ==
  exit \in {0, 1} /\ uploading /\ report # NoReport =>
    /\ scanID \in 1..Len(scans)
    /\ scans[scanID].status = "completed" /\ scans[scanID].report = report

\* The portal never gets a second scan for one command unless it answered the
\* first CreateScan with a 5xx: a lost answer is not retried.
TwinsNeedA5xx == Len(scans) <= 1 \/ broke

\* A verdict on the portal is final: a completed scan is never turned into a
\* failed one, nor the reverse, however late requests arrive.
VerdictIsFinal ==
  [][\A i \in 1..Len(scans) :
       scans[i].status # "pending" =>
         scans'[i].status = scans[i].status /\ scans'[i].report = scans[i].report]_vars

\* Every command ends, whatever the portal does.
CommandEnds == <>(exit # Running)

\* "Best-effort: don't leave the portal showing a permanently-pending scan with no
\* explanation" (scan.go): once the status call is over, a portal that never fails
\* has the scan marked failed.
FailedScanIsExplained ==
  pc = "status" /\ call.at \in {"ok", "failed"} => scans[scanID].status = "failed"
==============================================================================
