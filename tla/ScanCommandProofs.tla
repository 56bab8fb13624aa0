--------------------------- MODULE ScanCommandProofs ---------------------------
(***************************************************************************)
(* The safety properties of the two commands, for a portal that may do     *)
(* anything PortalClient lets it do.                                       *)
(***************************************************************************)
EXTENDS ScanCommand, TLAPS

\* The results of Run a report may be made of.
Shown == {Whole, Told, Unread}
Uploads == {"json", "html"}
Stages == {"start", "create", "run", "running", "judge", "status", "render", "json", "html",
           "decide", "exit"}

Calls ==
  [at : {"idle", "send", "waiting", "2xx", "4xx", "5xx", "ok", "failed"},
   op : {"none", "create", "json", "html", "failed"},
   id : Nat \cup {NoScanID}, body : Reports \cup {NoReport}, attempt : 0..2]
Requests == {c \in Calls : c.at = "waiting" /\ c.op # "none"}
Scans ==
  [status : {"pending", "completed", "failed"}, report : Reports \cup {NoReport}, html : BOOLEAN]

\* The types the theorems start from.
TypeInv ==
  /\ cmd \in Commands /\ uploading \in BOOLEAN /\ pc \in Stages
  /\ running \in {"no", "yes", "returned"} /\ answer \in Reports \cup {"none", "error"}
  /\ report \in Shown \cup {NoReport} /\ hasFindings \in BOOLEAN
  /\ scanID \in Nat \cup {NoScanID} /\ uploadFailed \in BOOLEAN
  /\ exit \in {Running, 0, 1, 2}
  /\ expired \in BOOLEAN /\ broke \in BOOLEAN
  /\ call \in Calls
  /\ call.op = "none" => call = Idle
  /\ wire \in SUBSET Requests /\ scans \in Seq(Scans)

\* What Run has answered, and which report there is, wherever the command is.
StageInv ==
  /\ cmd = "upload" => uploading
  /\ answer = Gap => expired
  /\ pc = "judge" => answer \in Reports \cup {"error"}
  /\ pc = "render" => answer \in Shown
  /\ pc \in {"start", "run", "running", "judge", "status", "render"} => report = NoReport
  /\ pc = "create" => (cmd = "scan" /\ report = NoReport) \/ (cmd = "upload" /\ report \in Shown)
  /\ pc \in {"json", "html", "decide"} => report \in Shown
  /\ pc \in {"create", "json", "html", "status"} => uploading
  /\ pc # "exit" => exit = Running

\* The command's scan is one of the portal's; its report is there.
Registry == scanID \in 1..Len(scans)
Done == Registry /\ scans[scanID].status = "completed" /\ scans[scanID].report = report

\* The call in progress is the one the command's place asks for.
CallInv ==
  /\ call # Idle =>
       /\ pc \in {"create", "json", "html", "status"} /\ call.op = OpAt(pc)
       /\ call.body = IF pc \in Uploads THEN report ELSE NoReport
       /\ pc # "create" => call.id = scanID
  /\ call.at \in {"2xx", "ok"} /\ call.op = "create" => call.id \in 1..Len(scans)
  /\ call.at \in {"2xx", "ok"} /\ call.op = "json" => Done

\* A report on its way, or on the portal, is the user's; a scan is only failed
\* by a command that has none.
WireInv ==
  \A r \in wire :
    /\ r.op \in Uploads => r.body = report /\ report # NoReport
    /\ r.op = "failed" => report = NoReport /\ pc \in {"status", "exit"}

ScanInv ==
  \A i \in 1..Len(scans) :
    /\ scans[i].report \in {NoReport, report}
    /\ scans[i].html => report # NoReport
    /\ scans[i].status = "completed" => scans[i].report = report /\ report # NoReport
    /\ scans[i].status = "failed" => report = NoReport /\ pc \in {"status", "exit"}

\* A registered scan stays so, and an upload that did not fail is on the portal.
UploadInv ==
  /\ uploading /\ pc \notin {"start", "create", "exit"} => Registry
  /\ uploading /\ pc \in {"html", "decide"} /\ ~uploadFailed => Done
  /\ exit \in {0, 1} /\ uploading /\ report # NoReport => Done

\* Unless the portal answered 5xx, a scan is created once: by the one request
\* that is prepared, on its way, or was served.
Creations == {r \in wire : r.op = "create"}
TwinInv ==
  ~broke =>
    /\ Len(scans) <= 1
    /\ Creations # {} => scans = <<>>
    /\ \A r, s \in Creations : r = s
    /\ pc = "start" \/ (pc = "create" /\ call.at \in {"idle", "send"}) => scans = <<>> /\ Creations = {}
    /\ ~(call.op = "create" /\ call.at = "5xx")

Inv == TypeInv /\ StageInv /\ CallInv /\ WireInv /\ ScanInv /\ UploadInv /\ TwinInv

\* No request in progress.
LEMMA NoCall == Idle \in Calls /\ Idle.at = "idle" /\ Idle.op = "none"
BY DEF Idle, Calls

\* A call that moves on keeps all its fields but its place.
LEMMA CallMoves ==
  ASSUME NEW c \in Calls, NEW a \in {"idle", "send", "waiting", "2xx", "4xx", "5xx", "ok", "failed"}
  PROVE  LET d == [c EXCEPT !.at = a] IN
           d \in Calls /\ d.at = a /\ d.op = c.op /\ d.id = c.id /\ d.body = c.body
BY DEF Calls

\* A call that is made again is the same call.
LEMMA CallIsRetried ==
  ASSUME NEW c \in Calls
  PROVE  /\ [c EXCEPT !.at = "send", !.attempt = 2] \in Calls
         /\ [c EXCEPT !.at = "send", !.attempt = 2].op = c.op
<1>1. 2 \in 0..2 OBVIOUS
<1>2. QED BY <1>1 DEF Calls

(* The command's own steps *)

\* Nothing has been sent, written or decided.
LEMMA InitInv == CommandInit => Inv
<1> SUFFICES ASSUME CommandInit PROVE Inv OBVIOUS
<1>1. TypeInv
  <2>1. call \in Calls /\ call = Idle BY DEF CommandInit, ClientInit, Idle, Calls
  <2>2. wire \in SUBSET Requests /\ scans \in Seq(Scans) BY DEF CommandInit, ClientInit
  <2>3. expired \in BOOLEAN /\ running = "no" /\ answer = "none" BY DEF CommandInit, Engine!Init
  <2>4. uploading \in BOOLEAN BY DEF CommandInit
  <2>5. QED BY <2>1, <2>2, <2>3, <2>4 DEF CommandInit, TypeInv, Stages
<1>2. StageInv BY CommandConstants DEF CommandInit, Engine!Init, StageInv
<1>3. CallInv /\ WireInv /\ ScanInv /\ UploadInv BY CommandConstants DEF CommandInit, ClientInit, CallInv, WireInv, ScanInv, UploadInv, Idle
<1>4. TwinInv BY DEF CommandInit, ClientInit, TwinInv, Creations, Idle
<1>5. QED BY <1>1, <1>2, <1>3, <1>4 DEF Inv

\* An exit before there is anything to report.
LEMMA BadUsageInv == Inv /\ BadUsage => Inv'
<1> SUFFICES ASSUME Inv, BadUsage PROVE Inv' OBVIOUS
<1> USE CommandConstants DEF BadUsage, EngineIdle, PortalIdle, clientVars, Exit
<1>1. TypeInv' BY DEF Inv, TypeInv, Stages, Shown, Reports
<1>2. StageInv' BY DEF Inv, TypeInv, StageInv, Reports, Shown
<1>3. CallInv' BY DEF Inv, StageInv, CallInv, Uploads, OpAt, Done, Registry, Idle
<1>4. WireInv' BY DEF Inv, StageInv, WireInv
<1>5. ScanInv' BY DEF Inv, StageInv, ScanInv
<1>6. UploadInv' BY DEF Inv, StageInv, UploadInv, Done, Registry
<1>7. TwinInv' BY DEF Inv, StageInv, TwinInv, Creations, Idle
<1>8. QED BY <1>1, <1>2, <1>3, <1>4, <1>5, <1>6, <1>7 DEF Inv

\* The first step of scan: whether a portal is to be told.
LEMMA StartScanInv == Inv /\ StartScan => Inv'
<1> SUFFICES ASSUME Inv, StartScan PROVE Inv' OBVIOUS
<1> USE CommandConstants DEF StartScan, EngineIdle, PortalIdle, clientVars, Goto
<1>1. TypeInv' BY DEF Inv, TypeInv, Stages, Shown, Reports
<1>2. StageInv' BY DEF Inv, TypeInv, StageInv, Reports, Shown
<1>3. CallInv' BY DEF Inv, StageInv, CallInv, Uploads, OpAt, Done, Registry, Idle
<1>4. WireInv' BY DEF Inv, StageInv, WireInv
<1>5. ScanInv' BY DEF Inv, StageInv, ScanInv
<1>6. UploadInv' BY DEF Inv, StageInv, UploadInv, Done, Registry
<1>7. TwinInv' BY DEF Inv, StageInv, TwinInv, Creations, Idle
<1>8. QED BY <1>1, <1>2, <1>3, <1>4, <1>5, <1>6, <1>7 DEF Inv

\* upload brings a report of an earlier scan, which has no silent gap.
LEMMA ReadReportInv == Inv /\ ReadReport => Inv'
<1> SUFFICES ASSUME Inv, ReadReport PROVE Inv' OBVIOUS
<1> USE CommandConstants DEF ReadReport, EngineIdle, PortalIdle, clientVars
<1>1. TypeInv' BY DEF Inv, TypeInv, Stages, Shown, Reports
<1>2. StageInv' BY DEF Inv, TypeInv, StageInv, Reports, Shown
<1>3. CallInv' BY DEF Inv, StageInv, CallInv, Uploads, OpAt, Done, Registry, Idle
<1>4. WireInv' BY DEF Inv, StageInv, WireInv
<1>5. ScanInv' BY DEF Inv, StageInv, ScanInv
<1>6. UploadInv' BY DEF Inv, StageInv, UploadInv, Done, Registry
<1>7. TwinInv' BY DEF Inv, StageInv, TwinInv, Creations, Idle
<1>8. QED BY <1>1, <1>2, <1>3, <1>4, <1>5, <1>6, <1>7 DEF Inv

\* Run is called, the portal idle.
LEMMA RunStartsInv == Inv /\ RunStarts => Inv'
<1> SUFFICES ASSUME Inv, RunStarts PROVE Inv' OBVIOUS
<1> USE CommandConstants DEF RunStarts, EngineIdle, PortalIdle, clientVars, Goto, Engine!Start
<1>1. TypeInv' BY DEF Inv, TypeInv, Stages, Shown, Reports
<1>2. StageInv' BY DEF Inv, TypeInv, StageInv, Reports, Shown
<1>3. CallInv' BY DEF Inv, StageInv, CallInv, Uploads, OpAt, Done, Registry, Idle
<1>4. WireInv' BY DEF Inv, StageInv, WireInv
<1>5. ScanInv' BY DEF Inv, StageInv, ScanInv
<1>6. UploadInv' BY DEF Inv, StageInv, UploadInv, Done, Registry
<1>7. TwinInv' BY DEF Inv, StageInv, TwinInv, Creations, Idle
<1>8. QED BY <1>1, <1>2, <1>3, <1>4, <1>5, <1>6, <1>7 DEF Inv

\* A result with a gap comes only past the deadline.
LEMMA RunReturnsInv == Inv /\ RunReturns => Inv'
<1> SUFFICES ASSUME Inv, RunReturns PROVE Inv' OBVIOUS
<1> USE CommandConstants DEF RunReturns, EngineIdle, PortalIdle, clientVars, Goto, Engine!Return, Engine!Answers
<1>1. TypeInv' BY DEF Inv, TypeInv, Stages, Shown, Reports
<1>2. StageInv' BY DEF Inv, TypeInv, StageInv, Reports, Shown
<1>3. CallInv' BY DEF Inv, StageInv, CallInv, Uploads, OpAt, Done, Registry, Idle
<1>4. WireInv' BY DEF Inv, StageInv, WireInv
<1>5. ScanInv' BY DEF Inv, StageInv, ScanInv
<1>6. UploadInv' BY DEF Inv, StageInv, UploadInv, Done, Registry
<1>7. TwinInv' BY DEF Inv, StageInv, TwinInv, Creations, Idle
<1>8. QED BY <1>1, <1>2, <1>3, <1>4, <1>5, <1>6, <1>7 DEF Inv

\* A gap does not get past the look at the deadline.
LEMMA JudgeInv == Inv /\ Judge => Inv'
<1> SUFFICES ASSUME Inv, Judge PROVE Inv' OBVIOUS
<1> USE CommandConstants DEF Judge, EngineIdle, PortalIdle, clientVars, Goto, Exit, Failed
<1>1. TypeInv' BY DEF Inv, TypeInv, Stages, Shown, Reports
<1>2. StageInv' BY DEF Inv, TypeInv, StageInv, Reports, Shown
<1>3. CallInv' BY DEF Inv, StageInv, CallInv, Uploads, OpAt, Done, Registry, Idle
<1>4. WireInv' BY DEF Inv, StageInv, WireInv
<1>5. ScanInv' BY DEF Inv, StageInv, ScanInv
<1>6. UploadInv' BY DEF Inv, StageInv, UploadInv, Done, Registry
<1>7. TwinInv' BY DEF Inv, StageInv, TwinInv, Creations, Idle
<1>8. QED BY <1>1, <1>2, <1>3, <1>4, <1>5, <1>6, <1>7 DEF Inv

\* The first report of a scan; nothing about one was sent before.
LEMMA RenderInv == Inv /\ Render => Inv'
<1> SUFFICES ASSUME Inv, Render PROVE Inv' OBVIOUS
<1> USE CommandConstants DEF Render, EngineIdle, PortalIdle, clientVars
<1>1. TypeInv' BY DEF Inv, TypeInv, StageInv, Stages, Shown, Reports
<1>2. StageInv' BY DEF Inv, TypeInv, StageInv, Reports, Shown
<1>3. CallInv' BY DEF Inv, StageInv, CallInv, Uploads, OpAt, Done, Registry, Idle
<1>4. WireInv' BY DEF Inv, StageInv, WireInv
<1>5. ScanInv' BY DEF Inv, StageInv, ScanInv
<1>6. UploadInv' BY DEF Inv, StageInv, UploadInv, Done, Registry
<1>7. TwinInv' BY DEF Inv, StageInv, TwinInv, Creations, Idle
<1>8. QED BY <1>1, <1>2, <1>3, <1>4, <1>5, <1>6, <1>7 DEF Inv

\* A scan ends without a report.
LEMMA RenderFailsInv == Inv /\ RenderFails => Inv'
<1> SUFFICES ASSUME Inv, RenderFails PROVE Inv' OBVIOUS
<1> USE CommandConstants DEF RenderFails, EngineIdle, PortalIdle, clientVars, Exit
<1>1. TypeInv' BY DEF Inv, TypeInv, Stages, Shown, Reports
<1>2. StageInv' BY DEF Inv, TypeInv, StageInv, Reports, Shown
<1>3. CallInv' BY DEF Inv, StageInv, CallInv, Uploads, OpAt, Done, Registry, Idle
<1>4. WireInv' BY DEF Inv, StageInv, WireInv
<1>5. ScanInv' BY DEF Inv, StageInv, ScanInv
<1>6. UploadInv' BY DEF Inv, StageInv, UploadInv, Done, Registry
<1>7. TwinInv' BY DEF Inv, StageInv, TwinInv, Creations, Idle
<1>8. QED BY <1>1, <1>2, <1>3, <1>4, <1>5, <1>6, <1>7 DEF Inv

\* A report that is not sent counts as a failed upload.
LEMMA JsonNotBuiltInv == Inv /\ JsonNotBuilt => Inv'
<1> SUFFICES ASSUME Inv, JsonNotBuilt PROVE Inv' OBVIOUS
<1> USE CommandConstants DEF JsonNotBuilt, EngineIdle, PortalIdle, clientVars
<1>1. TypeInv' BY DEF Inv, TypeInv, Stages, Shown, Reports
<1>2. StageInv' BY DEF Inv, TypeInv, StageInv, Reports, Shown
<1>3. CallInv' BY DEF Inv, StageInv, CallInv, Uploads, OpAt, Done, Registry, Idle
<1>4. WireInv' BY DEF Inv, StageInv, WireInv
<1>5. ScanInv' BY DEF Inv, StageInv, ScanInv
<1>6. UploadInv' BY DEF Inv, StageInv, UploadInv, Done, Registry
<1>7. TwinInv' BY DEF Inv, StageInv, TwinInv, Creations, Idle
<1>8. QED BY <1>1, <1>2, <1>3, <1>4, <1>5, <1>6, <1>7 DEF Inv

\* The HTML report is not sent.
LEMMA NoHtmlInv == Inv /\ NoHtml => Inv'
<1> SUFFICES ASSUME Inv, NoHtml PROVE Inv' OBVIOUS
<1> USE CommandConstants DEF NoHtml, EngineIdle, PortalIdle, clientVars, Goto
<1>1. TypeInv' BY DEF Inv, TypeInv, Stages, Shown, Reports
<1>2. StageInv' BY DEF Inv, TypeInv, StageInv, Reports, Shown
<1>3. CallInv' BY DEF Inv, StageInv, CallInv, Uploads, OpAt, Done, Registry, Idle
<1>4. WireInv' BY DEF Inv, StageInv, WireInv
<1>5. ScanInv' BY DEF Inv, StageInv, ScanInv
<1>6. UploadInv' BY DEF Inv, StageInv, UploadInv, Done, Registry
<1>7. TwinInv' BY DEF Inv, StageInv, TwinInv, Creations, Idle
<1>8. QED BY <1>1, <1>2, <1>3, <1>4, <1>5, <1>6, <1>7 DEF Inv

\* Exit 0 or 1 only when nothing is missing on the portal.
LEMMA DecideInv == Inv /\ Decide => Inv'
<1> SUFFICES ASSUME Inv, Decide PROVE Inv' OBVIOUS
<1> USE CommandConstants DEF Decide, EngineIdle, PortalIdle, clientVars, Exit, ExitCode
<1>1. TypeInv' BY DEF Inv, TypeInv, Stages, Shown, Reports
<1>2. StageInv' BY DEF Inv, TypeInv, StageInv, Reports, Shown
<1>3. CallInv' BY DEF Inv, StageInv, CallInv, Uploads, OpAt, Done, Registry, Idle
<1>4. WireInv' BY DEF Inv, StageInv, WireInv
<1>5. ScanInv' BY DEF Inv, StageInv, ScanInv
<1>6. UploadInv' BY DEF Inv, StageInv, UploadInv, Done, Registry
<1>7. TwinInv' BY DEF Inv, StageInv, TwinInv, Creations, Idle
<1>8. QED BY <1>1, <1>2, <1>3, <1>4, <1>5, <1>6, <1>7 DEF Inv

\* The deadline passes anywhere.
LEMMA ExpireInv == Inv /\ Expire => Inv'
<1> SUFFICES ASSUME Inv, Expire PROVE Inv' OBVIOUS
<1> USE CommandConstants DEF Expire, EngineIdle, PortalIdle, clientVars, Engine!Expire, commandVars
<1>1. TypeInv' BY DEF Inv, TypeInv, Stages, Shown, Reports
<1>2. StageInv' BY DEF Inv, TypeInv, StageInv, Reports, Shown
<1>3. CallInv' BY DEF Inv, StageInv, CallInv, Uploads, OpAt, Done, Registry, Idle
<1>4. WireInv' BY DEF Inv, StageInv, WireInv
<1>5. ScanInv' BY DEF Inv, StageInv, ScanInv
<1>6. UploadInv' BY DEF Inv, StageInv, UploadInv, Done, Registry
<1>7. TwinInv' BY DEF Inv, StageInv, TwinInv, Creations, Idle
<1>8. QED BY <1>1, <1>2, <1>3, <1>4, <1>5, <1>6, <1>7 DEF Inv

(* The command's calls of the portal *)

\* A request carries what its place asks for.
LEMMA AskInv ==
  ASSUME Inv, Ask PROVE Inv'
<1> USE CommandConstants DEF Ask, EngineIdle, Request, clientVars, commandVars, OpAt
<1>1. TypeInv'
  <2>1. OpAt(pc) \in {"create", "json", "html", "failed"} OBVIOUS
  <2>2. report \in Reports \cup {NoReport} BY DEF Inv, TypeInv, Shown, Reports
  <2>3. call' \in Calls /\ call'.op # "none" BY <2>1, <2>2 DEF Inv, TypeInv, Calls
  <2>4. QED BY <2>3 DEF Inv, TypeInv
<1>2. StageInv' BY DEF Inv, TypeInv, StageInv, Reports, Shown
<1>3. CallInv' BY DEF Inv, TypeInv, StageInv, CallInv, Uploads, OpAt, Done, Registry, Idle, Calls
<1>4. WireInv' BY DEF Inv, TypeInv, StageInv, CallInv, WireInv, Uploads, OpAt, Idle, Shown
<1>5. ScanInv' BY DEF Inv, StageInv, ScanInv
<1>6. UploadInv' BY DEF Inv, StageInv, CallInv, UploadInv, Done, Registry, OpAt
<1>7. TwinInv' BY DEF Inv, StageInv, CallInv, TwinInv, Creations, Idle, OpAt
<1>8. QED BY <1>1, <1>2, <1>3, <1>4, <1>5, <1>6, <1>7 DEF Inv

\* The scan the portal answered with is the command's.
LEMMA RegisteredInv ==
  ASSUME Inv, Registered PROVE Inv'
<1> USE CommandConstants DEF Registered, EngineIdle, Answer, Idle
<1>1. TypeInv' BY DEF Inv, TypeInv, Stages, Shown, Reports, Calls, Idle
<1>2. StageInv' BY DEF Inv, TypeInv, StageInv, Reports, Shown
<1>3. CallInv' BY DEF Inv, TypeInv, StageInv, CallInv, Uploads, OpAt, Done, Registry, Idle, Calls
<1>4. WireInv' BY DEF Inv, TypeInv, StageInv, CallInv, WireInv, Uploads, OpAt, Idle, Shown
<1>5. ScanInv' BY DEF Inv, StageInv, ScanInv
<1>6. UploadInv' BY DEF Inv, StageInv, CallInv, UploadInv, Done, Registry, OpAt
<1>7. TwinInv' BY DEF Inv, StageInv, CallInv, TwinInv, Creations, Idle, OpAt
<1>8. QED BY <1>1, <1>2, <1>3, <1>4, <1>5, <1>6, <1>7 DEF Inv

\* Exit 2 without a registration.
LEMMA NotRegisteredInv ==
  ASSUME Inv, NotRegistered PROVE Inv'
<1> USE CommandConstants DEF NotRegistered, EngineIdle, Answer, Idle, Exit
<1>1. TypeInv' BY DEF Inv, TypeInv, Stages, Shown, Reports, Calls, Idle
<1>2. StageInv' BY DEF Inv, TypeInv, StageInv, Reports, Shown
<1>3. CallInv' BY DEF Inv, TypeInv, StageInv, CallInv, Uploads, OpAt, Done, Registry, Idle, Calls
<1>4. WireInv' BY DEF Inv, TypeInv, StageInv, CallInv, WireInv, Uploads, OpAt, Idle, Shown
<1>5. ScanInv' BY DEF Inv, StageInv, ScanInv
<1>6. UploadInv' BY DEF Inv, StageInv, CallInv, UploadInv, Done, Registry, OpAt
<1>7. TwinInv' BY DEF Inv, StageInv, CallInv, TwinInv, Creations, Idle, OpAt
<1>8. QED BY <1>1, <1>2, <1>3, <1>4, <1>5, <1>6, <1>7 DEF Inv

\* A scan that failed has no report.
LEMMA StatusToldInv ==
  ASSUME Inv, StatusTold PROVE Inv'
<1> USE CommandConstants DEF StatusTold, EngineIdle, Answer, Idle, Exit
<1>1. TypeInv' BY DEF Inv, TypeInv, Stages, Shown, Reports, Calls, Idle
<1>2. StageInv' BY DEF Inv, TypeInv, StageInv, Reports, Shown
<1>3. CallInv' BY DEF Inv, TypeInv, StageInv, CallInv, Uploads, OpAt, Done, Registry, Idle, Calls
<1>4. WireInv' BY DEF Inv, TypeInv, StageInv, CallInv, WireInv, Uploads, OpAt, Idle, Shown
<1>5. ScanInv' BY DEF Inv, StageInv, ScanInv
<1>6. UploadInv' BY DEF Inv, StageInv, CallInv, UploadInv, Done, Registry, OpAt
<1>7. TwinInv' BY DEF Inv, StageInv, CallInv, TwinInv, Creations, Idle, OpAt
<1>8. QED BY <1>1, <1>2, <1>3, <1>4, <1>5, <1>6, <1>7 DEF Inv

\* An accepted upload is on the portal.
LEMMA JsonUploadedInv ==
  ASSUME Inv, JsonUploaded PROVE Inv'
<1> USE CommandConstants DEF JsonUploaded, EngineIdle, Answer, Idle
<1>1. TypeInv' BY DEF Inv, TypeInv, Stages, Shown, Reports, Calls, Idle
<1>2. StageInv' BY DEF Inv, TypeInv, StageInv, Reports, Shown
<1>3. CallInv' BY DEF Inv, TypeInv, StageInv, CallInv, Uploads, OpAt, Done, Registry, Idle, Calls
<1>4. WireInv' BY DEF Inv, TypeInv, StageInv, CallInv, WireInv, Uploads, OpAt, Idle, Shown
<1>5. ScanInv' BY DEF Inv, StageInv, ScanInv
<1>6. UploadInv'
  <2>1. PICK ok \in BOOLEAN : Answer(ok) /\ uploadFailed' = ~ok OBVIOUS
  <2>2. CASE ok = TRUE
    <3>1. call # Idle /\ call.at = "ok" BY <2>1, <2>2
    <3>2. call.op = "json" BY <3>1 DEF Inv, CallInv, OpAt
    <3>3. Done BY <3>1, <3>2 DEF Inv, CallInv
    <3>4. QED BY <3>3, <2>1 DEF Inv, StageInv, UploadInv, Done, Registry
  <2>3. CASE ok = FALSE
    <3>1. uploadFailed' = TRUE BY <2>1, <2>3
    <3>2. QED BY <3>1, <2>1 DEF Inv, StageInv, UploadInv, Done, Registry
  <2>4. QED BY <2>2, <2>3
<1>7. TwinInv' BY DEF Inv, StageInv, CallInv, TwinInv, Creations, Idle, OpAt
<1>8. QED BY <1>1, <1>2, <1>3, <1>4, <1>5, <1>6, <1>7 DEF Inv

\* The HTML upload changes no verdict.
LEMMA HtmlUploadedInv ==
  ASSUME Inv, HtmlUploaded PROVE Inv'
<1> USE CommandConstants DEF HtmlUploaded, EngineIdle, Answer, Idle, Goto
<1>1. TypeInv' BY DEF Inv, TypeInv, Stages, Shown, Reports, Calls, Idle
<1>2. StageInv' BY DEF Inv, TypeInv, StageInv, Reports, Shown
<1>3. CallInv' BY DEF Inv, TypeInv, StageInv, CallInv, Uploads, OpAt, Done, Registry, Idle, Calls
<1>4. WireInv' BY DEF Inv, TypeInv, StageInv, CallInv, WireInv, Uploads, OpAt, Idle, Shown
<1>5. ScanInv' BY DEF Inv, StageInv, ScanInv
<1>6. UploadInv' BY DEF Inv, StageInv, CallInv, UploadInv, Done, Registry, OpAt
<1>7. TwinInv' BY DEF Inv, StageInv, CallInv, TwinInv, Creations, Idle, OpAt
<1>8. QED BY <1>1, <1>2, <1>3, <1>4, <1>5, <1>6, <1>7 DEF Inv

\* A request on its way is the one the command has just prepared.
LEMMA TransmitInv ==
  ASSUME Inv, Transmit, UNCHANGED <<commandVars, broke>>, EngineIdle PROVE Inv'
<1> USE CommandConstants DEF Transmit, EngineIdle, commandVars
<1> DEFINE sent == [call EXCEPT !.at = "waiting"]
           dead == [call EXCEPT !.at = "failed"]
<1>a. call \in Calls /\ call # Idle /\ call.at = "send" BY NoCall DEF Inv, TypeInv
<1>b. sent \in Calls /\ sent.at = "waiting" /\ sent.op = call.op /\ sent.id = call.id /\ sent.body = call.body
  BY <1>a, CallMoves
<1>c. dead \in Calls /\ dead.at = "failed" /\ dead.op = call.op /\ dead.id = call.id /\ dead.body = call.body
  BY <1>a, CallMoves
<1>d. \/ expired /\ call' = dead /\ wire' = wire
      \/ ~expired /\ call' = sent /\ wire' = wire \cup {sent}
  OBVIOUS
<1> HIDE DEF sent, dead
<1>e. /\ pc \in {"create", "json", "html", "status"} /\ call.op = OpAt(pc)
      /\ call.op \in {"create", "json", "html", "failed"}
      /\ call.body = IF pc \in Uploads THEN report ELSE NoReport
      /\ pc # "create" => call.id = scanID
  BY <1>a DEF Inv, CallInv, OpAt
<1>f. UNCHANGED <<scans, pc, cmd, uploading, report, hasFindings, scanID, uploadFailed, exit, broke, expired, running, answer>>
  OBVIOUS
<1>1. TypeInv'
  <2>1. call' \in Calls /\ call'.op # "none" BY <1>b, <1>c, <1>d, <1>e
  <2>2. sent \in Requests BY <1>b, <1>e DEF Requests
  <2>3. wire' \in SUBSET Requests BY <2>2, <1>d DEF Inv, TypeInv
  <2>4. QED BY <2>1, <2>3, <1>f DEF Inv, TypeInv
<1>2. StageInv' BY <1>f DEF Inv, TypeInv, StageInv
<1>3. CallInv'
  <2>1. call'.at \notin {"2xx", "ok"} /\ call'.op = call.op /\ call'.id = call.id /\ call'.body = call.body
    BY <1>b, <1>c, <1>d
  <2>2. QED BY <2>1, <1>e, <1>f DEF CallInv, OpAt
<1>4. WireInv'
  <2>1. sent.op \in Uploads => sent.body = report /\ report # NoReport
    BY <1>b, <1>e, CommandConstants DEF Uploads, OpAt, Inv, StageInv, Shown
  <2>2. sent.op = "failed" => report = NoReport /\ pc \in {"status", "exit"}
    BY <1>b, <1>e DEF OpAt, Inv, StageInv
  <2>3. QED BY <2>1, <2>2, <1>d, <1>f DEF Inv, WireInv
<1>5. ScanInv' BY <1>f DEF Inv, ScanInv
<1>6. UploadInv' BY <1>f DEF Inv, UploadInv, Done, Registry
<1>7. TwinInv'
  <2>1. CASE call.op # "create"
    <3>1. Creations' = Creations BY <2>1, <1>b, <1>d DEF Creations
    <3>2. pc # "create" BY <2>1, <1>e DEF OpAt
    <3>3. call'.op # "create" BY <2>1, <1>b, <1>c, <1>d
    <3>4. QED BY <3>1, <3>2, <3>3, <1>f DEF Inv, TwinInv
  <2>2. CASE call.op = "create"
    <3>1. pc = "create" BY <2>2, <1>e DEF OpAt
    <3>2. ~broke => scans = <<>> /\ Creations = {} BY <3>1, <1>a DEF Inv, TwinInv
    <3>3. Creations' \subseteq Creations \cup {sent} BY <1>d DEF Creations
    <3>4. call'.at \in {"waiting", "failed"} BY <1>b, <1>c, <1>d
    <3>5. QED BY <3>1, <3>2, <3>3, <3>4, <1>f DEF TwinInv
  <2>3. QED BY <2>1, <2>2
<1>8. QED BY <1>1, <1>2, <1>3, <1>4, <1>5, <1>6, <1>7 DEF Inv

\* A request that is given up may stay on its way.
LEMMA GiveUpInv ==
  ASSUME Inv, GiveUp, UNCHANGED <<commandVars, broke>>, EngineIdle PROVE Inv'
<1> USE CommandConstants DEF GiveUp, EngineIdle, commandVars
<1>1. TypeInv'
  <2>1. call \in Calls /\ call # Idle /\ call.op # "none" BY NoCall DEF Inv, TypeInv
  <2>2. call' \in Calls /\ call'.op # "none" BY <2>1 DEF Calls
  <2>3. QED BY <2>2 DEF Inv, TypeInv
<1>2. StageInv' BY DEF Inv, TypeInv, StageInv, Reports, Shown
<1>3. CallInv' BY DEF Inv, TypeInv, StageInv, CallInv, Uploads, OpAt, Done, Registry, Idle, Calls
<1>4. WireInv' BY DEF Inv, TypeInv, StageInv, CallInv, WireInv, Uploads, OpAt, Idle, Shown
<1>5. ScanInv' BY DEF Inv, StageInv, ScanInv
<1>6. UploadInv' BY DEF Inv, StageInv, CallInv, UploadInv, Done, Registry, OpAt
<1>7. TwinInv' BY DEF Inv, StageInv, CallInv, TwinInv, Creations, Idle, OpAt
<1>8. QED BY <1>1, <1>2, <1>3, <1>4, <1>5, <1>6, <1>7 DEF Inv

\* A first 5xx sends the request again; a creation is then no longer the only one.
LEMMA AnsweredInv ==
  ASSUME Inv, Answered, UNCHANGED <<commandVars, broke>>, EngineIdle PROVE Inv'
<1> USE CommandConstants DEF Answered, EngineIdle, commandVars
<1>1. TypeInv'
  <2>1. call \in Calls /\ call # Idle /\ call.op # "none" BY NoCall DEF Inv, TypeInv
  <2>2. CASE call.at = "5xx" /\ call.attempt = 1
    <3>1. call' = [call EXCEPT !.at = "send", !.attempt = 2] BY <2>2
    <3>2. call' \in Calls /\ call'.op # "none" BY <2>1, <3>1, CallIsRetried
    <3>3. QED BY <3>2 DEF Inv, TypeInv
  <2>3. CASE ~(call.at = "5xx" /\ call.attempt = 1)
    <3>1. PICK a \in {"ok", "failed"} : call' = [call EXCEPT !.at = a] BY <2>3
    <3>2. [call EXCEPT !.at = a] \in Calls /\ [call EXCEPT !.at = a].op = call.op
      <4>1. call \in Calls BY <2>1
      <4>2. a \in {"idle", "send", "waiting", "2xx", "4xx", "5xx", "ok", "failed"} OBVIOUS
      <4> HIDE DEF Answered
      <4>3. QED BY <4>1, <4>2, CallMoves
    <3>3. call' \in Calls /\ call'.op # "none" BY <2>1, <3>1, <3>2
    <3>4. QED BY <3>3 DEF Inv, TypeInv
  <2>4. QED BY <2>2, <2>3
<1>2. StageInv' BY DEF Inv, TypeInv, StageInv, Reports, Shown
<1>3. CallInv' BY DEF Inv, TypeInv, StageInv, CallInv, Uploads, OpAt, Done, Registry, Idle, Calls
<1>4. WireInv' BY DEF Inv, TypeInv, StageInv, CallInv, WireInv, Uploads, OpAt, Idle, Shown
<1>5. ScanInv' BY DEF Inv, StageInv, ScanInv
<1>6. UploadInv' BY DEF Inv, StageInv, CallInv, UploadInv, Done, Registry, OpAt
<1>7. TwinInv' BY DEF Inv, StageInv, CallInv, TwinInv, Creations, Idle, OpAt
<1>8. QED BY <1>1, <1>2, <1>3, <1>4, <1>5, <1>6, <1>7 DEF Inv

(* The portal *)

\* What serving a request may do to one scan.
Change(r, old, new) ==
  \/ new = old
  \/ r.op = "json" /\ new.status = "completed" /\ new.report = r.body /\ new.html = old.html
  \/ r.op = "html" /\ new.status = old.status /\ new.report = old.report
  \/ r.op = "failed" /\ new.status = "failed" /\ new.report = old.report /\ new.html = old.html

\* A sequence changed in place keeps its type and length.
LEMMA SameShape ==
  ASSUME NEW S, NEW q \in Seq(S), NEW e \in [1..Len(q) -> S]
  PROVE  e \in Seq(S) /\ Len(e) = Len(q)
OBVIOUS

\* A JSON report completes a scan.
LEMMA CompletedScan ==
  ASSUME NEW t \in Scans, NEW b \in Reports \cup {NoReport}
  PROVE  LET u == [t EXCEPT !.status = "completed", !.report = b] IN
           u \in Scans /\ u.status = "completed" /\ u.report = b /\ u.html = t.html
BY DEF Scans

\* An HTML report changes nothing else.
LEMMA HtmlScan ==
  ASSUME NEW t \in Scans
  PROVE  LET u == [t EXCEPT !.html = TRUE] IN
           u \in Scans /\ u.status = t.status /\ u.report = t.report
BY DEF Scans

\* A status call marks a scan failed.
LEMMA FailedScan ==
  ASSUME NEW t \in Scans
  PROVE  LET u == [t EXCEPT !.status = "failed"] IN
           u \in Scans /\ u.status = "failed" /\ u.report = t.report /\ u.html = t.html
BY DEF Scans

\* A request changes its own scan, or appends one.
LEMMA EffectOnScans ==
  ASSUME scans \in Seq(Scans), NEW r \in Requests
  PROVE  /\ Effect(r) \in Seq(Scans)
         /\ Len(Effect(r)) = IF r.op = "create" THEN Len(scans) + 1 ELSE Len(scans)
         /\ \A i \in 1..Len(scans) : Change(r, scans[i], Effect(r)[i])
         /\ r.op = "create" => Effect(r)[Len(scans) + 1] = Pending
         /\ r.op = "json" /\ r.id \in 1..Len(scans) =>
              Effect(r)[r.id].status = "completed" /\ Effect(r)[r.id].report = r.body
<1> DEFINE e == Effect(r)
<1>1. /\ Len(scans) \in Nat /\ DOMAIN scans = 1..Len(scans) /\ \A i \in 1..Len(scans) : scans[i] \in Scans
      /\ scans \in [1..Len(scans) -> Scans]
  OBVIOUS
<1>2. r.op \in {"create", "json", "html", "failed"} /\ r.body \in Reports \cup {NoReport}
  BY DEF Requests, Calls
<1>3. Pending \in Scans BY DEF Pending, Scans
<1>4. CASE r.op = "create"
  <2>1. Effect(r) = Append(scans, Pending) BY <1>4 DEF Effect
  <2>2. QED BY <1>1, <1>3, <1>4, <2>1 DEF Change
<1>5. CASE r.op = "json"
  <2> DEFINE turned(t) == [t EXCEPT !.status = "completed", !.report = r.body]
  <2>1. e = [scans EXCEPT ![r.id] = turned(@)] BY <1>5 DEF Effect
  <2>2. \A t \in Scans : /\ turned(t) \in Scans /\ turned(t).html = t.html
                        /\ turned(t).status = "completed" /\ turned(t).report = r.body
    BY <1>2, CompletedScan
  <2> HIDE DEF turned, e
  <2>3. /\ e \in [1..Len(scans) -> Scans]
        /\ \A i \in 1..Len(scans) : e[i] = IF i = r.id THEN turned(scans[i]) ELSE scans[i]
    BY <1>1, <2>1, <2>2
  <2>4. e \in Seq(Scans) /\ Len(e) = Len(scans) BY <2>3, SameShape
  <2>5. \A i \in 1..Len(scans) : Change(r, scans[i], e[i])
    BY <1>1, <1>5, <2>2, <2>3 DEF Change
  <2>6. r.op = "json" /\ r.id \in 1..Len(scans) => e[r.id].status = "completed" /\ e[r.id].report = r.body
    BY <1>1, <1>5, <2>2, <2>3
  <2>7. QED BY <1>5, <2>4, <2>5, <2>6 DEF e
<1>6. CASE r.op = "html"
  <2> DEFINE turned(t) == [t EXCEPT !.html = TRUE]
  <2>1. e = [scans EXCEPT ![r.id] = turned(@)] BY <1>6 DEF Effect
  <2>2. \A t \in Scans : /\ turned(t) \in Scans
                        /\ turned(t).status = t.status /\ turned(t).report = t.report
    BY <1>2, HtmlScan
  <2> HIDE DEF turned, e
  <2>3. /\ e \in [1..Len(scans) -> Scans]
        /\ \A i \in 1..Len(scans) : e[i] = IF i = r.id THEN turned(scans[i]) ELSE scans[i]
    BY <1>1, <2>1, <2>2
  <2>4. e \in Seq(Scans) /\ Len(e) = Len(scans) BY <2>3, SameShape
  <2>5. \A i \in 1..Len(scans) : Change(r, scans[i], e[i])
    BY <1>1, <1>6, <2>2, <2>3 DEF Change
  <2>6. r.op = "json" /\ r.id \in 1..Len(scans) => e[r.id].status = "completed" /\ e[r.id].report = r.body
    BY <1>1, <1>6, <2>2, <2>3
  <2>7. QED BY <1>6, <2>4, <2>5, <2>6 DEF e
<1>7. CASE r.op = "failed"
  <2> DEFINE turned(t) == [t EXCEPT !.status = "failed"]
  <2>1. e = [scans EXCEPT ![r.id] = turned(@)] BY <1>7 DEF Effect
  <2>2. \A t \in Scans : /\ turned(t) \in Scans /\ turned(t).html = t.html
                        /\ turned(t).status = "failed" /\ turned(t).report = t.report
    BY <1>2, FailedScan
  <2> HIDE DEF turned, e
  <2>3. /\ e \in [1..Len(scans) -> Scans]
        /\ \A i \in 1..Len(scans) : e[i] = IF i = r.id THEN turned(scans[i]) ELSE scans[i]
    BY <1>1, <2>1, <2>2
  <2>4. e \in Seq(Scans) /\ Len(e) = Len(scans) BY <2>3, SameShape
  <2>5. \A i \in 1..Len(scans) : Change(r, scans[i], e[i])
    BY <1>1, <1>7, <2>2, <2>3 DEF Change
  <2>6. r.op = "json" /\ r.id \in 1..Len(scans) => e[r.id].status = "completed" /\ e[r.id].report = r.body
    BY <1>1, <1>7, <2>2, <2>3
  <2>7. QED BY <1>7, <2>4, <2>5, <2>6 DEF e
<1>8. QED BY <1>2, <1>4, <1>5, <1>6, <1>7

\* Serving a request: what becomes of the portal's scans and of the call.
LEMMA ServeSteps ==
  ASSUME Inv, NEW r \in wire, Serve(r)
  PROVE  /\ r \in Requests /\ wire' = wire \ {r}
         /\ scans' \in Seq(Scans) /\ Len(scans') >= Len(scans)
         /\ Len(scans') \in {Len(scans), Len(scans) + 1}
         /\ Len(scans') # Len(scans) => r.op = "create" /\ scans'[Len(scans) + 1] = Pending
         /\ \A i \in 1..Len(scans) : Change(r, scans[i], scans'[i])
         /\ call' = call \/ call = r
         /\ call = r =>
              /\ call' \in Calls /\ call'.op = r.op /\ call'.body = r.body
              /\ call'.at \in {"2xx", "4xx", "5xx"}
              /\ r.op # "create" => call'.id = r.id
              /\ call'.at = "2xx" /\ r.op = "create" => call'.id \in 1..Len(scans')
              /\ call'.at = "2xx" /\ r.op = "json" /\ r.id \in 1..Len(scans) =>
                   scans'[r.id].status = "completed" /\ scans'[r.id].report = r.body
<1>1. r \in Requests /\ r \in Calls /\ wire' = wire \ {r} BY DEF Inv, TypeInv, Serve, Requests
<1>2. scans \in Seq(Scans) /\ Len(scans) \in Nat BY DEF Inv, TypeInv
<1>3. /\ Effect(r) \in Seq(Scans)
      /\ Len(Effect(r)) = IF r.op = "create" THEN Len(scans) + 1 ELSE Len(scans)
      /\ \A i \in 1..Len(scans) : Change(r, scans[i], Effect(r)[i])
      /\ r.op = "create" => Effect(r)[Len(scans) + 1] = Pending
      /\ r.op = "json" /\ r.id \in 1..Len(scans) =>
           Effect(r)[r.id].status = "completed" /\ Effect(r)[r.id].report = r.body
  BY <1>1, <1>2, EffectOnScans
<1>4. PICK code \in {"2xx", "4xx", "5xx"} :
        /\ Reply(r, code)
        /\ scans' = scans \/ scans' = Effect(r)
        /\ code = "2xx" => scans' = Effect(r)
  BY DEF Serve
<1>5. /\ scans' \in Seq(Scans) /\ Len(scans') >= Len(scans)
      /\ Len(scans') \in {Len(scans), Len(scans) + 1}
      /\ Len(scans') # Len(scans) => r.op = "create" /\ scans'[Len(scans) + 1] = Pending
      /\ \A i \in 1..Len(scans) : Change(r, scans[i], scans'[i])
  <2>1. CASE scans' = scans BY <2>1, <1>2 DEF Change
  <2>2. CASE scans' = Effect(r)
    <3> HIDE DEF Effect
    <3>1. QED BY <2>2, <1>2, <1>3
  <2>3. QED BY <2>1, <2>2, <1>4
<1>6. call' = call \/ call = r BY <1>4 DEF Reply
<1>7. ASSUME call = r
      PROVE  /\ call' \in Calls /\ call'.op = r.op /\ call'.body = r.body /\ call'.at = code
             /\ r.op # "create" => call'.id = r.id
             /\ code = "2xx" /\ r.op = "create" => call'.id = Len(scans) + 1
  <2>1. CASE r.op = "create" /\ code = "2xx"
    <3>1. call' = [call EXCEPT !.at = code, !.id = Len(scans) + 1] BY <1>4, <1>7, <2>1 DEF Reply
    <3>2. Len(scans) + 1 \in Nat BY <1>2
    <3>3. QED BY <3>1, <3>2, <1>1, <1>7, <2>1 DEF Calls
  <2>2. CASE ~(r.op = "create" /\ code = "2xx")
    <3>1. call' = [call EXCEPT !.at = code] BY <1>4, <1>7, <2>2 DEF Reply
    <3>2. QED BY <3>1, <1>1, <1>7, <2>2 DEF Calls
  <2>3. QED BY <2>1, <2>2
<1>8. code = "2xx" /\ r.op = "create" => Len(scans) + 1 \in 1..Len(scans')
  BY <1>2, <1>3, <1>4
<1>9. code = "2xx" /\ r.op = "json" /\ r.id \in 1..Len(scans) =>
        scans'[r.id].status = "completed" /\ scans'[r.id].report = r.body
  BY <1>3, <1>4
<1>10. QED BY <1>1, <1>4, <1>5, <1>6, <1>7, <1>8, <1>9

\* A verdict stands, whatever request is served.
LEMMA VerdictStands ==
  ASSUME Inv, NEW r \in wire, Serve(r), NEW i \in 1..Len(scans), scans[i].status # "pending"
  PROVE  /\ i \in 1..Len(scans')
         /\ scans'[i].status = scans[i].status /\ scans'[i].report = scans[i].report
<1>1. Change(r, scans[i], scans'[i]) /\ i \in 1..Len(scans')
  <2>1. Len(scans) \in Nat BY DEF Inv, TypeInv
  <2>2. Len(scans') \in {Len(scans), Len(scans) + 1} /\ Change(r, scans[i], scans'[i]) BY ServeSteps
  <2>3. QED BY <2>1, <2>2
<1>2. scans[i].status \in {"completed", "failed"}
  <2>1. scans[i] \in Scans BY DEF Inv, TypeInv
  <2>2. QED BY <2>1 DEF Scans
<1>3. r.op = "json" => r.body = report /\ report # NoReport BY DEF Inv, WireInv, Uploads
<1>4. r.op = "failed" => report = NoReport BY DEF Inv, WireInv
<1>5. /\ scans[i].status = "completed" => scans[i].report = report /\ report # NoReport
      /\ scans[i].status = "failed" => report = NoReport
  BY DEF Inv, ScanInv
<1>6. QED BY <1>1, <1>2, <1>3, <1>4, <1>5 DEF Change

\* The portal serves any request that is on its way, in any order.
LEMMA ServeInv ==
  ASSUME Inv, NEW r \in wire, Serve(r), UNCHANGED commandVars, EngineIdle,
         broke' = (broke \/ (call.op = "create" /\ call'.at = "5xx"))
  PROVE  Inv'
<1>1. UNCHANGED <<pc, cmd, uploading, report, hasFindings, scanID, uploadFailed, exit, expired, running, answer>>
  BY DEF commandVars, EngineIdle
<1>2. /\ r \in Requests /\ wire' = wire \ {r} /\ r.op # "none" /\ r.at = "waiting"
      /\ scans' \in Seq(Scans) /\ Len(scans') \in Nat /\ Len(scans) \in Nat
      /\ Len(scans') \in {Len(scans), Len(scans) + 1}
      /\ Len(scans') # Len(scans) => r.op = "create" /\ scans'[Len(scans) + 1] = Pending
      /\ \A i \in 1..Len(scans) : Change(r, scans[i], scans'[i])
      /\ call' = call \/ call = r
  BY ServeSteps DEF Requests, Inv, TypeInv
<1>3. call = r =>
        /\ call' \in Calls /\ call'.op = r.op /\ call'.body = r.body
        /\ call'.at \in {"2xx", "4xx", "5xx"}
        /\ r.op # "create" => call'.id = r.id
        /\ call'.at = "2xx" /\ r.op = "create" => call'.id \in 1..Len(scans')
        /\ call'.at = "2xx" /\ r.op = "json" /\ r.id \in 1..Len(scans) =>
             scans'[r.id].status = "completed" /\ scans'[r.id].report = r.body
  BY ServeSteps
<1>4. 1..Len(scans) \subseteq 1..Len(scans') BY <1>2
<1>5. Done => Done'
  <2>1. SUFFICES ASSUME Done PROVE Done' OBVIOUS
  <2>2. scanID \in 1..Len(scans) /\ scans[scanID].status # "pending" BY <2>1 DEF Done, Registry
  <2>3. scans'[scanID].status = scans[scanID].status /\ scans'[scanID].report = scans[scanID].report
    BY <2>2, VerdictStands
  <2>4. QED BY <2>1, <2>2, <2>3, <1>1, <1>4 DEF Done, Registry
<1>6. TypeInv'
  <2>1. call' \in Calls /\ (call'.op = "none" => call' = Idle)
    BY <1>2, <1>3 DEF Inv, TypeInv
  <2>2. broke' \in BOOLEAN OBVIOUS
  <2>3. wire' \in SUBSET Requests BY <1>2 DEF Inv, TypeInv
  <2>4. QED BY <2>1, <2>2, <2>3, <1>1, <1>2 DEF Inv, TypeInv
<1>7. StageInv' BY <1>1 DEF Inv, StageInv
<1>8. CallInv'
  <2>1. CASE call' = call
    <3>1. call.at \in {"2xx", "ok"} /\ call.op = "create" => call.id \in 1..Len(scans')
      BY <1>4 DEF Inv, CallInv
    <3>2. QED BY <2>1, <3>1, <1>1, <1>5 DEF Inv, CallInv, OpAt
  <2>2. CASE call = r
    <3>1. call # Idle BY <2>2, <1>2, NoCall
    <3>2. /\ pc \in {"create", "json", "html", "status"} /\ call.op = OpAt(pc)
          /\ call.body = IF pc \in Uploads THEN report ELSE NoReport
          /\ pc # "create" => call.id = scanID
      BY <3>1 DEF Inv, CallInv
    <3>3. r.op = "create" <=> pc = "create" BY <3>2, <2>2 DEF OpAt
    <3>4. ASSUME call'.at = "2xx", r.op = "json" PROVE Done'
      <4>1. pc = "json" BY <3>2, <3>4, <2>2 DEF OpAt
      <4>2. scanID \in 1..Len(scans) BY <4>1 DEF Inv, StageInv, UploadInv, Registry
      <4>3. r.id = scanID /\ r.body = report BY <4>1, <3>2, <2>2 DEF Uploads
      <4>4. scans'[scanID].status = "completed" /\ scans'[scanID].report = report
        BY <4>2, <4>3, <3>4, <2>2, <1>3
      <4>5. QED BY <4>2, <4>4, <1>1, <1>4 DEF Done, Registry
    <3>5. /\ call'.op = OpAt(pc) /\ call'.body = IF pc \in Uploads THEN report ELSE NoReport
          /\ pc # "create" => call'.id = scanID
      BY <3>2, <3>3, <2>2, <1>3
    <3>6. call'.at \in {"2xx", "ok"} /\ call'.op = "create" => call'.id \in 1..Len(scans')
      BY <2>2, <1>3
    <3>7. call'.at \in {"2xx", "ok"} /\ call'.op = "json" => Done' BY <3>4, <2>2, <1>3
    <3>8. QED BY <3>2, <3>5, <3>6, <3>7, <1>1 DEF CallInv, OpAt
  <2>3. QED BY <2>1, <2>2, <1>2
<1>9. WireInv' BY <1>1, <1>2 DEF Inv, WireInv
<1>10. ScanInv'
  <2>1. SUFFICES ASSUME NEW i \in 1..Len(scans')
                 PROVE  /\ scans'[i].report \in {NoReport, report}
                        /\ scans'[i].html => report # NoReport
                        /\ scans'[i].status = "completed" => scans'[i].report = report /\ report # NoReport
                        /\ scans'[i].status = "failed" => report = NoReport /\ pc \in {"status", "exit"}
    BY <1>1 DEF ScanInv
  <2>2. CASE i \in 1..Len(scans)
    <3>1. Change(r, scans[i], scans'[i]) BY <2>2, <1>2
    <3>2. /\ scans[i].report \in {NoReport, report}
          /\ scans[i].html => report # NoReport
          /\ scans[i].status = "completed" => scans[i].report = report /\ report # NoReport
          /\ scans[i].status = "failed" => report = NoReport /\ pc \in {"status", "exit"}
      BY <2>2 DEF Inv, ScanInv
    <3>3. /\ r.op \in Uploads => r.body = report /\ report # NoReport
          /\ r.op = "failed" => report = NoReport /\ pc \in {"status", "exit"}
      BY DEF Inv, WireInv
    <3>4. QED BY <3>1, <3>2, <3>3 DEF Change, Uploads
  <2>3. CASE i \notin 1..Len(scans)
    <3>1. scans'[i] = Pending BY <2>3, <1>2
    <3>2. QED BY <3>1 DEF Pending
  <2>4. QED BY <2>2, <2>3
<1>11. UploadInv'
  <2>1. Registry => Registry' BY <1>1, <1>4 DEF Registry
  <2>2. QED BY <2>1, <1>1, <1>5 DEF Inv, UploadInv
<1>12. TwinInv'
  <2>1. SUFFICES ASSUME ~broke'
                 PROVE  /\ Len(scans') <= 1
                        /\ Creations' # {} => scans' = <<>>
                        /\ \A p, q \in Creations' : p = q
                        /\ pc = "start" \/ (pc = "create" /\ call'.at \in {"idle", "send"}) =>
                             scans' = <<>> /\ Creations' = {}
                        /\ ~(call'.op = "create" /\ call'.at = "5xx")
    BY <1>1 DEF TwinInv
  <2>2. /\ ~broke
        /\ Len(scans) <= 1
        /\ Creations # {} => scans = <<>>
        /\ \A p, q \in Creations : p = q
        /\ pc = "start" \/ (pc = "create" /\ call.at \in {"idle", "send"}) => scans = <<>> /\ Creations = {}
        /\ ~(call.op = "create" /\ call.at = "5xx")
    BY <2>1 DEF Inv, TwinInv
  <2>3. Creations' = Creations \ {r} BY <1>2 DEF Creations
  <2>4. call'.op = call.op /\ (call'.at \in {"idle", "send"} => call' = call) BY <1>2, <1>3
  <2>5. ~(call'.op = "create" /\ call'.at = "5xx") BY <2>1, <2>4
  <2>6. CASE r.op = "create"
    <3>1. r \in Creations BY <2>6 DEF Creations
    <3>2. scans = <<>> /\ Creations' = {} BY <3>1, <2>2, <2>3
    <3>3. Len(scans') <= 1
      <4>1. Len(scans) = 0 BY <3>2
      <4>2. Len(scans') \in {0, 1} BY <4>1, <1>2
      <4>3. \A n \in {0, 1} : n <= 1 OBVIOUS
      <4>4. QED BY <4>2, <4>3
    <3>4. ~(pc = "start" \/ (pc = "create" /\ call'.at \in {"idle", "send"})) BY <3>1, <2>2, <2>4
    <3>5. QED BY <3>2, <3>3, <3>4, <2>5
  <2>7. CASE r.op # "create"
    <3>1. Len(scans') = Len(scans) BY <2>7, <1>2
    <3>2. scans = <<>> => scans' = <<>> BY <3>1, <1>2
    <3>3. Creations' \subseteq Creations BY <2>3
    <3>4. QED BY <3>1, <3>2, <3>3, <2>2, <2>4, <2>5
  <2>8. QED BY <2>6, <2>7
<1>13. QED BY <1>6, <1>7, <1>8, <1>9, <1>10, <1>11, <1>12 DEF Inv

\* Every step of the command, the client, the portal and the deadline.
LEMMA NextInv == Inv /\ [CommandNext]_vars => Inv'
<1> SUFFICES ASSUME Inv, [CommandNext]_vars PROVE Inv' OBVIOUS
<1>1. CASE CommandStep
  BY <1>1, BadUsageInv, StartScanInv, ReadReportInv, AskInv, RegisteredInv, NotRegisteredInv,
     RunStartsInv, RunReturnsInv, JudgeInv, StatusToldInv, RenderInv, RenderFailsInv,
     JsonUploadedInv, JsonNotBuiltInv, HtmlUploadedInv, NoHtmlInv, DecideInv DEF CommandStep
<1>2. CASE Http BY <1>2, TransmitInv, GiveUpInv, AnsweredInv DEF Http, ClientStep
<1>3. CASE Backend BY <1>3, ServeInv DEF Backend, Portal
<1>4. CASE Expire BY <1>4, ExpireInv
<1>5. CASE UNCHANGED vars
  BY <1>5 DEF vars, clientVars, commandVars, Inv, TypeInv, StageInv, CallInv, WireInv, ScanInv,
              UploadInv, TwinInv, Creations, Done, Registry, OpAt
<1>6. QED BY <1>1, <1>2, <1>3, <1>4, <1>5 DEF CommandNext

(* The theorems *)

\* The invariant behind the theorems.
LEMMA Invariance == CommandSpec => []Inv
BY InitInv, NextInv, PTL DEF CommandSpec

\* Every variable of the commands, and of the portal, is what it is taken for.
THEOREM TypeCorrect == CommandSpec => []CommandTypeOK
<1>1. ASSUME Inv PROVE CommandTypeOK
  <2>1. \A i \in 1..Len(scans) : scans[i] \in Scans BY <1>1 DEF Inv, TypeInv
  <2>2. call.at \in {"idle", "send", "waiting", "2xx", "4xx", "5xx", "ok", "failed"}
        /\ call.attempt \in 0..2
    BY <1>1 DEF Inv, TypeInv, Calls
  <2>3. QED BY <2>1, <2>2, <1>1 DEF Inv, TypeInv, CommandTypeOK, Stages, Scans, Shown, Reports
<1>2. QED BY <1>1, Invariance, PTL

\* No report hides files that were not looked at, whenever the deadline passes.
THEOREM NoGapIsReported == CommandSpec => []NoSilentGap
<1>1. ASSUME Inv PROVE NoSilentGap
  <2>1. report \in Shown \cup {NoReport} /\ \A i \in 1..Len(scans) : scans[i].report \in {NoReport, report}
    BY <1>1 DEF Inv, TypeInv, ScanInv
  <2>2. QED BY <2>1, CommandConstants DEF NoSilentGap, Shown
<1>2. QED BY <1>1, Invariance, PTL

\* Whatever the portal is sent as a report, the user has.
THEOREM LocalReportComesFirst == CommandSpec => []LocalReportFirst
<1>1. Inv => LocalReportFirst BY DEF Inv, WireInv, ScanInv, LocalReportFirst, Uploads
<1>2. QED BY <1>1, Invariance, PTL

\* A failed upload shows in the exit code, whatever was lost on the way.
THEOREM FailedUploadShows == CommandSpec => []UploadIsNotMasked
<1>1. Inv => UploadIsNotMasked BY DEF Inv, UploadInv, UploadIsNotMasked, Done, Registry
<1>2. QED BY <1>1, Invariance, PTL

\* One command is one scan on the portal, unless it answered with a 5xx.
THEOREM OneScanPerCommand == CommandSpec => []TwinsNeedA5xx
<1>1. Inv => TwinsNeedA5xx BY DEF Inv, TypeInv, TwinInv, TwinsNeedA5xx
<1>2. QED BY <1>1, Invariance, PTL

\* No request, however late, turns a verdict of the portal round.
THEOREM VerdictsStand == CommandSpec => VerdictIsFinal
<1>1. ASSUME Inv, [CommandNext]_vars, NEW i \in 1..Len(scans), scans[i].status # "pending"
      PROVE  scans'[i].status = scans[i].status /\ scans'[i].report = scans[i].report
  <2>1. CASE Backend
    <3>1. PICK r \in wire : Serve(r) BY <2>1 DEF Backend, Portal
    <3>2. QED BY <3>1, <1>1, VerdictStands
  <2>2. CASE ~Backend
    <3>1. scans' = scans
      BY <2>2, <1>1 DEF CommandNext, CommandStep, Http, ClientStep, Expire, vars, clientVars, PortalIdle,
         BadUsage, StartScan, ReadReport, Ask, Request, Registered, NotRegistered, Answer, RunStarts,
         RunReturns, Judge, StatusTold, Render, RenderFails, JsonUploaded, JsonNotBuilt, HtmlUploaded,
         NoHtml, Decide, Transmit, GiveUp, Answered
    <3>2. QED BY <3>1
  <2>3. QED BY <2>1, <2>2
<1>2. Inv /\ [CommandNext]_vars =>
        [\A i \in 1..Len(scans) : scans[i].status # "pending" =>
           scans'[i].status = scans[i].status /\ scans'[i].report = scans[i].report]_vars
  BY <1>1
<1>3. QED BY <1>2, Invariance, PTL DEF CommandSpec, VerdictIsFinal

================================================================================
