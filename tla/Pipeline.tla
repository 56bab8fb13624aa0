------------------------------- MODULE Pipeline -------------------------------
(***************************************************************************)
(* ScanPipeline.Run: the walker's goroutine and its consumer, then the     *)
(* scanners, one after the other or a goroutine each, and the SAST         *)
(* scanner's own workers underneath, all of them under one deadline.       *)
(*                                                                         *)
(* A scanner's findings are abstracted to the files it looked at.          *)
(***************************************************************************)
EXTENDS Walker, SastPool

CONSTANTS
  Scanners,    \* the enabled scanners, in the order New appends them
  Wants,       \* Wants[s]: the files Accepts takes, asset directories apart
  TestFiles,   \* walker.RoleTest, dropped unless --include-tests
  ScaOnError,  \* the values of --sca-on-error runs are made with: "fail" means it
  Fleeting     \* files the walk lists that os.ReadFile may fail on in a scanner

Scs == ToSet(Scanners)

ASSUME PipelineConstants ==
  /\ Scanners \in Seq({"sast", "secrets", "sca", "framework"}) /\ "sast" \in Scs
  /\ Wants \in [Scs -> SUBSET Regulars]
  /\ Fleeting \subseteq Regulars
  /\ NoFile \notin Regulars

VARIABLES
  main,      \* where Run is
  allFiles,
  team,      \* the SAST workers: WorkerCount of them
  turn,      \* the scanner the serial loop has come to
  scan,      \* scan[s]: "new", "launched", "running", "returned" or "gone"
  answerOf,  \* answerOf[s]: what its Scan returned
  ch,        \* the scanners whose result is in the channel
  collected, \* the pairs of a scanner and a file whose findings the collector has
  told,      \* the pairs a diagnostic says were not looked at
  outcome    \* "none", "ok", "walk failed" or "scanner failed"

runVars == <<main, allFiles, team, turn, scan, answerOf, ch, collected, told, outcome>>
allVars == <<walkerVars, poolVars, runVars>>

\* An answer: of which files it is, which a diagnostic says were not looked at,
\* and which could not be read and were passed over without a word.
NoAnswer == [err |-> FALSE, files |-> {}, told |-> {}, unread |-> {}]

\* Accepts: only the secrets scanner takes the data files of an asset directory.
Accepts(s, e) == e.path \in Wants[s] /\ (e.asset => s = "secrets")
Accepted(s) == Picked(allFiles, {i \in DOMAIN allFiles : Accepts(s, allFiles[i])})
WithoutTests == Picked(allFiles, {i \in DOMAIN allFiles : allFiles[i].path \notin TestFiles})
PathsOf(es) == [i \in DOMAIN es |-> es[i].path]

PipelineInit ==
  /\ WalkerInit /\ PoolInit
  /\ main = "idle"
  /\ allFiles = <<>>
  /\ team \in (SUBSET Workers) \ {{}}
  /\ turn = 1
  /\ scan = [s \in Scs |-> "new"]
  /\ answerOf = [s \in Scs |-> NoAnswer]
  /\ ch = <<>>
  /\ collected = {} /\ told = {}
  /\ outcome = "none"

Serial == Cardinality(team) = 1 \/ Len(Scanners) <= 1

\* Run is called, and the walk goroutine starts.
Run ==
  /\ main = "idle"
  /\ main' = "drain"
  /\ UNCHANGED <<walkerVars, poolVars, allFiles, team, turn, scan, answerOf, ch, collected,
                 told, outcome>>

Walk ==
  /\ main # "idle"
  /\ WalkerStep
  /\ UNCHANGED <<poolVars, runVars>>

\* for entry := range fileCh
Drain ==
  /\ main = "drain" /\ entries # <<>>
  /\ allFiles' = Append(allFiles, Head(entries))
  /\ entries' = Tail(entries)
  /\ UNCHANGED <<broken, todo, errs, walking, failed, poolVars, main, team, turn, scan, answerOf,
                 ch, collected, told, outcome>>

DrainEnds ==
  /\ main = "drain" /\ entries = <<>> /\ walking = "no"
  /\ main' = "errs"
  /\ UNCHANGED <<walkerVars, poolVars, allFiles, team, turn, scan, answerOf, ch, collected,
                 told, outcome>>

Finish(o) == main' = "done" /\ outcome' = o

\* if err := <-errCh; err != nil: the first error of the walk fails the run.
WalkFailed ==
  /\ main = "errs" /\ errs # <<>>
  /\ Finish("walk failed")
  /\ UNCHANGED <<walkerVars, poolVars, allFiles, team, turn, scan, answerOf, ch, collected, told>>

\* Mutant of StartScanners: the error channel is not read.
StartScannersAnyway ==
  /\ main = "errs" /\ walking # "yes"
  /\ allFiles' = WithoutTests
  /\ IF Serial THEN main' = "serial" /\ UNCHANGED scan
               ELSE main' = "fanout" /\ scan' = [s \in Scs |-> "launched"]
  /\ UNCHANGED <<walkerVars, poolVars, team, turn, answerOf, ch, collected, told, outcome>>

\* Otherwise test files are dropped, and the loop over the scanners begins: with
\* one worker, or one scanner, a serial one; else a goroutine for each.
StartScanners ==
  /\ main = "errs" /\ errs = <<>> /\ walking # "yes"
  /\ allFiles' = WithoutTests
  /\ IF Serial THEN main' = "serial" /\ UNCHANGED scan
               ELSE main' = "fanout" /\ scan' = [s \in Scs |-> "launched"]
  /\ UNCHANGED <<walkerVars, poolVars, team, turn, answerOf, ch, collected, told, outcome>>

MayStart(s) ==
  \/ scan[s] = "launched"
  \/ scan[s] = "new" /\ main = "serial" /\ turn \in DOMAIN Scanners /\ Scanners[turn] = s

\* sc.Scan(ctx, accepted).  The SAST scanner hands the files to its workers.
StartScanner(s) ==
  /\ MayStart(s)
  /\ scan' = [scan EXCEPT ![s] = "running"]
  /\ IF s = "sast" THEN StartScan(PathsOf(Accepted(s)), team) ELSE UNCHANGED poolVars
  /\ UNCHANGED <<walkerVars, main, allFiles, team, turn, answerOf, ch, collected, told, outcome>>

\* The secrets and framework scanners, and processFile, pass over a file that
\* cannot be read; the SCA scanner says so in a diagnostic.
Silently(fs) == {[NoAnswer EXCEPT !.files = fs \ X, !.unread = X] : X \in SUBSET (fs \cap Fleeting)}
Openly(fs) == {[NoAnswer EXCEPT !.files = fs \ X, !.told = X] : X \in SUBSET (fs \cap Fleeting)}

\* OSV cannot be asked (or the deadline has passed): --sca-on-error says whether
\* that is an error or a diagnostic.
Degraded(fs) == {IF o = "fail" THEN [NoAnswer EXCEPT !.err = TRUE] ELSE [NoAnswer EXCEPT !.told = fs] :
                   o \in ScaOnError}

\* What Scan may return: the SAST scanner what its workers made of the batch,
\* the others what there is of every file, whatever the deadline.
AnswersOf(s) ==
  LET given == ToSet(PathsOf(Accepted(s))) IN
  CASE s = "sast" -> Silently(ToSet(gathered))
    [] s = "sca" -> Openly(given) \cup (IF given = {} THEN {} ELSE Degraded(given))
    [] OTHER -> Silently(given)

ScannerReturns(s) ==
  /\ scan[s] = "running"
  /\ s = "sast" => call = "returned"
  /\ scan' = [scan EXCEPT ![s] = "returned"]
  /\ answerOf' \in {[answerOf EXCEPT ![s] = a] : a \in AnswersOf(s)}
  /\ UNCHANGED <<walkerVars, poolVars, main, allFiles, team, turn, ch, collected, told, outcome>>

\* p.collector.Add and the diagnostics.
Collect(s) ==
  /\ collected' = collected \cup ({s} \X answerOf[s].files)
  /\ told' = told \cup ({s} \X answerOf[s].told)

\* The serial loop: the next scanner is called, or the first error returned.
SerialNext ==
  /\ main = "serial" /\ turn \in DOMAIN Scanners
  /\ LET s == Scanners[turn] IN
       /\ scan[s] = "returned"
       /\ scan' = [scan EXCEPT ![s] = "gone"]
       /\ IF answerOf[s].err
          THEN Finish("scanner failed") /\ UNCHANGED <<turn, collected, told>>
          ELSE Collect(s) /\ turn' = turn + 1 /\ UNCHANGED <<main, outcome>>
  /\ UNCHANGED <<walkerVars, poolVars, allFiles, team, answerOf, ch>>

\* Mutant of Deliver: the channel has no buffer, so a send waits for the caller.
DeliverUnbuffered(s) ==
  /\ main = "fanout" /\ scan[s] = "returned"
  /\ ch = <<>>
  /\ ch' = Append(ch, s)
  /\ scan' = [scan EXCEPT ![s] = "gone"]
  /\ UNCHANGED <<walkerVars, poolVars, main, allFiles, team, turn, answerOf, collected, told,
                 outcome>>

\* ch <- sr; the channel has room for every scanner.
Deliver(s) ==
  /\ ~Serial /\ scan[s] = "returned"
  /\ Len(ch) < Len(Scanners)
  /\ ch' = Append(ch, s)
  /\ scan' = [scan EXCEPT ![s] = "gone"]
  /\ UNCHANGED <<walkerVars, poolVars, main, allFiles, team, turn, answerOf, collected, told,
                 outcome>>

\* sr := <-ch: one result is taken, and the first error returned, whatever
\* the other scanners are doing.
Receive ==
  /\ main = "fanout" /\ ch # <<>>
  /\ LET s == Head(ch) IN
       IF answerOf[s].err
       THEN Finish("scanner failed") /\ UNCHANGED <<turn, collected, told>>
       ELSE Collect(s) /\ turn' = turn + 1 /\ UNCHANGED <<main, outcome>>
  /\ ch' = Tail(ch)
  /\ UNCHANGED <<walkerVars, poolVars, allFiles, team, scan, answerOf>>

\* Every scanner has been heard: the result is built (see Findings).
RunReturns ==
  /\ main \in {"serial", "fanout"} /\ turn > Len(Scanners)
  /\ Finish("ok")
  /\ UNCHANGED <<walkerVars, poolVars, allFiles, team, turn, scan, answerOf, ch, collected, told>>

Pool(step) == step /\ UNCHANGED <<walkerVars, runVars>>

MainStep ==
  \/ Drain \/ DrainEnds
  \/ WalkFailed \/ StartScanners
  \/ SerialNext \/ Receive
  \/ RunReturns

ScannerStep(s) == StartScanner(s) \/ ScannerReturns(s) \/ Deliver(s)

PipelineNext ==
  \/ Run
  \/ Walk
  \/ MainStep
  \/ \E s \in Scs : ScannerStep(s)
  \/ Pool(ScanStep)
  \/ Pool(Expire)

PipelineSpec == PipelineInit /\ [][PipelineNext]_allVars

\* Every goroutine that can run does: the walker's, the caller's, the
\* scanners' and the workers'.  Nothing obliges a deadline to pass.
PipelineFairSpec ==
  /\ PipelineSpec
  /\ WF_allVars(Run)
  /\ WF_allVars(Walk)
  /\ WF_allVars(MainStep)
  /\ \A s \in Scs : WF_allVars(ScannerStep(s))
  /\ \A w \in Workers : WF_allVars(Pool(WorkerStep(w)))
  /\ WF_allVars(Pool(CloseResults))
  /\ WF_allVars(Pool(Gather \/ ReturnScan))

------------------------------------------------------------------------------
(* Properties *)

PipelineTypeOK ==
  /\ PoolTypeOK(Regulars)
  /\ ToSet(entries) \cup ToSet(allFiles) \subseteq [path : Regulars, asset : BOOLEAN]
  /\ Len(entries) <= EntryCap /\ Len(errs) <= ErrCap
  /\ main \in {"idle", "drain", "errs", "serial", "fanout", "done"}
  /\ scan \in [Scs -> {"new", "launched", "running", "returned", "gone"}]
  /\ collected \cup told \subseteq Scs \X Regulars

\* The directories a path is in: the least set with its parent, and with the
\* parent of each of its directories but the root.
ParentOf(p) == CHOOSE d \in Dirs : p \in ToSet(Children[d])
Climbs(S, p) == ParentOf(p) \in S /\ \A d \in S \ {Root} : ParentOf(d) \in S
Above == [p \in Dirs \cup Regulars |->
  {d \in Dirs : p # Root /\ \A S \in SUBSET Dirs : Climbs(S, p) => d \in S}]

IsAsset(f) == Above[f] \cap AssetDirs # {}

\* The files a walk without errors should find, said without the walk.
Scannable ==
  {f \in Regulars \ (SkippedFiles \cup Oversized) :
     /\ Above[f] \cap SkippedDirs \subseteq AssetDirs
     /\ IsAsset(f) => f \in DataFiles
     /\ \A d \in Above[f] : f \notin Ignores[d]}

\* A walk that met no error hands over exactly those files, each once, and
\* tells the ones of an asset directory apart.
WalkFindsTheTree ==
  main = "errs" /\ failed = {} =>
    /\ ToSet(allFiles) = {[path |-> f, asset |-> IsAsset(f)] : f \in Scannable}
    /\ Len(allFiles) = Cardinality(Scannable)

\* What a whole scan owes: each scanner a look at each of its files.
Owed ==
  {p \in Scs \X (Scannable \ TestFiles) :
     p[2] \in Wants[p[1]] /\ (IsAsset(p[2]) => p[1] = "secrets")}

Missing == Owed \ collected
PassedOver == {p \in Missing : p[2] \in answerOf[p[1]].unread}

\* Run keeps its promise, through walk errors that do not fit their channel,
\* files that can no longer be read when a scanner comes to them, a deadline that
\* passes at any point, and scanners that finish in any order.
Promise == INSTANCE RunPromise WITH
  Whole <- "whole", Told <- "told", Unread <- "unread", Gap <- "gap",
  running <- CASE main = "idle" -> "no" [] main = "done" -> "returned" [] OTHER -> "yes",
  answer <- CASE outcome = "none" -> "none"
              [] outcome # "none" /\ outcome # "ok" -> "error"
              [] OTHER -> IF Missing = {} THEN "whole"
                          ELSE IF Missing \subseteq told THEN "told"
                          ELSE IF Missing \subseteq told \cup PassedOver THEN "unread"
                          ELSE "gap"
RunKeepsItsPromise == Promise!Spec

\* The SAST scanner's workers implement the call of Scan.
Batch == INSTANCE FileBatch WITH
  Files <- Regulars,
  batch <- IF call = "no" THEN {} ELSE ToSet(PathsOf(Accepted("sast"))),
  reported <- ToSet(gathered)
WorkersAreOneCall == Batch!Spec

\* Run returns, whichever scanner fails first and however many walk errors
\* there are.
RunEnds == <>(main = "done")

\* No goroutine is left behind for good, not even when Run has returned on the
\* first error: each can deliver its result.
NobodyIsLeftBehind ==
  <>[](walking = "no" /\ \A s \in Scs : scan[s] \in {"new", "gone"})
==============================================================================
