------------------------------- MODULE SastPool -------------------------------
(***************************************************************************)
(* SASTScanner.Scan: a queue filled and closed before the first worker     *)
(* starts, workers that take files off it and send what processFile        *)
(* returns, a goroutine that closes the result channel once all workers    *)
(* are gone, and the caller that gathers the results.                      *)
(*                                                                         *)
(* processFile itself is the module ScanCache; here it is a step.          *)
(***************************************************************************)
EXTENDS Naturals, FiniteSets, SequencesExt

CONSTANTS
  Workers,  \* the worker goroutines a scan may have
  NoFile    \* a worker holds no file

ASSUME PoolAssumption == IsFiniteSet(Workers)

VARIABLES
  queue,          \* fileQueue, closed from the start
  queueCap,       \* len(files), the capacity of both channels
  worker,         \* worker[w]: [at, file]
  results,        \* resultCh
  resultsClosed,
  gathered,       \* the files whose results the caller has appended
  call,           \* the call of Scan: "no", "running" or "returned"
  expired         \* ctx.Err() # nil

poolVars == <<queue, queueCap, worker, results, resultsClosed, gathered, call, expired>>

Ready == [at |-> "next", file |-> NoFile]
Gone == [at |-> "gone", file |-> NoFile]

PoolInit ==
  /\ queue = <<>> /\ queueCap = 0
  /\ worker = [w \in Workers |-> Gone]
  /\ results = <<>> /\ resultsClosed = FALSE
  /\ gathered = <<>>
  /\ call = "no"
  /\ expired = FALSE

\* Scan(ctx, files): the channels are made, the queue is filled and closed,
\* and the workers are started: --workers of them, or one per CPU.
StartScan(files, team) ==
  /\ call = "no"
  /\ call' = "running"
  /\ queue' = files /\ queueCap' = Len(files)
  /\ worker' = [w \in Workers |-> IF w \in team THEN Ready ELSE Gone]
  /\ UNCHANGED <<results, resultsClosed, gathered, expired>>

\* Mutant of TakeFile: workers read and advance a shared index in two steps.
TakeFileShared(w) ==
  /\ worker[w].at = "next" /\ queue # <<>>
  /\ worker' = [worker EXCEPT ![w] = [at |-> "took", file |-> Head(queue)]]
  /\ queue' \in {queue, Tail(queue)}
  /\ UNCHANGED <<queueCap, results, resultsClosed, gathered, call, expired>>

\* for entry := range fileQueue
TakeFile(w) ==
  /\ worker[w].at = "next" /\ queue # <<>>
  /\ worker' = [worker EXCEPT ![w] = [at |-> "took", file |-> Head(queue)]]
  /\ queue' = Tail(queue)
  /\ UNCHANGED <<queueCap, results, resultsClosed, gathered, call, expired>>

\* Mutant of LeaveQueue: what a closed channel yields is taken for a file.
LeaveQueueWithZero(w) ==
  /\ worker[w].at = "next" /\ queue = <<>>
  /\ worker' \in {[worker EXCEPT ![w] = Gone], [worker EXCEPT ![w].at = "took"]}
  /\ UNCHANGED <<queue, queueCap, results, resultsClosed, gathered, call, expired>>

\* The queue is empty and closed: the worker's loop, and wg.Done.
LeaveQueue(w) ==
  /\ worker[w].at = "next" /\ queue = <<>>
  /\ worker' = [worker EXCEPT ![w] = Gone]
  /\ UNCHANGED <<queue, queueCap, results, resultsClosed, gathered, call, expired>>

\* Mutant of CheckDeadline: a worker that empties the queue stops there.
CheckDeadlineTooSoon(w) ==
  /\ worker[w].at = "took"
  /\ worker' = [worker EXCEPT ![w] = IF queue = <<>> THEN Gone ELSE [@ EXCEPT !.at = "busy"]]
  /\ UNCHANGED <<queue, queueCap, results, resultsClosed, gathered, call, expired>>

\* if ctx.Err() != nil { return }: the file just taken is dropped.
CheckDeadline(w) ==
  /\ worker[w].at = "took"
  /\ worker' = [worker EXCEPT ![w] = IF expired THEN Gone ELSE [@ EXCEPT !.at = "busy"]]
  /\ UNCHANGED <<queue, queueCap, results, resultsClosed, gathered, call, expired>>

\* processFile does not look at the deadline, and always returns.
ProcessFile(w) ==
  /\ worker[w].at = "busy"
  /\ worker' = [worker EXCEPT ![w].at = "send"]
  /\ UNCHANGED <<queue, queueCap, results, resultsClosed, gathered, call, expired>>

\* resultCh <- fileResult{...}
SendResult(w) ==
  /\ worker[w].at = "send" /\ Len(results) < queueCap
  /\ results' = Append(results, worker[w].file)
  /\ worker' = [worker EXCEPT ![w] = Ready]
  /\ UNCHANGED <<queue, queueCap, resultsClosed, gathered, call, expired>>

\* Mutant of CloseResults: it does not wait for the workers.
CloseResultsEarly ==
  /\ call = "running" /\ ~resultsClosed
  /\ queue = <<>>
  /\ resultsClosed' = TRUE
  /\ UNCHANGED <<queue, queueCap, worker, results, gathered, call, expired>>

\* wg.Wait(); close(resultCh)
CloseResults ==
  /\ call = "running" /\ ~resultsClosed
  /\ \A w \in Workers : worker[w] = Gone
  /\ resultsClosed' = TRUE
  /\ UNCHANGED <<queue, queueCap, worker, results, gathered, call, expired>>

\* for r := range resultCh
Gather ==
  /\ call = "running" /\ results # <<>>
  /\ gathered' = Append(gathered, Head(results))
  /\ results' = Tail(results)
  /\ UNCHANGED <<queue, queueCap, worker, resultsClosed, call, expired>>

ReturnScan ==
  /\ call = "running" /\ results = <<>> /\ resultsClosed
  /\ call' = "returned"
  /\ UNCHANGED <<queue, queueCap, worker, results, resultsClosed, gathered, expired>>

\* The timer of context.WithTimeout.
Expire ==
  /\ ~expired
  /\ expired' = TRUE
  /\ UNCHANGED <<queue, queueCap, worker, results, resultsClosed, gathered, call>>

WorkerStep(w) ==
  TakeFile(w) \/ LeaveQueue(w) \/ CheckDeadline(w) \/ ProcessFile(w) \/ SendResult(w)

ScanStep ==
  \/ \E w \in Workers : WorkerStep(w)
  \/ CloseResults
  \/ Gather
  \/ ReturnScan

\* Every goroutine runs as long as it can, and processFile always returns.
PoolFairness ==
  /\ \A w \in Workers : WF_poolVars(WorkerStep(w))
  /\ WF_poolVars(CloseResults)
  /\ WF_poolVars(Gather \/ ReturnScan)

------------------------------------------------------------------------------
(* Properties *)

PoolTypeOK(files) ==
  /\ queue \in Seq(files) /\ results \in Seq(files) /\ gathered \in Seq(files)
  /\ queueCap \in Nat
  /\ worker \in [Workers -> [at : {"next", "took", "busy", "send", "gone"},
                             file : files \cup {NoFile}]]
  /\ resultsClosed \in BOOLEAN /\ expired \in BOOLEAN
  /\ call \in {"no", "running", "returned"}

\* A file is processed by one worker and its findings are reported once: no two
\* workers ever write the same cache entry (diskcache.go, "each cache key is
\* written by exactly one worker per scan").
EachFileOnce ==
  LET held == {w \in Workers : worker[w].file # NoFile}
      seen == queue \o results \o gathered IN
    /\ \A i, j \in 1..Len(seen) : seen[i] = seen[j] => i = j
    /\ \A v, w \in held : worker[v].file = worker[w].file => v = w
    /\ \A w \in held : worker[w].file \notin ToSet(seen)

\* The result channel has room for every file, so no worker waits for the
\* caller, and nothing is sent on a closed channel.
SendsAreFree ==
  \A w \in Workers : worker[w].at = "send" => Len(results) < queueCap /\ ~resultsClosed
==============================================================================
