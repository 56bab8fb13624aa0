---------------------------------- MODULE Osv ----------------------------------
(***************************************************************************)
(* osvClient.Match: the batch queries and their pages, the pool that       *)
(* fetches each advisory's body once, the loop that resolves every         *)
(* (dependency, advisory) pair against what was fetched, and the merging   *)
(* of aliases, dependency by dependency.                                   *)
(*                                                                         *)
(* Requests go through doRequest, with its retries, under a deadline that  *)
(* may expire at any moment.  What OSV answers is given by constants;      *)
(* whether it answers is up to the network.                                *)
(***************************************************************************)
EXTENDS Inventory

CONSTANTS
  Fetchers,     \* the goroutines of the prefetch pool, fetchConcurrency of them
  Caller,       \* the goroutine that called Match
  MaxAttempts,  \* maxAttempts
  BatchSize,    \* batchSize
  Pages,        \* Pages[p]: the advisory IDs OSV lists for p, a package and a version, by page
  Bodies        \* the advisory bodies OSV may serve: functions from IDs

ASSUME OsvAssumption ==
  /\ IsFiniteSet(Fetchers) /\ Caller \notin Fetchers
  /\ MaxAttempts \in Nat \ {0} /\ BatchSize \in Nat \ {0}
  /\ \A p \in DOMAIN Pages : Pages[p] \in Seq(Seq(Ids)) \ {<<>>}
  /\ \A b \in Bodies : Ids \subseteq DOMAIN b /\ \A id \in Ids : IsABody(b[id], id)

VARIABLES
  phase,     \* where Match is
  expired,   \* ctx.Err() # nil
  body,      \* what OSV serves for each advisory
  deps,      \* the dependencies asked about
  chunk,     \* the offset of the current batch
  turn,      \* the result of the batch being read, the pair being resolved,
             \* or the dependency whose advisories are being merged
  page,      \* the page of that result
  pairs,     \* the (dependency, advisory) pairs listed so far
  queue,     \* the IDs not yet handed to the pool
  request,   \* request[r]: the request r has under way
  cached,    \* the IDs in osvClient.advisories
  advs,      \* the advisories resolved so far, byDep in one sequence
  label,     \* the groups of the advisories of a dependency linked so far
  owner,     \* owner[id]: the advisory that first named id
  emitted,   \* how many of them have had their group merged
  matched,   \* what Match returns
  outcome,   \* "none", "ok" or "error"
  served,    \* history: how often OSV served each body
  asked      \* history: the bodies asked for before the deadline

matchVars == <<deps, chunk, turn, page, pairs, queue, advs, label, owner, emitted, matched, outcome>>
osvVars == <<matchVars, phase, expired, body, request, cached, served, asked>>

Idle == [at |-> "idle", id |-> NoId, tries |-> 0]
Gone == [at |-> "gone", id |-> NoId, tries |-> 0]
Asking(id) == [at |-> "ask", id |-> id, tries |-> 1]
Main == request[Caller]

OsvInit ==
  /\ phase = "idle" /\ expired = FALSE
  /\ body \in Bodies
  /\ deps = <<>> /\ chunk = 0 /\ turn = 1 /\ page = 1
  /\ pairs = <<>> /\ queue = <<>>
  /\ request = [r \in Fetchers \cup {Caller} |-> IF r = Caller THEN Idle ELSE Gone]
  /\ cached = {}
  /\ advs = <<>> /\ label = <<>> /\ owner = <<>> /\ emitted = 0
  /\ matched = <<>> /\ outcome = "none"
  /\ served = [id \in Ids |-> 0] /\ asked = {}

------------------------------------------------------------------------------
(* doRequest: attempts, backoff, and the deadline.                            *)

\* The server answered 200 with a body that could be read and decoded.
Answered(r) ==
  /\ request[r].at = "ask" /\ ~expired
  /\ request' = [request EXCEPT ![r].at = "got"]
  /\ IF request[r].id = NoId THEN UNCHANGED <<cached, served, asked>>
     ELSE /\ cached' = cached \cup {request[r].id}
          /\ served' = [served EXCEPT ![request[r].id] = @ + 1]
          /\ asked' = asked \cup {request[r].id}
  /\ UNCHANGED <<matchVars, phase, expired, body>>

\* Another status, or an answer that cannot be read or decoded: no retry.
Refused(r) ==
  /\ request[r].at = "ask" /\ ~expired
  /\ request' = [request EXCEPT ![r].at = "failed"]
  /\ asked' = asked \cup ({request[r].id} \ {NoId})
  /\ UNCHANGED <<matchVars, phase, expired, body, cached, served>>

\* Mutant of Retryable: attempts counted from zero.
RetryableOnceMore(r) ==
  /\ request[r].at = "ask" /\ ~expired
  /\ request' = [request EXCEPT ![r].at = IF request[r].tries > MaxAttempts THEN "failed" ELSE "backoff"]
  /\ asked' = asked \cup ({request[r].id} \ {NoId})
  /\ UNCHANGED <<matchVars, phase, expired, body, cached, served>>

\* A transport error, 429 or 5xx: wait and try again, or give up.
Retryable(r) ==
  /\ request[r].at = "ask" /\ ~expired
  /\ request' = [request EXCEPT ![r].at = IF request[r].tries = MaxAttempts THEN "failed" ELSE "backoff"]
  /\ asked' = asked \cup ({request[r].id} \ {NoId})
  /\ UNCHANGED <<matchVars, phase, expired, body, cached, served>>

\* http.Do under an expired context, and the select of the backoff.
DeadlineFails(r) ==
  /\ request[r].at \in {"ask", "backoff"} /\ expired
  /\ request' = [request EXCEPT ![r].at = "failed"]
  /\ UNCHANGED <<matchVars, phase, expired, body, cached, served, asked>>

TryAgain(r) ==
  /\ request[r].at = "backoff"
  /\ request' = [request EXCEPT ![r] = [at |-> "ask", id |-> @.id, tries |-> @.tries + 1]]
  /\ UNCHANGED <<matchVars, phase, expired, body, cached, served, asked>>

RequestStep(r) ==
  Answered(r) \/ Refused(r) \/ Retryable(r) \/ DeadlineFails(r) \/ TryAgain(r)

\* The timer of context.WithTimeout.
ExpireDeadline ==
  /\ ~expired /\ phase \notin {"idle", "done"}
  /\ expired' = TRUE
  /\ UNCHANGED <<matchVars, phase, body, request, cached, served, asked>>

\* Match gives up with an error.
Fail ==
  /\ phase' = "done" /\ outcome' = "error"
  /\ request' = [request EXCEPT ![Caller] = Idle]
  /\ UNCHANGED <<deps, chunk, turn, page, pairs, queue, advs, label, owner, emitted, matched,
                 expired, body, cached, served, asked>>

------------------------------------------------------------------------------
(* The batch queries.                                                         *)

Chunk == SubSeq(deps, chunk + 1, Min2({chunk + BatchSize, Len(deps)}))

\* What OSV lists for a dependency: nothing, for a version it has never seen.
Listing(d) ==
  IF <<d.package, d.version>> \in DOMAIN Pages THEN Pages[<<d.package, d.version>>] ELSE << <<>> >>

Query(next) ==
  /\ phase' = next
  /\ request' = [request EXCEPT ![Caller] = Asking(NoId)]

StartMatch(ds) ==
  /\ phase = "idle" /\ ds # <<>>
  /\ deps' = ds
  /\ Query("batch")
  /\ UNCHANGED <<chunk, turn, page, pairs, queue, advs, label, owner, emitted, matched, outcome,
                 expired, body, cached, served, asked>>

QueryAnswered ==
  /\ phase \in {"batch", "page"} /\ Main.at = "got"
  /\ phase' = "results"
  /\ request' = [request EXCEPT ![Caller] = Idle]
  /\ UNCHANGED <<matchVars, expired, body, cached, served, asked>>

QueryFails == phase \in {"batch", "page"} /\ Main.at = "failed" /\ Fail

\* for j, result := range results
MoreResults == turn <= Len(Chunk)

\* Mutant of TakePage: the first page is taken for the whole list.
TakeFirstPage ==
  /\ phase = "results" /\ MoreResults
  /\ LET listed == Listing(Chunk[turn]) IN
     pairs' = pairs \o [n \in DOMAIN listed[page] |-> [dep |-> Chunk[turn], id |-> listed[page][n]]]
  /\ turn' = turn + 1 /\ page' = 1
  /\ UNCHANGED <<phase, request, deps, chunk, queue, advs, label, owner, emitted, matched, outcome,
                 expired, body, cached, served, asked>>

\* One page of one result; a further page is one more query.
TakePage ==
  /\ phase = "results" /\ MoreResults
  /\ LET listed == Listing(Chunk[turn]) IN
     /\ pairs' = pairs \o [n \in DOMAIN listed[page] |-> [dep |-> Chunk[turn], id |-> listed[page][n]]]
     /\ IF page < Len(listed)
        THEN turn' = turn /\ page' = page + 1 /\ Query("page")
        ELSE turn' = turn + 1 /\ page' = 1 /\ UNCHANGED <<phase, request>>
  /\ UNCHANGED <<deps, chunk, queue, advs, label, owner, emitted, matched, outcome,
                 expired, body, cached, served, asked>>

\* The distinct elements of a sequence, in the order first seen.
FirstSeen(seq) == FirstBy(seq, LAMBDA e : e)

Advised == [n \in DOMAIN pairs |-> pairs[n].id]

Crew(size) == CHOOSE team \in SUBSET Fetchers : Cardinality(team) = Min2({size, Cardinality(Fetchers)})

\* Mutant of NextBatch: the pool is given every pair.
NextBatchEveryPair ==
  /\ phase = "results" /\ ~MoreResults
  /\ chunk' = chunk + BatchSize /\ turn' = 1
  /\ IF chunk' < Len(deps) THEN Query("batch") /\ UNCHANGED queue
     ELSE /\ phase' = "prefetch" /\ queue' = Advised
          /\ request' = [r \in DOMAIN request |->
               IF r \in Crew(Len(queue')) THEN [Gone EXCEPT !.at = "ready"] ELSE request[r]]
  /\ UNCHANGED <<deps, page, pairs, advs, label, owner, emitted, matched, outcome,
                 expired, body, cached, served, asked>>

NextBatch ==
  /\ phase = "results" /\ ~MoreResults
  /\ chunk' = chunk + BatchSize /\ turn' = 1
  /\ IF chunk' < Len(deps) THEN Query("batch") /\ UNCHANGED queue
     ELSE /\ phase' = "prefetch" /\ queue' = FirstSeen(Advised)
          /\ request' = [r \in DOMAIN request |->
               IF r \in Crew(Len(queue')) THEN [Gone EXCEPT !.at = "ready"] ELSE request[r]]
  /\ UNCHANGED <<deps, page, pairs, advs, label, owner, emitted, matched, outcome,
                 expired, body, cached, served, asked>>

------------------------------------------------------------------------------
(* prefetchAdvisories                                                         *)

\* case work <- id, and the test of the deadline after the select.
HandOver(w) ==
  /\ phase = "prefetch" /\ queue # <<>> /\ request[w].at = "ready"
  /\ request' = [request EXCEPT ![w] = [at |-> "took", id |-> Head(queue), tries |-> 0]]
  /\ queue' = IF expired THEN <<>> ELSE Tail(queue)
  /\ UNCHANGED <<deps, chunk, turn, page, pairs, advs, label, owner, emitted, matched, outcome,
                 phase, expired, body, cached, served, asked>>

\* Mutant of StopHanding: a bare send.
StopHandingNever == FALSE

\* case <-ctx.Done()
StopHanding ==
  /\ phase = "prefetch" /\ queue # <<>> /\ expired
  /\ queue' = <<>>
  /\ UNCHANGED <<deps, chunk, turn, page, pairs, advs, label, owner, emitted, matched, outcome,
                 phase, expired, request, body, cached, served, asked>>

\* A fetcher leaves when the deadline has passed, and drops the ID it took.
BeginFetch(w) ==
  /\ request[w].at = "took"
  /\ request' = [request EXCEPT ![w] =
       IF expired THEN Gone
       ELSE IF @.id \in cached THEN [Gone EXCEPT !.at = "ready"] ELSE Asking(@.id)]
  /\ UNCHANGED <<matchVars, phase, expired, body, cached, served, asked>>

\* fetchAdvisory has stored the body, or failed: either way the next ID.
EndFetch(w) ==
  /\ request[w].at \in {"got", "failed"}
  /\ request' = [request EXCEPT ![w] = [Gone EXCEPT !.at = "ready"]]
  /\ UNCHANGED <<matchVars, phase, expired, body, cached, served, asked>>

\* close(work)
LeavePool(w) ==
  /\ request[w].at = "ready" /\ queue = <<>>
  /\ request' = [request EXCEPT ![w] = Gone]
  /\ UNCHANGED <<matchVars, phase, expired, body, cached, served, asked>>

Prefetched == phase = "prefetch" /\ queue = <<>> /\ \A w \in Fetchers : request[w] = Gone

\* Mutant of PrefetchEnds: an expired deadline is left to the best effort.
PrefetchEndsAnyway ==
  /\ Prefetched
  /\ phase' = "hydrate"
  /\ UNCHANGED <<matchVars, expired, request, body, cached, served, asked>>

\* wg.Wait(), and the deadline: a truncated verdict would read like a clean one.
PrefetchEnds ==
  /\ Prefetched
  /\ \/ expired /\ Fail
     \/ /\ ~expired
        /\ phase' = "hydrate"
        /\ UNCHANGED <<matchVars, expired, request, body, cached, served, asked>>

------------------------------------------------------------------------------
(* Every pair, against what was fetched.                                      *)

\* A body that is there.
Resolve ==
  /\ phase = "hydrate" /\ turn <= Len(pairs)
  /\ LET p == pairs[turn] IN
     /\ p.id \in cached
     /\ advs' = IF Skipped(body[p.id]) THEN advs ELSE Append(advs, Hydrated(body[p.id], p.dep))
  /\ turn' = turn + 1
  /\ request' = [request EXCEPT ![Caller] = Idle]
  /\ UNCHANGED <<deps, chunk, page, pairs, queue, label, owner, emitted, matched, outcome,
                 phase, expired, body, cached, served, asked>>

\* A miss: the body is asked for again, pair by pair.
FetchAgain ==
  /\ phase = "hydrate" /\ turn <= Len(pairs)
  /\ pairs[turn].id \notin cached /\ Main.at = "idle"
  /\ request' = [request EXCEPT ![Caller] = Asking(pairs[turn].id)]
  /\ UNCHANGED <<matchVars, phase, expired, body, cached, served, asked>>

ReportAnyway ==
  /\ phase = "hydrate" /\ Main.at = "failed"
  /\ advs' = Append(advs, WithoutDetails(pairs[turn].id, pairs[turn].dep))
  /\ turn' = turn + 1
  /\ request' = [request EXCEPT ![Caller] = Idle]
  /\ UNCHANGED <<deps, chunk, page, pairs, queue, label, owner, emitted, matched, outcome,
                 phase, expired, body, cached, served, asked>>

StartMerge ==
  /\ phase = "hydrate" /\ turn > Len(pairs)
  /\ phase' = "merge" /\ turn' = 1
  /\ UNCHANGED <<deps, chunk, page, pairs, queue, advs, label, owner, emitted, matched, outcome,
                 expired, request, body, cached, served, asked>>

------------------------------------------------------------------------------
(* mergeAliases, for each dependency in the order first seen.                 *)

Order == FirstSeen([n \in DOMAIN pairs |-> pairs[n].dep])
Mine == Picked(advs, {n \in DOMAIN advs : advs[n].dep = Order[turn]})
Merging == phase = "merge" /\ turn <= Len(Order)

\* Mutant of LinkNext: only the advisory that named the ID first moves over,
\* not the rest of its group.
LinkOneOwner ==
  /\ Merging /\ Len(label) < Len(Mine)
  /\ LET i == Len(label) + 1
         ids == Mine[i].ids
         shared == {owner[id] : id \in ids \cap DOMAIN owner}
     IN  /\ label' = Append([k \in DOMAIN label |-> IF k \in shared THEN i ELSE label[k]], i)
         /\ owner' = [id \in DOMAIN owner \cup ids |-> IF id \in DOMAIN owner THEN owner[id] ELSE i]
  /\ UNCHANGED <<deps, chunk, turn, page, pairs, queue, advs, emitted, matched, outcome,
                 phase, expired, request, body, cached, served, asked>>

\* One advisory is linked with every group that owns one of its IDs.  A group
\* is called by its last member (the code calls it by its root).
LinkNext ==
  /\ Merging /\ Len(label) < Len(Mine)
  /\ LET i == Len(label) + 1
         ids == Mine[i].ids
         shared == {label[owner[id]] : id \in ids \cap DOMAIN owner}
     IN  /\ label' = Append([k \in DOMAIN label |-> IF label[k] \in shared THEN i ELSE label[k]], i)
         /\ owner' = [id \in DOMAIN owner \cup ids |-> IF id \in DOMAIN owner THEN owner[id] ELSE i]
  /\ UNCHANGED <<deps, chunk, turn, page, pairs, queue, advs, emitted, matched, outcome,
                 phase, expired, request, body, cached, served, asked>>

\* One merged advisory for each group, in the order of their first members.
EmitGroup ==
  /\ Merging /\ Len(label) = Len(Mine) /\ emitted < Len(Mine)
  /\ LET k == emitted + 1 IN
     matched' = IF \E j \in 1..emitted : label[j] = label[k] THEN matched
                ELSE Append(matched, MergeGroup(Mine, {j \in DOMAIN label : label[j] = label[k]}))
  /\ emitted' = emitted + 1
  /\ UNCHANGED <<deps, chunk, turn, page, pairs, queue, advs, label, owner, outcome,
                 phase, expired, request, body, cached, served, asked>>

NextDependency ==
  /\ Merging /\ Len(label) = Len(Mine) /\ emitted = Len(Mine)
  /\ turn' = turn + 1
  /\ label' = <<>> /\ owner' = <<>> /\ emitted' = 0
  /\ UNCHANGED <<deps, chunk, page, pairs, queue, advs, matched, outcome,
                 phase, expired, request, body, cached, served, asked>>

ReturnMatched ==
  /\ phase = "merge" /\ turn > Len(Order)
  /\ phase' = "done" /\ outcome' = "ok"
  /\ UNCHANGED <<deps, chunk, turn, page, pairs, queue, advs, label, owner, emitted, matched,
                 expired, request, body, cached, served, asked>>

------------------------------------------------------------------------------

MatchStep ==
  \/ QueryAnswered \/ QueryFails \/ TakePage \/ NextBatch
  \/ StopHanding \/ PrefetchEnds
  \/ Resolve \/ FetchAgain \/ ReportAnyway \/ StartMerge
  \/ LinkNext \/ EmitGroup \/ NextDependency \/ ReturnMatched

FetcherStep(w) ==
  HandOver(w) \/ BeginFetch(w) \/ EndFetch(w) \/ LeavePool(w)

OsvStep ==
  \/ MatchStep
  \/ \E w \in Fetchers : FetcherStep(w)
  \/ \E r \in Fetchers \cup {Caller} : RequestStep(r)

\* Goroutines run while they can, and a request ends: http.Client has a timeout
\* of 30 seconds, and the backoff a timer.
OsvFairness ==
  /\ WF_osvVars(MatchStep)
  /\ \A w \in Fetchers : WF_osvVars(FetcherStep(w))
  /\ \A r \in Fetchers \cup {Caller} : WF_osvVars(RequestStep(r))
==============================================================================
