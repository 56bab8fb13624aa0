----------------------------- MODULE PipelineProofs -----------------------------
(***************************************************************************)
(* Run, for any directory tree, any filters, any unreadable paths, any     *)
(* scanners and any number of workers: the walk finds what there is to     *)
(* find, the SAST scanner's workers implement one call, and a gap in the   *)
(* result is never silent.                                                 *)
(***************************************************************************)
EXTENDS Pipeline, ListsProofs

------------------------------------------------------------------------------
(* The worker pool, for any number of workers and any list of distinct        *)
(* files: no file is in two places, and there is always room for the results  *)
(* that are still to come.                                                    *)

\* Files is whatever a walk may list; NoFile is not among it.

\* Nothing is in the list twice.
Once(s) == \A i, j \in 1..Len(s) : s[i] = s[j] => i = j
Without(s, e) == \A i \in 1..Len(s) : s[i] # e
Apart(s, t) == \A i \in 1..Len(s), j \in 1..Len(t) : s[i] # t[j]

\* Any caller, with any list of distinct files and any number of workers.
CallScan(Files) ==
  \E files \in Seq(Files), hired \in (SUBSET Workers) \ {{}} : Once(files) /\ StartScan(files, hired)

PoolNext(Files) == CallScan(Files) \/ Expire \/ ScanStep
PoolSpec(Files) == PoolInit /\ [][PoolNext(Files)]_poolVars

Busy == {"took", "busy", "send"}
Holders == {w \in Workers : worker[w].at \in Busy}

PoolTypes(Files) ==
  /\ queue \in Seq(Files) /\ results \in Seq(Files) /\ gathered \in Seq(Files)
  /\ queueCap \in Nat
  /\ worker \in [Workers -> [at : Busy \cup {"next", "gone"}, file : Files \cup {NoFile}]]
  /\ \A w \in Workers : worker[w].at \in Busy <=> worker[w].file # NoFile

\* Each file is in the queue, with one worker, in the result channel or with
\* the caller.
OnePlace ==
  /\ Once(queue) /\ Once(results) /\ Once(gathered)
  /\ Apart(queue, results) /\ Apart(queue, gathered) /\ Apart(results, gathered)
  /\ \A w \in Holders :
       /\ Without(queue, worker[w].file) /\ Without(results, worker[w].file)
       /\ Without(gathered, worker[w].file)
  /\ \A v, w \in Holders : worker[v].file = worker[w].file => v = w

\* What is queued, held and sent fits the result channel, which is open as long
\* as a worker is left.
Room ==
  /\ Len(queue) + Cardinality(Holders) + Len(results) <= queueCap
  /\ resultsClosed => \A w \in Workers : worker[w] = Gone
  /\ call = "no" =>
       /\ \A w \in Workers : worker[w] = Gone
       /\ results = <<>> /\ gathered = <<>> /\ ~resultsClosed

PoolIsSound(Files) == PoolTypes(Files) /\ OnePlace /\ Room

------------------------------------------------------------------------------
(* Lists of distinct files. *)

LEMMA PlacesOf ==
  ASSUME NEW Files, NEW s \in Seq(Files)
  PROVE  Len(s) \in Nat /\ \A i \in 1..Len(s) : s[i] \in Files
BY LenProperties, ElementOfSeq

LEMMA HeadAndTail ==
  ASSUME NEW Files, NEW s \in Seq(Files), s # <<>>, Once(s)
  PROVE  /\ Head(s) \in Files /\ Tail(s) \in Seq(Files)
         /\ Len(s) \in Nat /\ Len(Tail(s)) = Len(s) - 1
         /\ Once(Tail(s)) /\ Without(Tail(s), Head(s))
         /\ \E k \in 1..Len(s) : s[k] = Head(s)
         /\ \A i \in 1..Len(Tail(s)) : \E k \in 1..Len(s) : s[k] = Tail(s)[i]
<1> DEFINE t == Tail(s)
<1>1. /\ Head(s) \in Files /\ t \in Seq(Files) /\ Len(t) = Len(s) - 1
      /\ \A i \in 1..Len(t) : t[i] = s[i + 1]
  BY HeadTailProperties
<1>2. Len(s) \in Nat \ {0} BY EmptySeq
<1>3. Head(s) = s[1] OBVIOUS
<1> HIDE DEF t
<1>4. \A i \in 1..Len(t) : i + 1 \in 1..Len(s) /\ i + 1 # 1 BY <1>1, <1>2
<1>5. Once(t) BY <1>1, <1>4 DEF Once
<1>6. Without(t, Head(s)) BY <1>1, <1>2, <1>3, <1>4 DEF Once, Without
<1>7. \E k \in 1..Len(s) : s[k] = Head(s) BY <1>2, <1>3
<1>8. \A i \in 1..Len(t) : \E k \in 1..Len(s) : s[k] = t[i] BY <1>1, <1>4
<1>9. QED BY <1>1, <1>2, <1>5, <1>6, <1>7, <1>8 DEF t

LEMMA AddedOnce ==
  ASSUME NEW Files, NEW s \in Seq(Files), NEW e \in Files, Once(s), Without(s, e)
  PROVE  /\ Append(s, e) \in Seq(Files) /\ Len(Append(s, e)) = Len(s) + 1
         /\ Once(Append(s, e))
         /\ \A i \in 1..Len(Append(s, e)) :
              Append(s, e)[i] = e \/ \E k \in 1..Len(s) : Append(s, e)[i] = s[k]
<1> DEFINE t == Append(s, e)
<1>1. /\ t \in Seq(Files) /\ Len(t) = Len(s) + 1
      /\ \A i \in 1..Len(s) : t[i] = s[i]
      /\ t[Len(s) + 1] = e
  BY AppendProperties
<1>2. Len(s) \in Nat BY LenProperties
<1> HIDE DEF t
<1>3. \A i \in 1..Len(t) : \/ i \in 1..Len(s) /\ t[i] = s[i]
                           \/ i = Len(s) + 1 /\ t[i] = e
  BY <1>1, <1>2
<1>4. Once(t) BY <1>3 DEF Once, Without
<1>5. QED BY <1>1, <1>3, <1>4 DEF t

LEMMA Joined ==
  ASSUME NEW Files, NEW s \in Seq(Files), NEW t \in Seq(Files), Once(s), Once(t), Apart(s, t)
  PROVE  /\ s \o t \in Seq(Files) /\ Once(s \o t)
         /\ \A i \in 1..Len(s \o t) : \/ \E k \in 1..Len(s) : (s \o t)[i] = s[k]
                                      \/ \E k \in 1..Len(t) : (s \o t)[i] = t[k]
<1> DEFINE c == s \o t
<1>1. /\ Len(s) \in Nat /\ Len(t) \in Nat
      /\ c \in Seq(Files) /\ Len(c) = Len(s) + Len(t)
      /\ \A i \in 1..Len(s) + Len(t) : c[i] = IF i <= Len(s) THEN s[i] ELSE t[i - Len(s)]
  BY ConcatProperties, LenProperties
<1> HIDE DEF c
<1>2. \A i \in 1..Len(c) : \/ i \in 1..Len(s) /\ c[i] = s[i]
                           \/ i - Len(s) \in 1..Len(t) /\ c[i] = t[i - Len(s)]
  <2> TAKE i \in 1..Len(c)
  <2>1. CASE i <= Len(s) BY <1>1, <2>1
  <2>2. CASE ~(i <= Len(s))
    <3>1. i - Len(s) \in 1..Len(t) /\ i \in 1..(Len(s) + Len(t)) BY <1>1, <2>2
    <3>2. QED BY <1>1, <2>2, <3>1
  <2>3. QED BY <2>1, <2>2
<1>3. ASSUME NEW i \in 1..Len(c), NEW j \in 1..Len(c), c[i] = c[j] PROVE i = j
  <2>1. CASE i \in 1..Len(s) /\ c[i] = s[i] /\ j \in 1..Len(s) /\ c[j] = s[j]
    BY <1>3, <2>1 DEF Once
  <2>2. CASE /\ i - Len(s) \in 1..Len(t) /\ c[i] = t[i - Len(s)]
             /\ j - Len(s) \in 1..Len(t) /\ c[j] = t[j - Len(s)]
    <3>1. i - Len(s) = j - Len(s) BY <1>3, <2>2 DEF Once
    <3>2. QED BY <1>1, <3>1
  <2>3. QED BY <1>2, <1>3, <2>1, <2>2 DEF Apart
<1>4. QED BY <1>1, <1>2, <1>3 DEF Once, c

LEMMA SoundAtFirst ==
  ASSUME NEW Files
  PROVE  PoolInit => PoolIsSound(Files)
<1>1. SUFFICES ASSUME PoolInit PROVE PoolIsSound(Files) OBVIOUS
<1>2. /\ queue = <<>> /\ results = <<>> /\ gathered = <<>> /\ queueCap = 0 /\ ~resultsClosed
      /\ worker = [w \in Workers |-> Gone]
  BY <1>1 DEF PoolInit
<1>3. Len(queue) = 0 /\ queue \in Seq(Files) BY <1>2, EmptySeq
<1>4. Holders = {} BY <1>2 DEF Holders, Gone, Busy
<1>5. Cardinality(Holders) = 0 BY <1>4, FS_EmptySet
<1>6. PoolTypes(Files) BY <1>2, <1>3 DEF PoolTypes, Gone, Busy
<1>7. OnePlace BY <1>2, <1>3, <1>4 DEF OnePlace, Once, Apart
<1>8. Room BY <1>2, <1>3, <1>5 DEF Room
<1>9. QED BY <1>6, <1>7, <1>8 DEF PoolIsSound

\* The holders are finitely many; one more or one less counts for one.
LEMMA HoldersCount ==
  ASSUME NEW T \in SUBSET Workers
  PROVE  /\ Cardinality(T) \in Nat
         /\ \A w \in T : Cardinality(T \ {w}) = Cardinality(T) - 1
         /\ \A w \in Workers \ T : Cardinality(T \cup {w}) = Cardinality(T) + 1
<1>1. IsFiniteSet(T) BY PoolAssumption, FS_Subset
<1>2. QED BY <1>1, FS_CardinalityType, FS_RemoveElement, FS_AddElement

LEMMA CallKeepsSound ==
  ASSUME NEW Files, NoFile \notin Files, PoolIsSound(Files), CallScan(Files)
  PROVE  PoolIsSound(Files)'
<1>1. PICK files \in Seq(Files), hired \in (SUBSET Workers) \ {{}} : Once(files) /\ StartScan(files, hired)
  BY DEF CallScan
<1>2. /\ call = "no" /\ call' = "running" /\ queue' = files /\ queueCap' = Len(files)
      /\ worker' = [w \in Workers |-> IF w \in hired THEN Ready ELSE Gone]
      /\ UNCHANGED <<results, resultsClosed, gathered>>
  BY <1>1 DEF StartScan
<1>3. results = <<>> /\ gathered = <<>> /\ ~resultsClosed BY <1>2 DEF PoolIsSound, Room
<1>4. Len(files) \in Nat /\ Len(results) = 0 /\ Len(gathered) = 0
      /\ results \in Seq(Files) /\ gathered \in Seq(Files)
  BY <1>3, EmptySeq, LenProperties
<1>5. \A w \in Workers : worker'[w].at \notin Busy /\ worker'[w].file = NoFile
  BY <1>2 DEF Ready, Gone, Busy
<1>6. Holders' = {} BY <1>5 DEF Holders
<1>7. Cardinality(Holders') = 0 BY <1>6, FS_EmptySet
<1>8. PoolTypes(Files)' BY <1>2, <1>4, <1>5 DEF PoolTypes, Ready, Gone
<1>9. OnePlace' BY <1>1, <1>2, <1>4, <1>6 DEF OnePlace, Once, Apart
<1>10. Room' BY <1>2, <1>3, <1>4, <1>7 DEF Room
<1>11. QED BY <1>8, <1>9, <1>10 DEF PoolIsSound

LEMMA TakeKeepsSound ==
  ASSUME NEW Files, NoFile \notin Files, PoolIsSound(Files), NEW w \in Workers, TakeFile(w)
  PROVE  PoolIsSound(Files)'
<1> DEFINE e == Head(queue)
<1>1. /\ worker[w].at = "next" /\ queue # <<>> /\ queue' = Tail(queue)
      /\ worker' = [worker EXCEPT ![w] = [at |-> "took", file |-> e]]
      /\ UNCHANGED <<queueCap, results, resultsClosed, gathered, call>>
  BY DEF TakeFile
<1>2. PoolTypes(Files) /\ OnePlace /\ Room BY DEF PoolIsSound
<1>3. /\ e \in Files /\ queue' \in Seq(Files) /\ Len(queue) \in Nat /\ Len(queue') = Len(queue) - 1
      /\ Once(queue') /\ Without(queue', e)
      /\ \E k \in 1..Len(queue) : queue[k] = e
      /\ \A i \in 1..Len(queue') : \E k \in 1..Len(queue) : queue[k] = queue'[i]
  BY <1>1, <1>2, HeadAndTail DEF PoolTypes, OnePlace
<1>4. /\ \A v \in Workers \ {w} : worker'[v] = worker[v]
      /\ worker'[w] = [at |-> "took", file |-> e]
  BY <1>1, <1>2 DEF PoolTypes
<1>5. w \notin Holders /\ Holders' = Holders \cup {w} /\ Holders \subseteq Workers
  BY <1>1, <1>4 DEF Holders, Busy
<1>6. PoolTypes(Files)'
  <2>1. worker' \in [Workers -> [at : Busy \cup {"next", "gone"}, file : Files \cup {NoFile}]]
    <3>1. [at |-> "took", file |-> e] \in [at : Busy \cup {"next", "gone"}, file : Files \cup {NoFile}]
      BY <1>3 DEF Busy
    <3>2. QED BY <1>1, <1>2, <3>1 DEF PoolTypes
  <2>2. \A v \in Workers : worker'[v].at \in Busy <=> worker'[v].file # NoFile
    <3>1. e # NoFile BY <1>3
    <3>2. QED BY <1>2, <1>4, <3>1 DEF PoolTypes, Busy
  <2>3. QED BY <1>1, <1>2, <1>3, <2>1, <2>2 DEF PoolTypes
<1>7. Without(results, e) /\ Without(gathered, e) /\ \A v \in Holders : worker[v].file # e
  BY <1>2, <1>3 DEF OnePlace, Without, Apart
<1>8. Apart(queue', results) /\ Apart(queue', gathered) /\ \A v \in Holders : Without(queue', worker[v].file)
  BY <1>2, <1>3 DEF OnePlace, Without, Apart
<1>9. \A v \in Holders : v # w /\ worker'[v] = worker[v] BY <1>4, <1>5
<1>10. OnePlace'
  <2>1. \A v \in Holders' :
          /\ Without(queue', worker'[v].file) /\ Without(results, worker'[v].file)
          /\ Without(gathered, worker'[v].file)
    <3>1. CASE UNCHANGED worker BY <1>1, <1>4, <3>1
    <3>2. ASSUME NEW v \in Holders
          PROVE  Without(queue', worker'[v].file) /\ Without(results, worker'[v].file)
                 /\ Without(gathered, worker'[v].file)
      BY <1>2, <1>8, <1>9 DEF OnePlace
    <3>3. QED BY <1>3, <1>4, <1>5, <1>7, <3>2
  <2>2. \A u, v \in Holders' : worker'[v].file = worker'[u].file => v = u
    BY <1>2, <1>4, <1>5, <1>7, <1>9 DEF OnePlace
  <2>3. QED BY <1>1, <1>2, <1>3, <1>8, <2>1, <2>2 DEF OnePlace
<1>11. Room'
  <2>1. Cardinality(Holders') = Cardinality(Holders) + 1 /\ Cardinality(Holders) \in Nat
    BY <1>5, HoldersCount
  <2>2. call # "no" /\ ~resultsClosed BY <1>1, <1>2 DEF Room, Gone
  <2>3. Len(results) \in Nat BY <1>2, PlacesOf DEF PoolTypes
  <2>4. QED BY <1>1, <1>2, <1>3, <2>1, <2>2, <2>3 DEF Room, PoolTypes
<1>12. QED BY <1>6, <1>10, <1>11 DEF PoolIsSound

\* A worker that moves on with the file it has, or lets it go.
LEMMA MovingKeepsSound ==
  ASSUME NEW Files, NoFile \notin Files, PoolIsSound(Files), NEW w \in Workers,
         LeaveQueue(w) \/ CheckDeadline(w) \/ ProcessFile(w)
  PROVE  PoolIsSound(Files)'
<1> DEFINE Hands == [at : Busy \cup {"next", "gone"}, file : Files \cup {NoFile}]
<1>1. PoolTypes(Files) /\ OnePlace /\ Room BY DEF PoolIsSound
<1>2. UNCHANGED <<queue, queueCap, results, resultsClosed, gathered, call>> /\ worker[w].at # "gone"
  BY DEF LeaveQueue, CheckDeadline, ProcessFile
<1>3. /\ \A v \in Workers \ {w} : worker'[v] = worker[v]
      /\ worker' \in [Workers -> Hands]
      /\ worker'[w] = Gone \/ (worker[w].at \in Busy /\ worker'[w].at \in Busy /\ worker'[w].file = worker[w].file)
  <2>1. worker \in [Workers -> Hands] /\ worker[w] \in Hands BY <1>1 DEF PoolTypes
  <2>2. PICK h \in Hands : /\ worker' = [worker EXCEPT ![w] = h]
                           /\ h = Gone \/ (worker[w].at \in Busy /\ h.at \in Busy /\ h.file = worker[w].file)
    <3>1. Gone \in Hands BY DEF Gone
    <3>2. \A a \in Busy : [worker[w] EXCEPT !.at = a] \in Hands
                         /\ [worker[w] EXCEPT !.at = a].at = a
                         /\ [worker[w] EXCEPT !.at = a].file = worker[w].file
      BY <2>1
    <3>3. CASE LeaveQueue(w) BY <3>1, <3>3 DEF LeaveQueue
    <3>4. CASE CheckDeadline(w)
      <4>1. CASE expired BY <3>1, <3>4, <4>1 DEF CheckDeadline
      <4>2. CASE ~expired
        <5>1. worker' = [worker EXCEPT ![w] = [worker[w] EXCEPT !.at = "busy"]] /\ worker[w].at = "took"
          BY <3>4, <4>2 DEF CheckDeadline
        <5>2. QED BY <3>2, <5>1 DEF Busy
      <4>3. QED BY <4>1, <4>2
    <3>5. CASE ProcessFile(w)
      <4>1. worker' = [worker EXCEPT ![w] = [worker[w] EXCEPT !.at = "send"]] /\ worker[w].at = "busy"
        BY <3>5 DEF ProcessFile
      <4>2. QED BY <3>2, <4>1 DEF Busy
    <3>6. QED BY <3>3, <3>4, <3>5
  <2> HIDE DEF Hands
  <2>3. worker'[w] = h /\ \A v \in Workers \ {w} : worker'[v] = worker[v] BY <2>1, <2>2
  <2>4. worker' \in [Workers -> Hands] BY <2>1, <2>2
  <2>5. QED BY <2>2, <2>3, <2>4
<1>4. Holders' \subseteq Holders /\ \A v \in Holders' : worker'[v].file = worker[v].file
  BY <1>3 DEF Holders, Gone, Busy
<1>5. PoolTypes(Files)'
  <2>1. \A v \in Workers : worker'[v].at \in Busy <=> worker'[v].file # NoFile
    BY <1>1, <1>3 DEF PoolTypes, Gone, Busy
  <2>2. QED BY <1>1, <1>2, <1>3, <2>1 DEF PoolTypes
<1>6. OnePlace' BY <1>1, <1>2, <1>4 DEF OnePlace
<1>7. Room'
  <2>1. Cardinality(Holders') <= Cardinality(Holders)
        /\ Cardinality(Holders') \in Nat /\ Cardinality(Holders) \in Nat
    <3>1. IsFiniteSet(Holders) /\ Holders' \in SUBSET Workers /\ Holders \in SUBSET Workers
      BY PoolAssumption, FS_Subset DEF Holders
    <3>2. QED BY <1>4, <3>1, FS_Subset, HoldersCount
  <2>2. call # "no" /\ ~resultsClosed BY <1>1, <1>2 DEF Room, Gone
  <2>3. Len(queue) \in Nat /\ Len(results) \in Nat BY <1>1, PlacesOf DEF PoolTypes
  <2>4. QED BY <1>1, <1>2, <2>1, <2>2, <2>3 DEF Room, PoolTypes
<1>8. QED BY <1>5, <1>6, <1>7 DEF PoolIsSound

LEMMA SendKeepsSound ==
  ASSUME NEW Files, NoFile \notin Files, PoolIsSound(Files), NEW w \in Workers, SendResult(w)
  PROVE  PoolIsSound(Files)'
<1> DEFINE e == worker[w].file
<1>1. /\ worker[w].at = "send" /\ results' = Append(results, e)
      /\ worker' = [worker EXCEPT ![w] = Ready]
      /\ UNCHANGED <<queue, queueCap, resultsClosed, gathered, call>>
  BY DEF SendResult
<1>2. PoolTypes(Files) /\ OnePlace /\ Room BY DEF PoolIsSound
<1>3. w \in Holders /\ Holders \subseteq Workers BY <1>1 DEF Holders, Busy
<1>4. e \in Files BY <1>1, <1>2 DEF PoolTypes, Busy
<1>5. /\ results' \in Seq(Files) /\ Len(results') = Len(results) + 1 /\ Once(results')
      /\ \A i \in 1..Len(results') : results'[i] = e \/ \E k \in 1..Len(results) : results'[i] = results[k]
  BY <1>1, <1>2, <1>3, <1>4, AddedOnce DEF PoolTypes, OnePlace
<1>6. /\ \A v \in Workers \ {w} : worker'[v] = worker[v]
      /\ worker'[w] = Ready
  BY <1>1, <1>2 DEF PoolTypes
<1>7. Holders' = Holders \ {w} BY <1>6 DEF Holders, Ready, Busy
<1>8. PoolTypes(Files)' BY <1>1, <1>2, <1>5, <1>6 DEF PoolTypes, Ready, Busy
<1>9. OnePlace'
  <2>1. Without(queue, e) /\ Without(gathered, e) BY <1>2, <1>3 DEF OnePlace
  <2> HIDE DEF e
  <2>5. Apart(queue, results') /\ Apart(results', gathered)
    BY <1>2, <1>5, <2>1 DEF OnePlace, Without, Apart
  <2>2. \A v \in Holders' : v \in Holders /\ v # w /\ worker'[v] = worker[v] /\ worker[v].file # e
    BY <1>2, <1>3, <1>6, <1>7 DEF OnePlace, e
  <2>3. \A v \in Holders' : Without(results', worker[v].file)
    BY <1>2, <1>5, <2>2 DEF OnePlace, Without
  <2>4. QED BY <1>1, <1>2, <1>5, <2>2, <2>3, <2>5 DEF OnePlace
<1>10. Room'
  <2>1. Cardinality(Holders') = Cardinality(Holders) - 1 /\ Cardinality(Holders) \in Nat
    BY <1>3, <1>7, HoldersCount
  <2>2. call # "no" /\ ~resultsClosed BY <1>1, <1>2 DEF Room, Gone
  <2>3. Len(queue) \in Nat /\ Len(results) \in Nat BY <1>2, PlacesOf DEF PoolTypes
  <2>4. QED BY <1>1, <1>2, <1>5, <2>1, <2>2, <2>3 DEF Room, PoolTypes
<1>11. QED BY <1>8, <1>9, <1>10 DEF PoolIsSound

LEMMA GatherKeepsSound ==
  ASSUME NEW Files, NoFile \notin Files, PoolIsSound(Files), Gather
  PROVE  PoolIsSound(Files)'
<1> DEFINE e == Head(results)
<1>1. /\ call = "running" /\ results # <<>>
      /\ gathered' = Append(gathered, e) /\ results' = Tail(results)
      /\ UNCHANGED <<queue, queueCap, worker, resultsClosed, call>>
  BY DEF Gather
<1>2. PoolTypes(Files) /\ OnePlace /\ Room BY DEF PoolIsSound
<1>3. /\ e \in Files /\ results' \in Seq(Files) /\ Len(results) \in Nat /\ Len(results') = Len(results) - 1
      /\ Once(results') /\ Without(results', e)
      /\ \E k \in 1..Len(results) : results[k] = e
      /\ \A i \in 1..Len(results') : \E k \in 1..Len(results) : results[k] = results'[i]
  BY <1>1, <1>2, HeadAndTail DEF PoolTypes, OnePlace
<1>4. Without(queue, e) /\ Without(gathered, e) /\ \A v \in Holders : worker[v].file # e
  BY <1>2, <1>3 DEF OnePlace, Without, Apart
<1>5. /\ gathered' \in Seq(Files) /\ Len(gathered') = Len(gathered) + 1 /\ Once(gathered')
      /\ \A i \in 1..Len(gathered') : gathered'[i] = e \/ \E k \in 1..Len(gathered) : gathered'[i] = gathered[k]
  BY <1>1, <1>2, <1>3, <1>4, AddedOnce DEF PoolTypes, OnePlace
<1>6. Holders' = Holders BY <1>1 DEF Holders
<1>7. PoolTypes(Files)' BY <1>1, <1>2, <1>3, <1>5 DEF PoolTypes
<1>8. OnePlace'
  <2> HIDE DEF e
  <2>4. Apart(queue, results') BY <1>2, <1>3 DEF OnePlace, Apart
  <2>5. Apart(queue, gathered') BY <1>2, <1>4, <1>5 DEF OnePlace, Without, Apart
  <2>6. Apart(results', gathered')
    <3>1. Apart(results', gathered) BY <1>2, <1>3 DEF OnePlace, Apart
    <3>2. QED BY <1>3, <1>5, <3>1 DEF Without, Apart
  <2>1. Apart(queue, results') /\ Apart(queue, gathered') /\ Apart(results', gathered')
    BY <2>4, <2>5, <2>6
  <2>2. \A v \in Holders : Without(results', worker[v].file) /\ Without(gathered', worker[v].file)
    <3>1. \A v \in Holders : Without(results, worker[v].file) /\ Without(gathered, worker[v].file)
      BY <1>2 DEF OnePlace
    <3>2. \A v \in Holders : Without(results', worker[v].file) BY <1>3, <3>1 DEF Without
    <3>3. \A v \in Holders : Without(gathered', worker[v].file) BY <1>4, <1>5, <3>1 DEF Without
    <3>4. QED BY <3>2, <3>3
  <2>3. QED BY <1>1, <1>2, <1>3, <1>5, <1>6, <2>1, <2>2 DEF OnePlace
<1>9. Room'
  <2>1. Cardinality(Holders) \in Nat BY HoldersCount DEF Holders
  <2>2. Len(queue) \in Nat BY <1>2, PlacesOf DEF PoolTypes
  <2>3. QED BY <1>1, <1>2, <1>3, <1>6, <2>1, <2>2 DEF Room, PoolTypes
<1>10. QED BY <1>7, <1>8, <1>9 DEF PoolIsSound

LEMMA StepsKeepSound ==
  ASSUME NEW Files, NoFile \notin Files
  PROVE  PoolIsSound(Files) /\ [PoolNext(Files)]_poolVars => PoolIsSound(Files)'
<1>1. SUFFICES ASSUME PoolIsSound(Files), [PoolNext(Files)]_poolVars PROVE PoolIsSound(Files)' OBVIOUS
<1>2. ASSUME UNCHANGED <<queue, queueCap, worker, results, gathered>>,
             \/ call' = call /\ resultsClosed' = resultsClosed
             \/ call = "running" /\ call' = "returned" /\ resultsClosed' = resultsClosed
             \/ call = "running" /\ call' = "running" /\ \A w \in Workers : worker[w] = Gone
      PROVE  PoolIsSound(Files)'
  <2>1. Holders' = Holders BY <1>2 DEF Holders
  <2>2. PoolTypes(Files)' BY <1>1, <1>2 DEF PoolIsSound, PoolTypes
  <2>3. OnePlace' BY <1>1, <1>2, <2>1 DEF PoolIsSound, OnePlace
  <2>4. Room' BY <1>1, <1>2, <2>1 DEF PoolIsSound, Room
  <2>5. QED BY <2>2, <2>3, <2>4 DEF PoolIsSound
<1>3. CASE UNCHANGED poolVars BY <1>2, <1>3 DEF poolVars
<1>4. CASE CallScan(Files) BY <1>1, <1>4, CallKeepsSound
<1>5. CASE Expire BY <1>2, <1>5 DEF Expire
<1>6. CASE ScanStep
  <2>1. CASE \E w \in Workers : WorkerStep(w)
    BY <1>1, <2>1, TakeKeepsSound, MovingKeepsSound, SendKeepsSound DEF WorkerStep
  <2>2. CASE CloseResults BY <1>2, <2>2 DEF CloseResults
  <2>3. CASE Gather BY <1>1, <2>3, GatherKeepsSound
  <2>4. CASE ReturnScan BY <1>2, <2>4 DEF ReturnScan
  <2>5. QED BY <1>6, <2>1, <2>2, <2>3, <2>4 DEF ScanStep
<1>7. QED BY <1>1, <1>3, <1>4, <1>5, <1>6 DEF PoolNext

------------------------------------------------------------------------------
(* What became of the files of a call. *)

In(s, f) == \E i \in 1..Len(s) : s[i] = f
Placed(f) ==
  In(queue, f) \/ In(results, f) \/ In(gathered, f) \/ \E w \in Holders : worker[w].file = f

\* What became of the files of the call: they are what is in a place, and all of
\* them are unless a worker has left early; while files are queued a worker is
\* left; and the call returns when there is nothing more to gather.
AllPlaced(Files, batch) ==
  call # "no" =>
    /\ \A f \in Files : Placed(f) => f \in batch
    /\ ~expired => \A f \in batch : Placed(f)
    /\ ~expired /\ queue # <<>> => \E w \in Workers : worker[w].at # "gone"
    /\ call = "returned" => results = <<>> /\ resultsClosed

LEMMA InTail ==
  ASSUME NEW Files, NEW s \in Seq(Files), s # <<>>, NEW f
  PROVE  In(s, f) <=> f = Head(s) \/ In(Tail(s), f)
<1> DEFINE t == Tail(s)
<1>1. /\ Len(t) = Len(s) - 1
      /\ \A i \in 1..Len(t) : t[i] = s[i + 1]
  BY HeadTailProperties
<1>2. Len(s) \in Nat \ {0} /\ Head(s) = s[1] BY EmptySeq
<1> HIDE DEF t
<1>3. \A i \in 1..Len(s) : i = 1 \/ (i - 1 \in 1..Len(t) /\ t[i - 1] = s[i])
  <2> TAKE i \in 1..Len(s)
  <2>1. i # 1 => i - 1 \in 1..Len(t) BY <1>1, <1>2
  <2>2. (i - 1) + 1 = i OBVIOUS
  <2> DEFINE k == i - 1
  <2>3. i # 1 => t[k] = s[k + 1] BY <1>1, <2>1
  <2>4. QED BY <2>1, <2>2, <2>3
<1>4. \A i \in 1..Len(t) : i + 1 \in 1..Len(s) BY <1>1, <1>2
<1>5. 1 \in 1..Len(s) BY <1>2
<1>6. QED BY <1>1, <1>2, <1>3, <1>4, <1>5 DEF In, t

LEMMA InLonger ==
  ASSUME NEW Files, NEW s \in Seq(Files), NEW e \in Files, NEW f
  PROVE  In(Append(s, e), f) <=> f = e \/ In(s, f)
<1> DEFINE t == Append(s, e)
<1>1. /\ Len(t) = Len(s) + 1
      /\ \A i \in 1..Len(s) : t[i] = s[i]
      /\ t[Len(s) + 1] = e
  BY AppendProperties
<1>2. Len(s) \in Nat BY LenProperties
<1> HIDE DEF t
<1>3. \A i \in 1..Len(t) : (i \in 1..Len(s) /\ t[i] = s[i]) \/ t[i] = e
  <2> TAKE i \in 1..Len(t)
  <2>1. i \in 1..Len(s) \/ i = Len(s) + 1 BY <1>1, <1>2
  <2>2. QED BY <1>1, <2>1
<1>4. \A i \in 1..Len(s) : i \in 1..Len(t) BY <1>1, <1>2
<1>5. \E i \in 1..Len(t) : t[i] = e
  <2>1. Len(s) + 1 \in 1..Len(t) BY <1>1, <1>2
  <2>2. QED BY <1>1, <2>1
<1>6. QED BY <1>1, <1>3, <1>4, <1>5 DEF In, t

\* A call hands over its files, and no other.
LEMMA CallPlacesAll ==
  ASSUME NEW Files, PoolIsSound(Files), NEW files \in Seq(Files), NEW hired \in (SUBSET Workers) \ {{}},
         StartScan(files, hired)
  PROVE  AllPlaced(Files, ToSet(files))'
<1>1. /\ call = "no" /\ call' = "running" /\ queue' = files
      /\ worker' = [w \in Workers |-> IF w \in hired THEN Ready ELSE Gone]
      /\ UNCHANGED <<results, gathered>>
  BY DEF StartScan
<1>2. results = <<>> /\ gathered = <<>> BY <1>1 DEF PoolIsSound, Room
<1>3. Holders' = {} BY <1>1 DEF Holders, Ready, Gone, Busy
<1>4. \A f : In(<<>>, f) <=> FALSE
  <2>1. Len(<<>>) = 0 BY EmptySeq
  <2>2. QED BY <2>1 DEF In
<1>5. \A f : Placed(f)' <=> In(files, f) BY <1>1, <1>2, <1>3, <1>4 DEF Placed
<1>6. \A f : In(files, f) <=> f \in ToSet(files)
  <2>1. DOMAIN files = 1..Len(files) BY LenProperties
  <2>2. QED BY <2>1 DEF In, ToSet
<1>7. \E w \in Workers : worker'[w].at # "gone"
  <2>1. PICK w \in hired : TRUE OBVIOUS
  <2>2. worker'[w].at = "next" BY <1>1, <2>1 DEF Ready
  <2>3. QED BY <2>1, <2>2
<1>8. QED BY <1>1, <1>5, <1>6, <1>7 DEF AllPlaced

\* The steps of a worker lose a file only when the deadline has passed.
LEMMA WorkersPlaceAll ==
  ASSUME NEW Files, NoFile \notin Files, NEW batch, PoolIsSound(Files), AllPlaced(Files, batch),
         NEW w \in Workers, WorkerStep(w)
  PROVE  AllPlaced(Files, batch)'
<1>1. PoolTypes(Files) /\ OnePlace /\ Room BY DEF PoolIsSound
<1>2. worker[w].at \notin {"gone"} /\ UNCHANGED <<call, expired, gathered, resultsClosed>>
  BY DEF WorkerStep, TakeFile, LeaveQueue, CheckDeadline, ProcessFile, SendResult
<1>3. call # "no" /\ call # "returned"
  <2>1. worker[w] # Gone BY <1>2 DEF Gone
  <2>2. QED BY <1>1, <2>1 DEF Room, AllPlaced
<1>4. /\ \A f \in Files : Placed(f) => f \in batch
      /\ ~expired => \A f \in batch : Placed(f)
      /\ ~expired /\ queue # <<>> => \E v \in Workers : worker[v].at # "gone"
  BY <1>3 DEF AllPlaced
<1>5. SUFFICES ASSUME \A f : Placed(f)' => Placed(f), ~expired => \A f : Placed(f) => Placed(f)',
                      ~expired /\ queue' # <<>> => worker'[w].at # "gone"
               PROVE  AllPlaced(Files, batch)'
  <2>1. (\A f : Placed(f)' => Placed(f)) /\ (~expired => \A f : Placed(f) => Placed(f)')
        /\ (~expired /\ queue' # <<>> => worker'[w].at # "gone")
    <3>1. CASE TakeFile(w)
      <4> DEFINE e == Head(queue)
      <4>1. /\ worker[w].at = "next" /\ queue # <<>> /\ queue' = Tail(queue)
            /\ worker' = [worker EXCEPT ![w] = [at |-> "took", file |-> e]]
            /\ UNCHANGED <<results, gathered>>
        BY <3>1 DEF TakeFile
      <4>2. /\ \A v \in Workers \ {w} : worker'[v] = worker[v]
            /\ worker'[w] = [at |-> "took", file |-> e]
        BY <1>1, <4>1 DEF PoolTypes
      <4>3. w \notin Holders /\ Holders' = Holders \cup {w} BY <4>1, <4>2 DEF Holders, Busy
      <4>4. \A f : In(queue, f) <=> f = e \/ In(queue', f) BY <1>1, <4>1, InTail DEF PoolTypes
      <4> HIDE DEF e
      <4>5. \A f : (\E v \in Holders' : worker'[v].file = f) <=> f = e \/ \E v \in Holders : worker[v].file = f
        <5>1. \A v \in Holders : v # w /\ worker'[v] = worker[v] BY <4>2, <4>3 DEF Holders
        <5>2. QED BY <4>2, <4>3, <5>1
      <4>6. \A f : Placed(f)' <=> Placed(f) BY <4>1, <4>4, <4>5 DEF Placed
      <4>7. QED BY <4>2, <4>6
    <3>2. CASE SendResult(w)
      <4> DEFINE e == worker[w].file
      <4>1. /\ worker[w].at = "send" /\ results' = Append(results, e)
            /\ worker' = [worker EXCEPT ![w] = Ready]
            /\ UNCHANGED <<queue, gathered>>
        BY <3>2 DEF SendResult
      <4>2. /\ \A v \in Workers \ {w} : worker'[v] = worker[v]
            /\ worker'[w] = Ready
        BY <1>1, <4>1 DEF PoolTypes
      <4>3. w \in Holders /\ Holders' = Holders \ {w} BY <4>1, <4>2 DEF Holders, Ready, Busy
      <4>4. e \in Files BY <1>1, <4>1 DEF PoolTypes, Busy
      <4>5. \A f : In(results', f) <=> f = e \/ In(results, f) BY <1>1, <4>1, <4>4, InLonger DEF PoolTypes
      <4>6. \A f : (\E v \in Holders : worker[v].file = f) <=> f = e \/ \E v \in Holders' : worker'[v].file = f
        <5>1. \A v \in Holders' : v \in Workers \ {w} /\ worker'[v] = worker[v] BY <4>2, <4>3 DEF Holders
        <5>2. QED BY <4>3, <5>1
      <4> HIDE DEF e
      <4>7. \A f : Placed(f)' <=> Placed(f) BY <4>1, <4>5, <4>6 DEF Placed
      <4>8. worker'[w].at # "gone" BY <4>2 DEF Ready
      <4>9. QED BY <4>7, <4>8
    <3>3. CASE LeaveQueue(w)
      <4>1. queue' = <<>> /\ UNCHANGED <<queue, results, gathered>> /\ worker[w].at = "next"
            /\ worker' = [worker EXCEPT ![w] = Gone]
        BY <3>3 DEF LeaveQueue
      <4>2. /\ \A v \in Workers \ {w} : worker'[v] = worker[v]
            /\ worker'[w] = Gone
        BY <1>1, <4>1 DEF PoolTypes
      <4>3. Holders' = Holders /\ \A v \in Holders : worker'[v] = worker[v]
        BY <4>1, <4>2 DEF Holders, Gone, Busy
      <4>4. QED BY <4>1, <4>3 DEF Placed
    <3>4. CASE ProcessFile(w) \/ (CheckDeadline(w) /\ ~expired)
      <4>1. PICK a \in Busy : /\ worker' = [worker EXCEPT ![w] = [worker[w] EXCEPT !.at = a]]
                              /\ worker[w].at \in Busy
        BY <3>4 DEF ProcessFile, CheckDeadline, Busy
      <4>2. UNCHANGED <<queue, results, gathered>> BY <3>4 DEF ProcessFile, CheckDeadline
      <4>3. /\ \A v \in Workers \ {w} : worker'[v] = worker[v]
            /\ worker'[w].at = a /\ worker'[w].file = worker[w].file
        BY <1>1, <4>1 DEF PoolTypes
      <4>4. Holders' = Holders /\ \A v \in Holders : worker'[v].file = worker[v].file
        BY <4>1, <4>3 DEF Holders
      <4>5. worker'[w].at # "gone" BY <4>3 DEF Busy
      <4>6. QED BY <4>2, <4>4, <4>5 DEF Placed
    <3>5. CASE CheckDeadline(w) /\ expired
      <4>1. UNCHANGED <<queue, results, gathered>> /\ worker[w].at = "took"
            /\ worker' = [worker EXCEPT ![w] = Gone]
        BY <3>5 DEF CheckDeadline
      <4>2. /\ \A v \in Workers \ {w} : worker'[v] = worker[v]
            /\ worker'[w] = Gone
        BY <1>1, <4>1 DEF PoolTypes
      <4>3. Holders' \subseteq Holders /\ \A v \in Holders' : worker'[v] = worker[v]
        BY <4>1, <4>2 DEF Holders, Gone, Busy
      <4>4. \A f : Placed(f)' => Placed(f) BY <4>1, <4>3 DEF Placed
      <4>5. QED BY <3>5, <4>4
    <3>6. QED BY <3>1, <3>2, <3>3, <3>4, <3>5 DEF WorkerStep
  <2>2. QED BY <1>5, <2>1
<1>6. QED BY <1>2, <1>3, <1>4, <1>5 DEF AllPlaced

LEMMA StepsPlaceAll ==
  ASSUME NEW Files, NoFile \notin Files, NEW batch, PoolIsSound(Files), AllPlaced(Files, batch),
         ScanStep \/ Expire \/ UNCHANGED poolVars
  PROVE  AllPlaced(Files, batch)'
<1>1. PoolTypes(Files) /\ OnePlace /\ Room BY DEF PoolIsSound
<1>2. ASSUME UNCHANGED <<queue, worker, results, gathered>>,
             expired' = expired \/ expired',
             call' = call \/ (call = "running" /\ call' = "returned" /\ results = <<>> /\ resultsClosed),
             resultsClosed => resultsClosed'
      PROVE  AllPlaced(Files, batch)'
  <2>1. Holders' = Holders BY <1>2 DEF Holders
  <2>2. \A f : Placed(f)' <=> Placed(f) BY <1>2, <2>1 DEF Placed
  <2>3. call' # "no" => call # "no" BY <1>2
  <2>4. ~expired' => expired = expired' BY <1>2
  <2>5. QED BY <1>2, <2>2, <2>3, <2>4 DEF AllPlaced
<1>3. CASE UNCHANGED poolVars BY <1>2, <1>3 DEF poolVars
<1>4. CASE Expire BY <1>2, <1>4 DEF Expire
<1>5. CASE CloseResults BY <1>2, <1>5 DEF CloseResults
<1>6. CASE ReturnScan BY <1>2, <1>6 DEF ReturnScan
<1>7. CASE Gather
  <2> DEFINE e == Head(results)
  <2>1. /\ call = "running" /\ results # <<>>
        /\ gathered' = Append(gathered, e) /\ results' = Tail(results)
        /\ UNCHANGED <<queue, worker, resultsClosed, call, expired>>
    BY <1>7 DEF Gather
  <2>2. \A f : In(results, f) <=> f = e \/ In(results', f) BY <1>1, <2>1, InTail DEF PoolTypes
  <2>3. e \in Files BY <1>1, <2>1, HeadAndTail DEF PoolTypes, OnePlace
  <2>4. \A f : In(gathered', f) <=> f = e \/ In(gathered, f) BY <1>1, <2>1, <2>3, InLonger DEF PoolTypes
  <2>5. Holders' = Holders BY <2>1 DEF Holders
  <2> HIDE DEF e
  <2>6. \A f : Placed(f)' <=> Placed(f) BY <2>1, <2>2, <2>4, <2>5 DEF Placed
  <2>7. QED BY <2>1, <2>6 DEF AllPlaced
<1>8. CASE \E w \in Workers : WorkerStep(w) BY <1>8, WorkersPlaceAll
<1>9. QED BY <1>3, <1>4, <1>5, <1>6, <1>7, <1>8 DEF ScanStep

\* A call that has returned has gathered all its files, unless the deadline has
\* passed.
LEMMA ReturnedIsWhole ==
  ASSUME NEW Files, NoFile \notin Files, NEW batch, PoolIsSound(Files), AllPlaced(Files, batch),
         call # "no", results = <<>>, resultsClosed
  PROVE  expired \/ batch \subseteq ToSet(gathered)
<1>1. PoolTypes(Files) /\ Room BY DEF PoolIsSound
<1>2. SUFFICES ASSUME ~expired, NEW f \in batch PROVE f \in ToSet(gathered) OBVIOUS
<1>3. \A w \in Workers : worker[w] = Gone BY <1>1 DEF Room
<1>4. queue = <<>> BY <1>2, <1>3 DEF AllPlaced, Gone
<1>5. Holders = {} BY <1>3 DEF Holders, Gone, Busy
<1>6. ~In(<<>>, f)
  <2>1. Len(<<>>) = 0 BY EmptySeq
  <2>2. QED BY <2>1 DEF In
<1>7. Placed(f) BY <1>2 DEF AllPlaced
<1>8. In(gathered, f) BY <1>4, <1>5, <1>6, <1>7 DEF Placed
<1>9. DOMAIN gathered = 1..Len(gathered) BY <1>1, LenProperties DEF PoolTypes
<1>10. QED BY <1>8, <1>9 DEF In, ToSet

\* However many workers compete for however many distinct files, and whenever
\* the deadline makes some of them leave: no two ever have the same file, and no
\* result is sent or gathered twice ("each cache key is written by exactly one
\* worker per scan").
THEOREM FilesAreProcessedOnce ==
  ASSUME NEW Files, NoFile \notin Files
  PROVE  PoolSpec(Files) => []EachFileOnce
<1>1. PoolIsSound(Files) => EachFileOnce
  <2> SUFFICES ASSUME PoolIsSound(Files) PROVE EachFileOnce OBVIOUS
  <2> DEFINE held == {w \in Workers : worker[w].file # NoFile}
             sent == queue \o results
             seen == sent \o gathered
  <2>1. PoolTypes(Files) /\ OnePlace BY DEF PoolIsSound
  <2>2. held = Holders BY <2>1 DEF PoolTypes, Holders
  <2>3. /\ sent \in Seq(Files) /\ Once(sent)
        /\ \A i \in 1..Len(sent) : (\E k \in 1..Len(queue) : sent[i] = queue[k])
                                 \/ (\E k \in 1..Len(results) : sent[i] = results[k])
    BY <2>1, Joined DEF PoolTypes, OnePlace
  <2> HIDE DEF sent
  <2>4. Apart(sent, gathered) /\ \A w \in Holders : Without(sent, worker[w].file)
    <3>1. Apart(queue, gathered) /\ Apart(results, gathered)
          /\ \A w \in Holders : Without(queue, worker[w].file) /\ Without(results, worker[w].file)
      BY <2>1 DEF OnePlace
    <3>2. Apart(sent, gathered) BY <2>3, <3>1 DEF Apart
    <3>3. ASSUME NEW w \in Holders, NEW i \in 1..Len(sent) PROVE sent[i] # worker[w].file
      <4>1. Without(queue, worker[w].file) /\ Without(results, worker[w].file) BY <3>1
      <4>2. QED BY <2>3, <4>1 DEF Without
    <3>4. QED BY <3>2, <3>3 DEF Without
  <2>5. /\ seen \in Seq(Files) /\ Once(seen)
        /\ \A i \in 1..Len(seen) : (\E k \in 1..Len(sent) : seen[i] = sent[k])
                                 \/ (\E k \in 1..Len(gathered) : seen[i] = gathered[k])
    BY <2>1, <2>3, <2>4, Joined DEF PoolTypes, OnePlace
  <2> HIDE DEF seen
  <2>6. \A w \in Holders : worker[w].file \notin ToSet(seen)
    <3>1. ToSet(seen) = {seen[i] : i \in 1..Len(seen)}
      <4>1. DOMAIN seen = 1..Len(seen) BY <2>5, LenProperties
      <4>2. QED BY <4>1 DEF ToSet
    <3>2. \A w \in Holders : Without(gathered, worker[w].file) BY <2>1 DEF OnePlace
    <3>3. ASSUME NEW w \in Holders, NEW i \in 1..Len(seen) PROVE seen[i] # worker[w].file
      <4>1. Without(sent, worker[w].file) /\ Without(gathered, worker[w].file) BY <2>4, <3>2
      <4>2. QED BY <2>5, <4>1 DEF Without
    <3>4. QED BY <3>1, <3>3
  <2>7. \A v, w \in Holders : worker[v].file = worker[w].file => v = w BY <2>1 DEF OnePlace
  <2>8. \A i, j \in 1..Len(seen) : seen[i] = seen[j] => i = j BY <2>5 DEF Once
  <2>9. QED BY <2>2, <2>6, <2>7, <2>8 DEF EachFileOnce, seen, sent
<1>2. QED BY <1>1, SoundAtFirst, StepsKeepSound, PTL DEF PoolSpec

\* A worker that has a result can send it at once: the channel has room for
\* every file of the batch, and is open as long as a worker is left.
THEOREM ResultsNeverWait ==
  ASSUME NEW Files, NoFile \notin Files
  PROVE  PoolSpec(Files) => []SendsAreFree
<1>1. PoolIsSound(Files) => SendsAreFree
  <2> SUFFICES ASSUME PoolIsSound(Files), NEW w \in Workers, worker[w].at = "send"
               PROVE  Len(results) < queueCap /\ ~resultsClosed
    BY DEF SendsAreFree
  <2>1. PoolTypes(Files) /\ Room BY DEF PoolIsSound
  <2>2. w \in Holders /\ Holders \in SUBSET Workers BY DEF Holders, Busy
  <2>3. Cardinality(Holders) \in Nat /\ Cardinality(Holders \ {w}) = Cardinality(Holders) - 1
        /\ Cardinality(Holders \ {w}) \in Nat
    <3>1. Holders \ {w} \in SUBSET Workers BY <2>2
    <3>2. QED BY <2>2, <3>1, HoldersCount
  <2>4. Len(queue) \in Nat /\ Len(results) \in Nat BY <2>1, PlacesOf DEF PoolTypes
  <2>5. Len(results) < queueCap BY <2>1, <2>3, <2>4 DEF Room, PoolTypes
  <2>6. ~resultsClosed BY <2>1 DEF Room, Gone
  <2>7. QED BY <2>5, <2>6
<1>2. QED BY <1>1, SoundAtFirst, StepsKeepSound, PTL DEF PoolSpec

------------------------------------------------------------------------------
(* The walk                                                                   *)

\* A path that is another one, or a directory that one is in.
Covers(p, q) == p = q \/ p \in Above[q]

Visits == [path : Dirs \cup Regulars, asset : BOOLEAN, above : SUBSET Dirs]
FileEntries == [path : Regulars, asset : BOOLEAN]

\* What the recursion hands down is what lies above, and no skipped directory
\* does that the walk should not have entered.
VisitIsRight(v) ==
  /\ v.above = Above[v.path]
  /\ v.asset <=> (v.path \in AssetDirs \/ Above[v.path] \cap AssetDirs # {})
  /\ Above[v.path] \cap SkippedDirs \subseteq AssetDirs
  /\ v.path \in Dirs => Enters(v.path)

\* What is listed is wanted, told apart, and not going to be visited again.
EntryIsRight(e) ==
  /\ e.path \in Scannable /\ (e.asset <=> IsAsset(e.path))
  /\ \A v \in ToSet(todo) : ~Covers(v.path, e.path)

Listed(list, f) == \E e \in ToSet(list) : e.path = f
PathsOnce(list) == \A i, j \in DOMAIN list : list[i].path = list[j].path => i = j
Found(f) == Listed(allFiles, f) \/ Listed(entries, f) \/ \E v \in ToSet(todo) : Covers(v.path, f)

\* The scanners are called: the list of files is final.
Scanning == main \in {"serial", "fanout"} \/ outcome \in {"ok", "scanner failed"}

WalkTypes ==
  /\ todo \in Seq(Visits)
  /\ entries \in Seq(FileEntries) /\ Len(entries) <= EntryCap
  /\ errs \in Seq(Dirs \cup Regulars) /\ Len(errs) <= ErrCap
  /\ allFiles \in Seq(FileEntries)
  /\ walking \in {"yes", "errsClosed", "no"}

TodoIsRight ==
  /\ \A v \in ToSet(todo) : VisitIsRight(v)
  /\ \A v, w \in ToSet(todo) : Covers(v.path, w.path) => v.path = w.path
  /\ PathsOnce(todo)

ListIsRight ==
  /\ \A e \in ToSet(entries) \cup ToSet(allFiles) : EntryIsRight(e)
  /\ PathsOnce(entries) /\ PathsOnce(allFiles)
  /\ \A e \in ToSet(entries) : ~Listed(allFiles, e.path)

ListIsComplete ==
  /\ main \in {"idle", "drain", "errs"} /\ failed = {} => \A f \in Scannable : Found(f)
  /\ failed # {} => errs # <<>>
  /\ Scanning => /\ \A f \in Scannable \ TestFiles : Listed(allFiles, f)
                 /\ \A e \in ToSet(allFiles) : e.path \notin TestFiles

WalkEnds ==
  /\ walking # "yes" => todo = <<>>
  /\ main \notin {"idle", "drain"} => entries = <<>> /\ walking = "no"

WalkIsSound == WalkTypes /\ TodoIsRight /\ ListIsRight /\ ListIsComplete /\ WalkEnds

WantedOf(s) == ToSet(PathsOf(Accepted(s)))

\* The caller has taken s's result.
Heard(s) == scan[s] = "gone" /\ s \notin ToSet(ch)
HeardOf == {s \in Scs : Heard(s)}

Answers ==
  [err : BOOLEAN, files : SUBSET Regulars, told : SUBSET Regulars, unread : SUBSET Regulars]

RunTypes ==
  /\ main \in {"idle", "drain", "errs", "serial", "fanout", "done"}
  /\ outcome \in {"none", "ok", "walk failed", "scanner failed"}
  /\ main = "done" <=> outcome # "none"
  /\ team \in (SUBSET Workers) \ {{}}
  /\ turn \in Nat \ {0}
  /\ scan \in [Scs -> {"new", "launched", "running", "returned", "gone"}]
  /\ answerOf \in [Scs -> Answers]
  /\ ch \in Seq(Scs)
  /\ collected \subseteq Scs \X Regulars /\ told \subseteq Scs \X Regulars

\* An answer without an error accounts for every file that was handed over, unless
\* the deadline has passed: looked at, told of, or not readable.
Accounts(a, fs) == fs \subseteq a.files \cup a.told \cup a.unread
AnswerIsRight(s) == answerOf[s].err \/ expired \/ Accounts(answerOf[s], WantedOf(s))

AnswerIsTaken(s) ==
  /\ ~answerOf[s].err
  /\ {s} \X answerOf[s].files \subseteq collected
  /\ {s} \X answerOf[s].told \subseteq told

RunIsSound ==
  /\ ~Scanning => \A s \in Scs : scan[s] = "new"
  /\ call # "no" => scan["sast"] \notin {"new", "launched"}
  /\ \A s \in Scs : scan[s] \in {"returned", "gone"} => AnswerIsRight(s)
  /\ \A i, j \in DOMAIN ch : ch[i] = ch[j] => i = j
  /\ \A i \in DOMAIN ch : scan[ch[i]] = "gone"
  /\ outcome \in {"none", "ok"} => \A s \in Scs : Heard(s) => AnswerIsTaken(s)
  /\ main \in {"idle", "drain", "errs"} => turn = 1
  /\ main = "serial" => \A i \in DOMAIN Scanners : i < turn => Heard(Scanners[i])
  /\ main = "fanout" => Cardinality(HeardOf) = turn - 1
  /\ outcome = "ok" => HeardOf = Scs

------------------------------------------------------------------------------
(* The tree. *)

AllPaths == Dirs \cup Regulars

LEMMA TreeFacts ==
  /\ Root \in Dirs /\ \A p \in Regulars : p \notin Dirs
  /\ Root \notin AssetDirs /\ Root \notin SkippedDirs
  /\ AssetDirs \subseteq SkippedDirs /\ SkippedDirs \subseteq Dirs
BY WalkerConstants

LEMMA ChildrenAre ==
  ASSUME NEW d \in Dirs, NEW i \in DOMAIN Children[d]
  PROVE  /\ Children[d] \in Seq(AllPaths)
         /\ Children[d][i] \in AllPaths /\ Children[d][i] # Root
         /\ ParentOf(Children[d][i]) = d
<1> DEFINE p == Children[d][i]
<1>1. Children[d] \in Seq(AllPaths) BY TreeAssumption DEF AllPaths
<1>2. p \in AllPaths BY <1>1, ElementOfSeq, LenProperties
<1>3. p \in ToSet(Children[d]) BY DEF ToSet
<1>4. p # Root BY <1>3, TreeAssumption
<1>5. \A e \in Dirs : p \in ToSet(Children[e]) => e = d BY TreeAssumption DEF ToSet
<1>6. ParentOf(p) = d BY <1>3, <1>5 DEF ParentOf
<1>7. QED BY <1>1, <1>2, <1>4, <1>6

LEMMA ParentsExist ==
  ASSUME NEW p \in AllPaths, p # Root
  PROVE  /\ ParentOf(p) \in Dirs
         /\ \E i \in DOMAIN Children[ParentOf(p)] : Children[ParentOf(p)][i] = p
<1>1. \E d \in Dirs : p \in ToSet(Children[d]) BY TreeAssumption DEF AllPaths
<1>2. ParentOf(p) \in Dirs /\ p \in ToSet(Children[ParentOf(p)]) BY <1>1 DEF ParentOf
<1>3. QED BY <1>2 DEF ToSet

\* Induction on the way up from p.
LEMMA Climbing ==
  ASSUME NEW p \in AllPaths, p # Root, NEW S \in SUBSET Dirs, Climbs(S, p)
  PROVE  Above[p] \subseteq S
BY DEF Above, AllPaths

LEMMA AboveClimbs ==
  ASSUME NEW p \in AllPaths
  PROVE  /\ Above[p] \subseteq Dirs /\ Above[Root] = {}
         /\ p # Root => Climbs(Above[p], p)
<1>1. Above[p] \subseteq Dirs /\ Above[Root] = {} BY TreeFacts DEF Above, AllPaths
<1>2. ASSUME p # Root PROVE Climbs(Above[p], p)
  <2>1. Above[p] = {d \in Dirs : \A S \in SUBSET Dirs : Climbs(S, p) => d \in S}
    BY <1>2 DEF Above, AllPaths
  <2>2. ParentOf(p) \in Dirs BY <1>2, ParentsExist
  <2>3. ParentOf(p) \in Above[p] BY <2>1, <2>2 DEF Climbs
  <2>4. ASSUME NEW d \in Above[p] \ {Root} PROVE ParentOf(d) \in Above[p]
    <3>1. d \in AllPaths /\ d # Root BY <1>1 DEF AllPaths
    <3>2. ParentOf(d) \in Dirs BY <3>1, ParentsExist
    <3>3. \A S \in SUBSET Dirs : Climbs(S, p) => ParentOf(d) \in S BY <2>1 DEF Climbs
    <3>4. QED BY <2>1, <3>2, <3>3
  <2>5. QED BY <2>3, <2>4 DEF Climbs
<1>3. QED BY <1>1, <1>2

LEMMA AboveUnfolds ==
  ASSUME NEW p \in AllPaths, p # Root
  PROVE  Above[p] = {ParentOf(p)} \cup Above[ParentOf(p)]
<1> DEFINE q == ParentOf(p)
<1>1. q \in Dirs /\ q \in AllPaths BY ParentsExist DEF AllPaths
<1>2. /\ Climbs(Above[p], p) /\ Above[p] \subseteq Dirs
      /\ Above[q] \subseteq Dirs /\ Above[Root] = {}
      /\ q # Root => Climbs(Above[q], q)
  BY <1>1, AboveClimbs
<1>3. Above[q] \subseteq Above[p]
  <2>1. q # Root => Climbs(Above[p], q) BY <1>2 DEF Climbs
  <2>2. QED BY <1>1, <1>2, <2>1, Climbing
<1>4. Climbs({q} \cup Above[q], p) BY <1>2 DEF Climbs
<1>5. {q} \cup Above[q] \in SUBSET Dirs BY <1>1, <1>2
<1>6. Above[p] \subseteq {q} \cup Above[q] BY <1>4, <1>5, Climbing
<1>7. q \in Above[p] BY <1>2 DEF Climbs
<1>8. QED BY <1>3, <1>6, <1>7

LEMMA AboveAgain ==
  ASSUME NEW p \in AllPaths, NEW d \in Above[p]
  PROVE  /\ p # Root /\ d \in Dirs /\ d \in AllPaths
         /\ Above[d] \subseteq Above[p]
<1>1. p # Root /\ d \in Dirs BY AboveClimbs
<1>2. d # Root => Climbs(Above[p], d) BY <1>1, AboveClimbs DEF Climbs
<1>3. QED BY <1>1, <1>2, AboveClimbs, Climbing DEF AllPaths

LEMMA NoCycle ==
  ASSUME NEW d \in AllPaths
  PROVE  d \notin Above[d]
<1> SUFFICES ASSUME d \in Above[d] PROVE FALSE OBVIOUS
<1> DEFINE S == {x \in Above[d] : d \in Above[x]}
<1>1. d \in Dirs /\ d # Root /\ Above[d] \subseteq Dirs /\ Above[Root] = {} BY AboveClimbs
<1>2. S \in SUBSET (Dirs \ {Root}) /\ d \in S BY <1>1
<1> HIDE DEF S
<1>3. PICK e \in Dirs \ S, c \in S : c \in ToSet(Children[e]) BY <1>2, TreeAssumption
<1>4. c \in Above[d] /\ d \in Above[c] /\ c # Root /\ c \in AllPaths BY <1>1, <1>2 DEF S, AllPaths
<1>5. ParentOf(c) = e BY <1>3, ChildrenAre DEF ToSet
<1>6. e \in Above[d] BY <1>1, <1>4, <1>5, AboveClimbs DEF Climbs
<1>7. d = e \/ d \in Above[e] BY <1>4, <1>5, AboveUnfolds
<1>8. QED BY <1>2, <1>3, <1>6, <1>7 DEF S

\* The way down from a directory to a path below it goes through a child.
LEMMA ChildTowards ==
  ASSUME NEW p \in AllPaths, NEW d \in Above[p]
  PROVE  \E i \in DOMAIN Children[d] : Covers(Children[d][i], p)
<1> DEFINE S == {x \in Above[p] : \E i \in DOMAIN Children[x] : Covers(Children[x][i], p)}
<1>1. p # Root /\ Above[p] \subseteq Dirs /\ Climbs(Above[p], p) BY AboveAgain, AboveClimbs
<1>2. ParentOf(p) \in S BY <1>1, ParentsExist DEF Climbs, Covers
<1>3. ASSUME NEW x \in S \ {Root} PROVE ParentOf(x) \in S
  <2>1. x \in AllPaths /\ x \in Above[p] BY <1>1 DEF AllPaths
  <2>2. ParentOf(x) \in Above[p] BY <1>1, <2>1 DEF Climbs
  <2>3. QED BY <2>1, <2>2, ParentsExist DEF Covers
<1>4. S \in SUBSET Dirs BY <1>1
<1> HIDE DEF S
<1>5. Climbs(S, p) BY <1>2, <1>3 DEF Climbs
<1>6. Above[p] \subseteq S BY <1>1, <1>4, <1>5, Climbing
<1>7. QED BY <1>6 DEF S

LEMMA CoversAgain ==
  ASSUME NEW p \in AllPaths, NEW q \in AllPaths, NEW r \in AllPaths, Covers(p, q), Covers(q, r)
  PROVE  Covers(p, r)
BY AboveAgain DEF Covers

\* Of two directories above a path one is above the other.
LEMMA OneWayUp ==
  ASSUME NEW p \in AllPaths, NEW c \in AllPaths, NEW d \in AllPaths, Covers(c, p), Covers(d, p)
  PROVE  Covers(c, d) \/ Covers(d, c)
<1>1. CASE c = p \/ d = p BY <1>1 DEF Covers
<1>2. CASE c \in Above[p] /\ d \in Above[p]
  <2> DEFINE S == {x \in Above[p] : Covers(c, x) \/ Covers(x, c)}
  <2>1. p # Root /\ Above[p] \subseteq Dirs /\ Climbs(Above[p], p) BY <1>2, AboveAgain, AboveClimbs
  <2>2. ParentOf(p) \in S BY <1>2, <2>1, AboveUnfolds DEF Covers, Climbs
  <2>3. ASSUME NEW x \in S \ {Root} PROVE ParentOf(x) \in S
    <3>1. x \in AllPaths /\ ParentOf(x) \in Above[p] BY <2>1 DEF AllPaths, Climbs
    <3>2. ParentOf(x) \in Above[x] BY <3>1, AboveClimbs DEF Climbs
    <3>3. CASE c \in Above[x] BY <3>1, <3>3, AboveUnfolds DEF Covers
    <3>4. CASE Covers(x, c) BY <3>1, <3>2, <3>4, AboveAgain DEF Covers
    <3>5. QED BY <3>1, <3>3, <3>4 DEF Covers
  <2>4. S \in SUBSET Dirs BY <2>1
  <2> HIDE DEF S
  <2>5. Climbs(S, p) BY <2>2, <2>3 DEF Climbs
  <2>6. Above[p] \subseteq S BY <2>1, <2>4, <2>5, Climbing
  <2>7. QED BY <1>2, <2>6 DEF S
<1>3. QED BY <1>1, <1>2 DEF Covers

LEMMA ChildIsBelow ==
  ASSUME NEW d \in Dirs, NEW i \in DOMAIN Children[d]
  PROVE  /\ Children[d][i] \in AllPaths
         /\ Above[Children[d][i]] = {d} \cup Above[d]
         /\ \A p \in AllPaths : Covers(Children[d][i], p) => d \in Above[p]
<1> DEFINE c == Children[d][i]
<1>1. c \in AllPaths /\ c # Root /\ ParentOf(c) = d BY ChildrenAre
<1>2. Above[c] = {d} \cup Above[d] BY <1>1, AboveUnfolds
<1>3. QED BY <1>1, <1>2, AboveAgain DEF Covers

\* Nothing is below two entries of a directory.
LEMMA SiblingsApart ==
  ASSUME NEW d \in Dirs, NEW i \in DOMAIN Children[d], NEW j \in DOMAIN Children[d],
         NEW p \in AllPaths, Covers(Children[d][i], p), Covers(Children[d][j], p)
  PROVE  i = j
<1>1. ASSUME NEW b \in AllPaths, NEW c \in AllPaths, Above[b] = {d} \cup Above[d],
             Above[c] = {d} \cup Above[d]
      PROVE  b \notin Above[c]
  <2>1. d \in AllPaths BY DEF AllPaths
  <2>2. d \notin Above[d] BY <2>1, NoCycle
  <2>3. b # d BY <1>1, <2>1, <2>2
  <2>4. b \notin Above[d] BY <1>1, <2>1, <2>2, AboveAgain
  <2>5. QED BY <1>1, <2>3, <2>4
<1>2. Covers(Children[d][i], Children[d][j]) \/ Covers(Children[d][j], Children[d][i])
  BY OneWayUp, ChildIsBelow
<1>3. Children[d][i] = Children[d][j] BY <1>1, <1>2, ChildIsBelow DEF Covers
<1>4. QED BY <1>3, TreeAssumption

------------------------------------------------------------------------------
(* Lists of paths. *)

LEMMA SetOf ==
  ASSUME NEW S, NEW s \in Seq(S)
  PROVE  /\ Len(s) \in Nat /\ DOMAIN s = 1..Len(s)
         /\ ToSet(s) \subseteq S
         /\ (s = <<>>) <=> (ToSet(s) = {})
<1>1. Len(s) \in Nat /\ DOMAIN s = 1..Len(s) BY LenProperties
<1>2. \A i \in DOMAIN s : s[i] \in S BY <1>1, ElementOfSeq
<1>3. s # <<>> => 1 \in DOMAIN s BY <1>1, EmptySeq
<1>4. DOMAIN <<>> = {} OBVIOUS
<1>5. QED BY <1>1, <1>2, <1>3, <1>4 DEF ToSet

LEMMA Popped ==
  ASSUME NEW S, NEW s \in Seq(S), s # <<>>
  PROVE  /\ Head(s) \in S /\ Tail(s) \in Seq(S) /\ Len(Tail(s)) = Len(s) - 1
         /\ ToSet(s) = {Head(s)} \cup ToSet(Tail(s))
         /\ PathsOnce(s) =>
              /\ PathsOnce(Tail(s))
              /\ \A e \in ToSet(Tail(s)) : e.path # Head(s).path
<1> DEFINE t == Tail(s)
<1>1. /\ Head(s) \in S /\ t \in Seq(S) /\ Len(t) = Len(s) - 1
      /\ \A i \in 1..Len(t) : t[i] = s[i + 1]
  BY HeadTailProperties
<1>2. Len(s) \in Nat \ {0} /\ DOMAIN s = 1..Len(s) /\ DOMAIN t = 1..Len(t)
  BY <1>1, EmptySeq, LenProperties
<1>3. Head(s) = s[1] /\ 1 \in DOMAIN s BY <1>2
<1> HIDE DEF t
<1>4. \A i \in DOMAIN t : i + 1 \in DOMAIN s /\ i + 1 # 1 /\ t[i] = s[i + 1] BY <1>1, <1>2
<1>5. \A k \in DOMAIN s : k # 1 => \E i \in DOMAIN t : t[i] = s[k]
  <2> TAKE k \in DOMAIN s
  <2> HAVE k # 1
  <2>1. k - 1 \in DOMAIN t /\ (k - 1) + 1 = k BY <1>1, <1>2
  <2> DEFINE i == k - 1
  <2>2. t[i] = s[i + 1] BY <1>4, <2>1
  <2>3. QED BY <2>1, <2>2
<1>6. ToSet(s) = {Head(s)} \cup ToSet(t) BY <1>3, <1>4, <1>5 DEF ToSet
<1>7. ASSUME PathsOnce(s) PROVE PathsOnce(t) /\ \A e \in ToSet(t) : e.path # Head(s).path
  <2>1. PathsOnce(t)
    <3> SUFFICES ASSUME NEW i \in DOMAIN t, NEW j \in DOMAIN t, t[i].path = t[j].path PROVE i = j
      BY DEF PathsOnce
    <3>1. i + 1 = j + 1 BY <1>4, <1>7 DEF PathsOnce
    <3>2. QED BY <1>2, <3>1
  <2>2. \A i \in DOMAIN t : t[i].path # Head(s).path BY <1>3, <1>4, <1>7 DEF PathsOnce
  <2>3. QED BY <2>1, <2>2 DEF ToSet
<1>8. QED BY <1>1, <1>6, <1>7 DEF t

LEMMA Pushed ==
  ASSUME NEW S, NEW s \in Seq(S), NEW e \in S
  PROVE  /\ Append(s, e) \in Seq(S) /\ Len(Append(s, e)) = Len(s) + 1
         /\ ToSet(Append(s, e)) = ToSet(s) \cup {e}
         /\ PathsOnce(s) /\ (\A d \in ToSet(s) : d.path # e.path) => PathsOnce(Append(s, e))
<1> DEFINE t == Append(s, e)
<1>1. /\ t \in Seq(S) /\ Len(t) = Len(s) + 1
      /\ \A i \in 1..Len(s) : t[i] = s[i]
      /\ t[Len(s) + 1] = e
  BY AppendProperties
<1>2. Len(s) \in Nat /\ DOMAIN s = 1..Len(s) /\ DOMAIN t = 1..Len(t) BY <1>1, LenProperties
<1> HIDE DEF t
<1>3. \A i \in DOMAIN t : (i \in DOMAIN s /\ t[i] = s[i]) \/ (i = Len(s) + 1 /\ t[i] = e)
  BY <1>1, <1>2
<1>4. \A i \in DOMAIN s : i \in DOMAIN t /\ t[i] = s[i] BY <1>1, <1>2
<1>5. \E i \in DOMAIN t : t[i] = e
  <2>1. Len(s) + 1 \in DOMAIN t BY <1>1, <1>2
  <2>2. QED BY <1>1, <2>1
<1>6. ToSet(t) = ToSet(s) \cup {e} BY <1>3, <1>4, <1>5 DEF ToSet
<1>7. ASSUME PathsOnce(s), \A d \in ToSet(s) : d.path # e.path PROVE PathsOnce(t)
  <2>1. \A i \in DOMAIN s : s[i].path # e.path BY <1>7 DEF ToSet
  <2>2. QED BY <1>3, <1>7, <2>1 DEF PathsOnce
<1>8. QED BY <1>1, <1>6, <1>7 DEF t

LEMMA Spliced ==
  ASSUME NEW S, NEW s \in Seq(S), NEW t \in Seq(S)
  PROVE  /\ s \o t \in Seq(S)
         /\ ToSet(s \o t) = ToSet(s) \cup ToSet(t)
         /\ /\ PathsOnce(s) /\ PathsOnce(t)
            /\ \A d \in ToSet(s), e \in ToSet(t) : d.path # e.path
            => PathsOnce(s \o t)
<1> DEFINE c == s \o t
<1>1. /\ Len(s) \in Nat /\ Len(t) \in Nat
      /\ c \in Seq(S) /\ Len(c) = Len(s) + Len(t)
      /\ \A i \in 1..Len(s) + Len(t) : c[i] = IF i <= Len(s) THEN s[i] ELSE t[i - Len(s)]
  BY ConcatProperties, LenProperties
<1>2. DOMAIN s = 1..Len(s) /\ DOMAIN t = 1..Len(t) /\ DOMAIN c = 1..Len(c) BY <1>1, LenProperties
<1> HIDE DEF c
<1>3. \A i \in DOMAIN c : \/ i \in DOMAIN s /\ c[i] = s[i]
                          \/ i - Len(s) \in DOMAIN t /\ c[i] = t[i - Len(s)]
  <2> TAKE i \in DOMAIN c
  <2>1. CASE i <= Len(s) BY <1>1, <1>2, <2>1
  <2>2. CASE ~(i <= Len(s))
    <3>1. i - Len(s) \in 1..Len(t) /\ i \in 1..(Len(s) + Len(t)) BY <1>1, <1>2, <2>2
    <3>2. QED BY <1>1, <1>2, <2>2, <3>1
  <2>3. QED BY <2>1, <2>2
<1>4. \A i \in DOMAIN s : i \in DOMAIN c /\ c[i] = s[i] BY <1>1, <1>2
<1>5. \A j \in DOMAIN t : \E i \in DOMAIN c : c[i] = t[j]
  <2> TAKE j \in DOMAIN t
  <2> DEFINE i == j + Len(s)
  <2>1. i \in 1..Len(s) + Len(t) /\ ~(i <= Len(s)) /\ i - Len(s) = j BY <1>1, <1>2
  <2>2. c[i] = t[j] BY <1>1, <2>1
  <2>3. QED BY <1>1, <1>2, <2>1, <2>2
<1>6. ToSet(c) = ToSet(s) \cup ToSet(t)
  <2>1. \A x \in ToSet(c) : x \in ToSet(s) \cup ToSet(t) BY <1>3 DEF ToSet
  <2>2. \A x \in ToSet(s) \cup ToSet(t) : x \in ToSet(c) BY <1>4, <1>5 DEF ToSet
  <2>3. QED BY <2>1, <2>2
<1>7. ASSUME PathsOnce(s), PathsOnce(t), \A d \in ToSet(s), e \in ToSet(t) : d.path # e.path
      PROVE  PathsOnce(c)
  <2> SUFFICES ASSUME NEW i \in DOMAIN c, NEW j \in DOMAIN c, c[i].path = c[j].path PROVE i = j
    BY DEF PathsOnce
  <2>1. \A m \in DOMAIN s, n \in DOMAIN t : s[m].path # t[n].path BY <1>7 DEF ToSet
  <2>2. CASE i \in DOMAIN s /\ c[i] = s[i] /\ j \in DOMAIN s /\ c[j] = s[j]
    BY <1>7, <2>2 DEF PathsOnce
  <2>3. CASE /\ i - Len(s) \in DOMAIN t /\ c[i] = t[i - Len(s)]
             /\ j - Len(s) \in DOMAIN t /\ c[j] = t[j - Len(s)]
    <3>1. i - Len(s) = j - Len(s) BY <1>7, <2>3 DEF PathsOnce
    <3>2. QED BY <1>1, <1>2, <3>1
  <2>4. QED BY <1>3, <2>1, <2>2, <2>3
<1>8. QED BY <1>1, <1>6, <1>7 DEF c

\* What a filter's loop leaves of a list, at the places in P.
LEMMA Filtered ==
  ASSUME NEW S, NEW s \in Seq(S), NEW P, P \subseteq DOMAIN s
  PROVE  /\ Picked(s, P) \in Seq(S)
         /\ ToSet(Picked(s, P)) = {s[i] : i \in P}
         /\ PathsOnce(s) => PathsOnce(Picked(s, P))
<1> DEFINE t == Picked(s, P)
<1>1. t \in Seq(S) /\ EachOnce(t, s, P) BY PickedEach
<1> HIDE DEF t
<1>2. PICK at \in [DOMAIN t -> P] :
        /\ \A n \in DOMAIN t : t[n] = s[at[n]]
        /\ \A m, n \in DOMAIN t : at[m] = at[n] => m = n
        /\ \A p \in P : \E n \in DOMAIN t : at[n] = p
  BY <1>1 DEF EachOnce
<1>3. ToSet(t) = {s[i] : i \in P}
  <2>1. \A x \in ToSet(t) : \E i \in P : x = s[i] BY <1>2 DEF ToSet
  <2>2. \A i \in P : s[i] \in ToSet(t) BY <1>2 DEF ToSet
  <2>3. QED BY <2>1, <2>2
<1>4. PathsOnce(s) => PathsOnce(t) BY <1>2 DEF PathsOnce
<1>5. QED BY <1>1, <1>3, <1>4 DEF t

------------------------------------------------------------------------------
(* The walk. *)

LEMMA ScannablesAre ==
  /\ Scannable \subseteq Regulars
  /\ \A f \in Scannable : f \in AllPaths /\ f \notin Dirs /\ Above[f] \cap SkippedDirs \subseteq AssetDirs
BY TreeFacts DEF Scannable, AllPaths

\* What reading a directory puts in front of what is still to visit.
LEMMA ReadingADirectory ==
  ASSUME NEW v \in Visits, v.path \in Dirs, VisitIsRight(v)
  PROVE  LET within == Within(v) IN
         /\ within \in Seq(Visits) /\ PathsOnce(within)
         /\ \A w \in ToSet(within) :
              VisitIsRight(w) /\ \E i \in DOMAIN Children[v.path] : w.path = Children[v.path][i]
         /\ \A i \in Entered(v.path) : \E w \in ToSet(within) : w.path = Children[v.path][i]
<1> DEFINE d == v.path
           list == Children[d]
           wanted == Picked(list, Entered(d))
           visit(p) == Visit(p, p \in AssetDirs \/ v.asset, v.above \cup {d})
           within == [i \in DOMAIN wanted |-> visit(wanted[i])]
<1>1. Within(v) = within BY DEF Within
<1>2. list \in Seq(AllPaths) /\ \A i, j \in DOMAIN list : list[i] = list[j] => i = j
  BY TreeAssumption DEF AllPaths
<1>3. Entered(d) \subseteq DOMAIN list BY DEF Entered
<1>4. wanted \in Seq(AllPaths) /\ EachOnce(wanted, list, Entered(d)) BY <1>2, <1>3, PickedEach
<1>5. DOMAIN wanted = 1..Len(wanted) /\ Len(wanted) \in Nat /\ \A i \in DOMAIN wanted : wanted[i] \in AllPaths
  BY <1>4, LenProperties, ElementOfSeq
<1>6. PICK at \in [DOMAIN wanted -> Entered(d)] :
        /\ \A n \in DOMAIN wanted : wanted[n] = list[at[n]]
        /\ \A m, n \in DOMAIN wanted : at[m] = at[n] => m = n
        /\ \A p \in Entered(d) : \E n \in DOMAIN wanted : at[n] = p
  BY <1>4 DEF EachOnce
<1>7. ASSUME NEW i \in Entered(d)
      PROVE  visit(list[i]) \in Visits /\ visit(list[i]).path = list[i] /\ VisitIsRight(visit(list[i]))
  <2> DEFINE c == list[i]
  <2>1. c \in AllPaths /\ Above[c] = {d} \cup Above[d] BY <1>3, ChildIsBelow
  <2>2. c \in Dirs => Enters(c) BY DEF Entered
  <2>3. /\ v.above = Above[d] /\ v.asset \in BOOLEAN /\ Above[d] \subseteq Dirs
        /\ v.asset <=> (d \in AssetDirs \/ Above[d] \cap AssetDirs # {})
        /\ Above[d] \cap SkippedDirs \subseteq AssetDirs /\ Enters(d)
    BY DEF VisitIsRight, Visits
  <2> HIDE DEF c
  <2>4. /\ visit(c).path = c /\ visit(c).above = Above[c]
        /\ visit(c).asset = (c \in AssetDirs \/ v.asset)
    BY <2>1, <2>3 DEF Visit
  <2>5. visit(c) \in Visits BY <2>1, <2>3 DEF Visits, Visit, AllPaths
  <2>6. visit(c).asset <=> (c \in AssetDirs \/ Above[c] \cap AssetDirs # {}) BY <2>1, <2>3, <2>4
  <2>7. Above[c] \cap SkippedDirs \subseteq AssetDirs BY <2>1, <2>3 DEF Enters
  <2>8. VisitIsRight(visit(c)) BY <2>2, <2>4, <2>6, <2>7 DEF VisitIsRight
  <2>9. QED BY <2>4, <2>5, <2>8 DEF c
<1>8. \A n \in DOMAIN wanted :
        /\ visit(wanted[n]) \in Visits /\ VisitIsRight(visit(wanted[n]))
        /\ visit(wanted[n]).path = list[at[n]]
  <2> TAKE n \in DOMAIN wanted
  <2>1. at[n] \in Entered(d) /\ wanted[n] = list[at[n]] BY <1>6
  <2> HIDE DEF wanted, visit
  <2>2. QED BY <1>7, <2>1
<1> HIDE DEF visit, wanted, list
<1>9. /\ DOMAIN within = DOMAIN wanted
      /\ \A n \in DOMAIN within : /\ within[n] \in Visits /\ VisitIsRight(within[n])
                                  /\ within[n].path = list[at[n]]
  BY <1>8
<1>10. within \in Seq(Visits)
  <2>1. within \in [1..Len(wanted) -> Visits] BY <1>5, <1>9
  <2>2. QED BY <1>5, <2>1, SeqDef
<1> HIDE DEF within
<1>11. PathsOnce(within) BY <1>2, <1>3, <1>6, <1>9 DEF PathsOnce
<1>12. \A w \in ToSet(within) : VisitIsRight(w) /\ \E i \in DOMAIN list : w.path = list[i]
  BY <1>3, <1>6, <1>9 DEF ToSet
<1>13. \A i \in Entered(d) : \E w \in ToSet(within) : w.path = list[i]
  BY <1>6, <1>9 DEF ToSet
<1>14. QED BY <1>1, <1>10, <1>11, <1>12, <1>13 DEF list

\* The visits that are left when the first one is taken.
LEMMA OneVisitLess ==
  ASSUME WalkIsSound, todo # <<>>
  PROVE  /\ Here \in Visits /\ VisitIsRight(Here) /\ Tail(todo) \in Seq(Visits)
         /\ Here.path \in AllPaths /\ \A w \in ToSet(Tail(todo)) : w.path \in AllPaths
         /\ ToSet(todo) = {Here} \cup ToSet(Tail(todo))
         /\ PathsOnce(Tail(todo))
         /\ \A w \in ToSet(Tail(todo)) :
              VisitIsRight(w) /\ ~Covers(w.path, Here.path) /\ ~Covers(Here.path, w.path)
         /\ walking = "yes" /\ main \in {"idle", "drain"}
<1>1. todo \in Seq(Visits) BY DEF WalkIsSound, WalkTypes
<1>2. /\ Here \in Visits /\ Tail(todo) \in Seq(Visits)
      /\ ToSet(todo) = {Here} \cup ToSet(Tail(todo))
      /\ PathsOnce(Tail(todo)) /\ \A w \in ToSet(Tail(todo)) : w.path # Here.path
  BY <1>1, Popped DEF Here, WalkIsSound, TodoIsRight
<1>3. ToSet(Tail(todo)) \subseteq Visits BY <1>2, SetOf
<1>4. \A w \in Visits : w.path \in AllPaths BY DEF Visits, AllPaths
<1>5. walking = "yes" /\ main \in {"idle", "drain"} BY DEF WalkIsSound, WalkEnds
<1>6. QED BY <1>2, <1>3, <1>4, <1>5 DEF WalkIsSound, TodoIsRight

LEMMA ReadKeepsWalk ==
  ASSUME WalkIsSound, ReadDir, UNCHANGED <<main, outcome, allFiles>>
  PROVE  WalkIsSound'
<1> DEFINE v == Here
           d == v.path
           within == Within(v)
           rest == Tail(todo)
<1>1. /\ todo # <<>> /\ d \in Dirs /\ todo' = within \o rest
      /\ UNCHANGED <<entries, errs, walking, failed>>
  BY DEF ReadDir
<1>2. /\ v \in Visits /\ VisitIsRight(v) /\ rest \in Seq(Visits)
      /\ d \in AllPaths /\ \A w \in ToSet(rest) : w.path \in AllPaths
      /\ ToSet(todo) = {v} \cup ToSet(rest) /\ PathsOnce(rest)
      /\ \A w \in ToSet(rest) : VisitIsRight(w) /\ ~Covers(w.path, d) /\ ~Covers(d, w.path)
      /\ walking = "yes" /\ main \in {"idle", "drain"}
  BY <1>1, OneVisitLess
<1>3. /\ within \in Seq(Visits) /\ PathsOnce(within)
      /\ \A w \in ToSet(within) : VisitIsRight(w) /\ \E i \in DOMAIN Children[d] : w.path = Children[d][i]
      /\ \A i \in Entered(d) : \E w \in ToSet(within) : w.path = Children[d][i]
  BY <1>1, <1>2, ReadingADirectory
<1> HIDE DEF within, rest, v
<1>4. \A i \in DOMAIN Children[d] :
        /\ Children[d][i] \in AllPaths /\ Above[Children[d][i]] = {d} \cup Above[d]
        /\ \A p \in AllPaths : Covers(Children[d][i], p) => d \in Above[p]
  BY <1>1, ChildIsBelow
<1>5. \A w \in ToSet(within) :
        /\ w.path \in AllPaths /\ Above[w.path] = {d} \cup Above[d]
        /\ \A p \in AllPaths : Covers(w.path, p) => d \in Above[p]
  BY <1>3, <1>4
<1>6. \A w \in ToSet(within), x \in ToSet(rest) : ~Covers(w.path, x.path) /\ ~Covers(x.path, w.path)
  <2> TAKE w \in ToSet(within), x \in ToSet(rest)
  <2>1. ~Covers(d, x.path) /\ ~Covers(x.path, d) /\ x.path \in AllPaths BY <1>2
  <2>2. ~Covers(w.path, x.path) BY <1>5, <2>1 DEF Covers
  <2>3. ~Covers(x.path, w.path)
    <3>1. x.path # w.path BY <2>2 DEF Covers
    <3>2. x.path \notin Above[w.path] BY <1>5, <2>1 DEF Covers
    <3>3. QED BY <3>1, <3>2 DEF Covers
  <2>4. QED BY <2>2, <2>3
<1>7. \A w, x \in ToSet(within) : Covers(w.path, x.path) => w.path = x.path
  <2> TAKE w, x \in ToSet(within)
  <2> HAVE Covers(w.path, x.path)
  <2>1. PICK i \in DOMAIN Children[d], j \in DOMAIN Children[d] :
          w.path = Children[d][i] /\ x.path = Children[d][j]
    BY <1>3
  <2>2. Covers(Children[d][j], x.path) /\ x.path \in AllPaths BY <1>5, <2>1 DEF Covers
  <2>3. i = j BY <1>1, <2>1, <2>2, SiblingsApart
  <2>4. QED BY <2>1, <2>3
<1>8. /\ todo' \in Seq(Visits) /\ ToSet(todo') = ToSet(within) \cup ToSet(rest)
      /\ PathsOnce(todo')
  <2>1. \A w \in ToSet(within), x \in ToSet(rest) : w.path # x.path BY <1>6 DEF Covers
  <2>2. QED BY <1>1, <1>2, <1>3, <2>1, Spliced
<1>9. TodoIsRight'
  <2>1. \A w, x \in ToSet(rest) : Covers(w.path, x.path) => w.path = x.path
    BY <1>2 DEF WalkIsSound, TodoIsRight
  <2>2. \A w, x \in ToSet(todo') : Covers(w.path, x.path) => w.path = x.path
    BY <1>6, <1>7, <1>8, <2>1
  <2>3. \A w \in ToSet(todo') : VisitIsRight(w) BY <1>2, <1>3, <1>8
  <2>4. QED BY <1>8, <2>2, <2>3 DEF TodoIsRight
<1>10. ListIsRight'
  <2>1. \A e \in ToSet(entries) \cup ToSet(allFiles) :
          /\ e.path \in Scannable /\ (e.asset <=> IsAsset(e.path))
          /\ \A w \in ToSet(todo) : ~Covers(w.path, e.path)
    BY DEF WalkIsSound, ListIsRight, EntryIsRight
  <2>2. \A e \in ToSet(entries) \cup ToSet(allFiles) : \A w \in ToSet(todo') : ~Covers(w.path, e.path)
    <3> TAKE e \in ToSet(entries) \cup ToSet(allFiles)
    <3>1. e.path \in AllPaths /\ ~Covers(d, e.path) BY <1>2, <2>1, ScannablesAre
    <3>2. \A w \in ToSet(within) : ~Covers(w.path, e.path) BY <1>5, <3>1 DEF Covers
    <3>3. QED BY <1>2, <1>8, <2>1, <3>2
  <2>3. \A e \in ToSet(entries) \cup ToSet(allFiles) : EntryIsRight(e)' BY <2>1, <2>2 DEF EntryIsRight
  <2>4. QED BY <1>1, <2>3 DEF WalkIsSound, ListIsRight, Listed
<1>11. ASSUME NEW f \in Scannable, Covers(d, f) PROVE \E w \in ToSet(within) : Covers(w.path, f)
  <2>1. f \in AllPaths /\ f \notin Dirs /\ Above[f] \cap SkippedDirs \subseteq AssetDirs BY ScannablesAre
  <2>2. d \in Above[f] BY <1>1, <1>11, <2>1 DEF Covers
  <2>3. PICK i \in DOMAIN Children[d] : Covers(Children[d][i], f) BY <2>1, <2>2, ChildTowards
  <2>4. i \in Entered(d)
    <3>1. Children[d][i] \in Dirs => Enters(Children[d][i]) BY <2>1, <2>3 DEF Covers, Enters
    <3>2. QED BY <3>1 DEF Entered
  <2>5. QED BY <1>3, <2>3, <2>4
<1>12. ListIsComplete'
  <2>1. failed = {} => \A f \in Scannable : Found(f) BY <1>2 DEF WalkIsSound, ListIsComplete
  <2>2. \A f \in Scannable : Found(f) => Found(f)' BY <1>1, <1>2, <1>8, <1>11 DEF Found, Listed
  <2>3. QED BY <1>1, <2>1, <2>2 DEF WalkIsSound, ListIsComplete, Scanning, Listed
<1>13. WalkTypes' /\ WalkEnds' BY <1>1, <1>2, <1>8 DEF WalkIsSound, WalkTypes, WalkEnds
<1>14. QED BY <1>9, <1>10, <1>12, <1>13 DEF WalkIsSound

\* The filters of walk and the description of the wanted files agree.
LEMMA PassingIsScannable ==
  ASSUME NEW v \in Visits, VisitIsRight(v), v.path \in Regulars
  PROVE  /\ Passes(v) <=> v.path \in Scannable
         /\ v.asset <=> IsAsset(v.path)
         /\ \A f \in Scannable : Covers(v.path, f) => f = v.path
<1>1. v.path \notin AssetDirs /\ v.path \notin Dirs BY TreeFacts
<1>2. v.asset <=> IsAsset(v.path) BY <1>1 DEF VisitIsRight, IsAsset
<1>3. Passes(v) <=> v.path \in Scannable
  BY <1>2 DEF VisitIsRight, Passes, PassesByName, Scannable
<1>4. \A f \in Scannable : Covers(v.path, f) => f = v.path
  <2> TAKE f \in Scannable
  <2>1. f \in AllPaths BY ScannablesAre
  <2>2. Above[f] \subseteq Dirs BY <2>1, AboveClimbs
  <2>3. QED BY <1>1, <2>2 DEF Covers
<1>5. QED BY <1>2, <1>3, <1>4

LEMMA TakingAVisit ==
  ASSUME WalkIsSound, todo # <<>>, todo' = Tail(todo)
  PROVE  /\ todo' \in Seq(Visits) /\ TodoIsRight'
         /\ ToSet(todo) = {Here} \cup ToSet(todo')
         /\ \A e \in ToSet(entries) \cup ToSet(allFiles) : EntryIsRight(e)'
<1>1. /\ todo' \in Seq(Visits) /\ ToSet(todo) = {Here} \cup ToSet(todo') /\ PathsOnce(todo')
      /\ \A w \in ToSet(todo') : VisitIsRight(w)
  BY OneVisitLess
<1>2. \A v, w \in ToSet(todo') : Covers(v.path, w.path) => v.path = w.path
  BY <1>1 DEF WalkIsSound, TodoIsRight
<1>3. TodoIsRight' BY <1>1, <1>2 DEF TodoIsRight
<1>4. \A e \in ToSet(entries) \cup ToSet(allFiles) : EntryIsRight(e)'
  BY <1>1 DEF WalkIsSound, ListIsRight, EntryIsRight
<1>5. QED BY <1>1, <1>3, <1>4

LEMMA SkipKeepsWalk ==
  ASSUME WalkIsSound, SkipFile, UNCHANGED <<main, outcome, allFiles>>
  PROVE  WalkIsSound'
<1>1. /\ todo # <<>> /\ Here.path \in Regulars /\ ~Passes(Here) /\ todo' = Tail(todo)
      /\ UNCHANGED <<entries, errs, walking, failed>>
  BY DEF SkipFile
<1>2. /\ todo' \in Seq(Visits) /\ TodoIsRight' /\ ToSet(todo) = {Here} \cup ToSet(todo')
      /\ \A e \in ToSet(entries) \cup ToSet(allFiles) : EntryIsRight(e)'
      /\ Here \in Visits /\ VisitIsRight(Here) /\ walking = "yes" /\ main \in {"idle", "drain"}
  BY <1>1, TakingAVisit, OneVisitLess
<1>3. \A f \in Scannable : ~Covers(Here.path, f) BY <1>1, <1>2, PassingIsScannable
<1>4. \A f \in Scannable : Found(f) => Found(f)' BY <1>1, <1>2, <1>3 DEF Found, Listed
<1>5. ListIsRight' BY <1>1, <1>2 DEF WalkIsSound, ListIsRight, Listed
<1>6. ListIsComplete'
  <2>1. failed = {} => \A f \in Scannable : Found(f) BY <1>2 DEF WalkIsSound, ListIsComplete
  <2>2. QED BY <1>1, <1>4, <2>1 DEF WalkIsSound, ListIsComplete, Scanning, Listed
<1>7. WalkTypes' /\ WalkEnds' BY <1>1, <1>2 DEF WalkIsSound, WalkTypes, WalkEnds
<1>8. QED BY <1>2, <1>5, <1>6, <1>7 DEF WalkIsSound

\* An error is sent, or there is one in the channel already.
LEMMA FailureKeepsWalk ==
  ASSUME WalkIsSound, ReadDirFails \/ FileFails, UNCHANGED <<main, outcome, allFiles>>
  PROVE  WalkIsSound'
<1>1. /\ todo # <<>> /\ todo' = Tail(todo) /\ SendErr(Here.path)
      /\ UNCHANGED <<entries, walking>>
  BY DEF ReadDirFails, FileFails
<1>2. /\ todo' \in Seq(Visits) /\ TodoIsRight' /\ Here.path \in AllPaths
      /\ \A e \in ToSet(entries) \cup ToSet(allFiles) : EntryIsRight(e)'
      /\ walking = "yes" /\ main \in {"idle", "drain"}
  BY <1>1, TakingAVisit, OneVisitLess
<1>3. errs \in Seq(AllPaths) /\ Len(errs) \in Nat /\ Len(errs) <= ErrCap /\ ErrCap \in Nat \ {0}
  BY WalkerConstants, LenProperties DEF WalkIsSound, WalkTypes, AllPaths
<1>4. /\ errs' = IF Len(errs) < ErrCap THEN Append(errs, Here.path) ELSE errs
      /\ failed' = failed \cup {Here.path}
  BY <1>1 DEF SendErr
<1>5. errs' \in Seq(AllPaths) /\ Len(errs') <= ErrCap /\ errs' # <<>>
  <2>1. CASE Len(errs) < ErrCap
    <3>1. errs' = Append(errs, Here.path) BY <1>4, <2>1
    <3>2. errs' \in Seq(AllPaths) /\ Len(errs') = Len(errs) + 1 BY <1>2, <1>3, <3>1, AppendProperties
    <3>3. Len(errs') # 0 /\ Len(errs') <= ErrCap BY <1>3, <2>1, <3>2
    <3>4. QED BY <3>2, <3>3, EmptySeq
  <2>2. CASE ~(Len(errs) < ErrCap)
    <3>1. errs' = errs /\ Len(errs) # 0 BY <1>3, <1>4, <2>2
    <3>2. QED BY <1>3, <3>1, EmptySeq
  <2>3. QED BY <2>1, <2>2
<1>6. ListIsRight' BY <1>1, <1>2 DEF WalkIsSound, ListIsRight, Listed
<1>7. ListIsComplete' BY <1>1, <1>4, <1>5 DEF WalkIsSound, ListIsComplete, Scanning, Listed
<1>8. WalkTypes' /\ WalkEnds' BY <1>1, <1>2, <1>5 DEF WalkIsSound, WalkTypes, WalkEnds, AllPaths
<1>9. QED BY <1>2, <1>6, <1>7, <1>8 DEF WalkIsSound

LEMMA EmitKeepsWalk ==
  ASSUME WalkIsSound, Emit, UNCHANGED <<main, outcome, allFiles>>
  PROVE  WalkIsSound'
<1> DEFINE f == Here.path
<1>1. /\ todo # <<>> /\ f \in Regulars /\ Passes(Here) /\ todo' = Tail(todo)
      /\ Len(entries) < EntryCap /\ entries' = Append(entries, [path |-> f, asset |-> Here.asset])
      /\ UNCHANGED <<errs, walking, failed>>
  BY DEF Emit
<1>2. /\ todo' \in Seq(Visits) /\ TodoIsRight' /\ ToSet(todo) = {Here} \cup ToSet(todo')
      /\ \A d \in ToSet(entries) \cup ToSet(allFiles) : EntryIsRight(d)'
      /\ Here \in Visits /\ VisitIsRight(Here) /\ walking = "yes" /\ main \in {"idle", "drain"}
      /\ \A w \in ToSet(todo') : ~Covers(w.path, f)
  BY <1>1, TakingAVisit, OneVisitLess
<1>3. /\ f \in Scannable /\ Here.asset = IsAsset(f) /\ Here.asset \in BOOLEAN
      /\ \A g \in Scannable : Covers(f, g) => g = f
  <2>1. Here.asset \in BOOLEAN /\ IsAsset(f) \in BOOLEAN BY <1>2 DEF Visits, IsAsset
  <2>2. QED BY <1>1, <1>2, <2>1, PassingIsScannable
<1>4. PICK e \in FileEntries :
        e = [path |-> f, asset |-> Here.asset] /\ e.path = f /\ e.asset = IsAsset(f)
  BY <1>1, <1>3 DEF FileEntries
<1>5. entries \in Seq(FileEntries) /\ Len(entries) \in Nat /\ EntryCap \in Nat
  BY WalkerConstants, LenProperties DEF WalkIsSound, WalkTypes
<1>6. \A d \in ToSet(entries) \cup ToSet(allFiles) : d.path # f
  <2>1. \A d \in ToSet(entries) \cup ToSet(allFiles) : ~Covers(f, d.path)
    BY <1>2 DEF WalkIsSound, ListIsRight, EntryIsRight
  <2>2. QED BY <2>1 DEF Covers
<1>7. /\ entries' \in Seq(FileEntries) /\ Len(entries') <= EntryCap
      /\ ToSet(entries') = ToSet(entries) \cup {e} /\ PathsOnce(entries')
  <2>1. PathsOnce(entries) BY DEF WalkIsSound, ListIsRight
  <2>2. /\ entries' \in Seq(FileEntries) /\ Len(entries') = Len(entries) + 1
        /\ ToSet(entries') = ToSet(entries) \cup {e} /\ PathsOnce(entries')
    BY <1>1, <1>4, <1>5, <1>6, <2>1, Pushed
  <2>3. QED BY <1>1, <1>5, <2>2
<1>8. ListIsRight'
  <2>1. EntryIsRight(e)' BY <1>2, <1>3, <1>4 DEF EntryIsRight
  <2>2. \A d \in ToSet(entries') \cup ToSet(allFiles) : EntryIsRight(d)' BY <1>2, <1>7, <2>1
  <2>3. \A d \in ToSet(entries') : ~Listed(allFiles, d.path)
    BY <1>4, <1>6, <1>7 DEF WalkIsSound, ListIsRight, Listed
  <2>4. QED BY <1>7, <2>2, <2>3 DEF WalkIsSound, ListIsRight, Listed
<1>9. ListIsComplete'
  <2>1. failed = {} => \A g \in Scannable : Found(g) BY <1>2 DEF WalkIsSound, ListIsComplete
  <2>2. \A g \in Scannable : Found(g) => Found(g)' BY <1>2, <1>3, <1>4, <1>7 DEF Found, Listed
  <2>3. QED BY <1>1, <2>1, <2>2 DEF WalkIsSound, ListIsComplete, Scanning, Listed
<1>10. WalkTypes' /\ WalkEnds' BY <1>1, <1>2, <1>7 DEF WalkIsSound, WalkTypes, WalkEnds
<1>11. QED BY <1>2, <1>8, <1>9, <1>10 DEF WalkIsSound

LEMMA WalkerKeepsWalk ==
  ASSUME WalkIsSound, WalkerStep, UNCHANGED <<main, outcome, allFiles>>
  PROVE  WalkIsSound'
<1>1. CASE CloseErrs \/ CloseEntries
  <2>1. /\ todo = <<>> /\ walking' \in {"errsClosed", "no"}
        /\ UNCHANGED <<todo, entries, errs, failed>>
        /\ main \notin {"idle", "drain"} => walking' = "no"
    BY <1>1 DEF CloseErrs, CloseEntries, WalkIsSound, WalkEnds
  <2>2. TodoIsRight' BY <2>1 DEF WalkIsSound, TodoIsRight
  <2>3. ListIsRight'
    <3>1. \A e \in ToSet(entries) \cup ToSet(allFiles) : EntryIsRight(e)'
      BY <2>1 DEF WalkIsSound, ListIsRight, EntryIsRight
    <3>2. QED BY <2>1, <3>1 DEF WalkIsSound, ListIsRight, Listed
  <2>4. ListIsComplete' BY <2>1 DEF WalkIsSound, ListIsComplete, Scanning, Found, Listed
  <2>5. WalkTypes' /\ WalkEnds' BY <2>1 DEF WalkIsSound, WalkTypes, WalkEnds
  <2>6. QED BY <2>2, <2>3, <2>4, <2>5 DEF WalkIsSound
<1>2. QED
  BY <1>1, ReadKeepsWalk, SkipKeepsWalk, FailureKeepsWalk, EmitKeepsWalk DEF WalkerStep

LEMMA RootIsAbove ==
  ASSUME NEW p \in AllPaths, p # Root
  PROVE  Root \in Above[p]
<1> SUFFICES ASSUME Root \notin Above[p] PROVE FALSE OBVIOUS
<1>1. Above[p] \subseteq Dirs /\ Climbs(Above[p], p) BY AboveClimbs
<1>2. Above[p] \in SUBSET (Dirs \ {Root}) /\ Above[p] # {} BY <1>1 DEF Climbs
<1>3. PICK e \in Dirs \ Above[p], c \in Above[p] : c \in ToSet(Children[e]) BY <1>2, TreeAssumption
<1>4. ParentOf(c) = e BY <1>3, ChildrenAre DEF ToSet
<1>5. e \in Above[p] BY <1>1, <1>2, <1>4 DEF Climbs
<1>6. QED BY <1>3, <1>5

LEMMA OneInAList ==
  ASSUME NEW S, NEW v \in S
  PROVE  /\ <<v>> \in Seq(S) /\ ToSet(<<v>>) = {v} /\ PathsOnce(<<v>>)
         /\ <<>> \in Seq(S) /\ ToSet(<<>>) = {} /\ PathsOnce(<<>>)
<1>1. Len(<<v>>) = 1 /\ <<v>>[1] = v /\ <<v>> \in Seq(S) /\ <<>> \in Seq(S) OBVIOUS
<1>2. DOMAIN <<v>> = {1} /\ DOMAIN <<>> = {} OBVIOUS
<1>3. QED BY <1>1, <1>2 DEF ToSet, PathsOnce

LEMMA WalkStart == PipelineInit => WalkIsSound
<1> SUFFICES ASSUME PipelineInit PROVE WalkIsSound OBVIOUS
<1> PICK v : v = Visit(Root, FALSE, {}) OBVIOUS
<1>1. /\ entries = <<>> /\ errs = <<>> /\ walking = "yes" /\ failed = {}
      /\ main = "idle" /\ allFiles = <<>> /\ outcome = "none"
  BY DEF PipelineInit, WalkerInit
<1>2. v.path = Root /\ v.asset = FALSE /\ v.above = {} BY DEF Visit
<1>3. v \in Visits BY TreeFacts DEF Visits, Visit
<1>4. Above[Root] = {} BY TreeFacts, AboveClimbs DEF AllPaths
<1>5. VisitIsRight(v) BY <1>2, <1>4, TreeFacts DEF VisitIsRight, Enters
<1>6. /\ ToSet(todo) = {v} /\ todo \in Seq(Visits) /\ PathsOnce(todo)
      /\ ToSet(entries) = {} /\ PathsOnce(entries) /\ PathsOnce(allFiles) /\ ToSet(allFiles) = {}
  <2>1. todo = <<v>> BY DEF PipelineInit, WalkerInit
  <2>2. QED BY <1>1, <1>3, <2>1, OneInAList
<1>7. TodoIsRight BY <1>5, <1>6 DEF TodoIsRight
<1>8. ListIsRight BY <1>6 DEF ListIsRight
<1>9. \A f \in Scannable : Covers(Root, f)
  <2> TAKE f \in Scannable
  <2>1. f \in AllPaths /\ f # Root BY ScannablesAre, TreeFacts
  <2>2. QED BY <2>1, RootIsAbove DEF Covers
<1>10. ListIsComplete BY <1>1, <1>2, <1>6, <1>9 DEF ListIsComplete, Found, Scanning
<1>11. WalkTypes
  <2>1. Len(<<>>) = 0 /\ EntryCap \in Nat /\ ErrCap \in Nat BY WalkerConstants
  <2>2. QED BY <1>1, <1>6, <2>1 DEF WalkTypes
<1>12. WalkEnds BY <1>1 DEF WalkEnds
<1>13. QED BY <1>7, <1>8, <1>10, <1>11, <1>12 DEF WalkIsSound

\* The consumer takes the entries over, in their order.
LEMMA DrainKeepsWalk ==
  ASSUME WalkIsSound, RunTypes, Drain
  PROVE  WalkIsSound'
<1>1. /\ main = "drain" /\ entries # <<>>
      /\ allFiles' = Append(allFiles, Head(entries)) /\ entries' = Tail(entries)
      /\ UNCHANGED <<todo, errs, walking, failed, main, outcome>>
  BY DEF Drain
<1>2. /\ entries \in Seq(FileEntries) /\ allFiles \in Seq(FileEntries)
      /\ Len(entries) \in Nat /\ Len(entries) <= EntryCap /\ EntryCap \in Nat
  BY WalkerConstants, LenProperties DEF WalkIsSound, WalkTypes
<1>3. PICK e : e = Head(entries) OBVIOUS
<1>4. ListIsRight BY DEF WalkIsSound
<1>5. /\ e \in FileEntries /\ entries' \in Seq(FileEntries) /\ Len(entries') <= EntryCap
      /\ ToSet(entries) = {e} \cup ToSet(entries')
      /\ PathsOnce(entries') /\ \A d \in ToSet(entries') : d.path # e.path
  <2>1. /\ e \in FileEntries /\ entries' \in Seq(FileEntries) /\ Len(entries') = Len(entries) - 1
        /\ ToSet(entries) = {e} \cup ToSet(entries')
        /\ PathsOnce(entries') /\ \A d \in ToSet(entries') : d.path # e.path
    BY <1>1, <1>2, <1>3, <1>4, Popped DEF ListIsRight
  <2>2. QED BY <1>2, <2>1
<1>6. \A d \in ToSet(allFiles) : d.path # e.path BY <1>4, <1>5 DEF ListIsRight, Listed
<1>7. /\ allFiles' \in Seq(FileEntries) /\ ToSet(allFiles') = ToSet(allFiles) \cup {e}
      /\ PathsOnce(allFiles')
  BY <1>1, <1>2, <1>3, <1>4, <1>5, <1>6, Pushed DEF ListIsRight
<1>8. ListIsRight'
  <2>1. ToSet(entries') \cup ToSet(allFiles') = ToSet(entries) \cup ToSet(allFiles) BY <1>5, <1>7
  <2>2. \A d \in ToSet(entries) \cup ToSet(allFiles) : EntryIsRight(d)'
    BY <1>1, <1>4 DEF ListIsRight, EntryIsRight
  <2>3. \A d \in ToSet(entries') : ~Listed(allFiles', d.path)
    BY <1>4, <1>5, <1>7 DEF ListIsRight, Listed
  <2>4. QED BY <1>5, <1>7, <2>1, <2>2, <2>3 DEF ListIsRight, Listed
<1>9. ListIsComplete'
  <2>1. failed = {} => \A f \in Scannable : Found(f) BY <1>1 DEF WalkIsSound, ListIsComplete
  <2>2. \A f : Found(f) => Found(f)' BY <1>1, <1>5, <1>7 DEF Found, Listed
  <2>3. ~Scanning' BY <1>1 DEF Scanning, RunTypes
  <2>4. QED BY <1>1, <2>1, <2>2, <2>3 DEF WalkIsSound, ListIsComplete
<1>10. TodoIsRight' /\ WalkTypes' /\ WalkEnds'
  BY <1>1, <1>5, <1>7 DEF WalkIsSound, WalkTypes, WalkEnds, TodoIsRight
<1>11. QED BY <1>8, <1>9, <1>10 DEF WalkIsSound

\* The loop over the scanners begins with what is to be scanned.
LEMMA StartKeepsWalk ==
  ASSUME WalkIsSound, RunTypes, StartScanners
  PROVE  WalkIsSound' /\ Scanning' /\ outcome' = "none"
<1> DEFINE P == {i \in DOMAIN allFiles : allFiles[i].path \notin TestFiles}
<1>1. /\ main = "errs" /\ errs = <<>> /\ main' \in {"serial", "fanout"}
      /\ allFiles' = Picked(allFiles, P)
      /\ UNCHANGED <<todo, entries, errs, walking, failed, outcome>>
  BY DEF StartScanners, walkerVars, WithoutTests
<1>2. /\ allFiles \in Seq(FileEntries) /\ PathsOnce(allFiles) /\ outcome = "none"
      /\ entries = <<>> /\ walking = "no" /\ todo = <<>> /\ failed = {}
  BY <1>1 DEF WalkIsSound, WalkTypes, ListIsRight, ListIsComplete, WalkEnds, RunTypes
<1>3. /\ allFiles' \in Seq(FileEntries) /\ ToSet(allFiles') = {allFiles[i] : i \in P}
      /\ PathsOnce(allFiles')
  <2>1. P \subseteq DOMAIN allFiles OBVIOUS
  <2> HIDE DEF P
  <2>2. QED BY <1>1, <1>2, <2>1, Filtered
<1>4. ToSet(allFiles') = {e \in ToSet(allFiles) : e.path \notin TestFiles} BY <1>3 DEF ToSet
<1>5. ToSet(<<>>) = {}
  <2>1. DOMAIN <<>> = {} OBVIOUS
  <2>2. QED BY <2>1 DEF ToSet
<1>6. ListIsRight'
  <2>1. \A e \in ToSet(allFiles') : EntryIsRight(e)'
    BY <1>1, <1>4 DEF WalkIsSound, ListIsRight, EntryIsRight
  <2>2. QED BY <1>1, <1>2, <1>3, <1>5, <2>1 DEF WalkIsSound, ListIsRight
<1>7. \A f \in Scannable \ TestFiles : Listed(allFiles', f)
  <2>1. \A f \in Scannable : Listed(allFiles, f)
    BY <1>1, <1>2, <1>5 DEF WalkIsSound, ListIsComplete, Found, Listed
  <2>2. QED BY <1>4, <2>1 DEF Listed
<1>8. ListIsComplete' BY <1>1, <1>2, <1>4, <1>7 DEF ListIsComplete
<1>9. TodoIsRight' /\ WalkTypes' /\ WalkEnds'
  BY <1>1, <1>2, <1>3 DEF WalkIsSound, WalkTypes, WalkEnds, TodoIsRight
<1>10. Scanning' BY <1>1 DEF Scanning
<1>11. QED BY <1>1, <1>2, <1>6, <1>8, <1>9, <1>10 DEF WalkIsSound

\* The other steps leave the walk and its list alone.
LEMMA OthersKeepWalk ==
  ASSUME WalkIsSound, UNCHANGED <<walkerVars, allFiles>>, Scanning' => Scanning,
         main' \in {"idle", "drain", "errs"} => main \in {"idle", "drain", "errs"},
         main' \in {"idle", "drain"} \/ main \notin {"idle", "drain"} \/ (entries = <<>> /\ walking = "no")
  PROVE  WalkIsSound'
<1>1. UNCHANGED <<todo, entries, errs, walking, failed, allFiles>> BY DEF walkerVars
<1>2. TodoIsRight' BY <1>1 DEF WalkIsSound, TodoIsRight
<1>3. ListIsRight'
  <2>1. \A e \in ToSet(entries) \cup ToSet(allFiles) : EntryIsRight(e)'
    BY <1>1 DEF WalkIsSound, ListIsRight, EntryIsRight
  <2>2. QED BY <1>1, <2>1 DEF WalkIsSound, ListIsRight, Listed
<1>4. ListIsComplete'
  <2>1. \A f : Found(f)' <=> Found(f) BY <1>1 DEF Found, Listed
  <2>2. \A f : Listed(allFiles', f) <=> Listed(allFiles, f) BY <1>1
  <2>3. QED BY <1>1, <2>1, <2>2 DEF WalkIsSound, ListIsComplete
<1>5. WalkTypes' /\ WalkEnds' BY <1>1 DEF WalkIsSound, WalkTypes, WalkEnds
<1>6. QED BY <1>2, <1>3, <1>4, <1>5 DEF WalkIsSound

------------------------------------------------------------------------------
(* What the scanners are handed. *)

LEMMA ScannersAre ==
  /\ Len(Scanners) \in Nat /\ DOMAIN Scanners = 1..Len(Scanners)
  /\ Scs = {Scanners[i] : i \in DOMAIN Scanners}
  /\ IsFiniteSet(Scs) /\ Cardinality(Scs) \in Nat /\ Cardinality(Scs) <= Len(Scanners)
  /\ "sast" \in Scs /\ NoFile \notin Regulars
<1>1. /\ Len(Scanners) \in Nat /\ DOMAIN Scanners = 1..Len(Scanners)
      /\ Scanners \in [1..Len(Scanners) -> Scs]
  <2>1. Scanners \in Seq({"sast", "secrets", "sca", "framework"}) BY PipelineConstants
  <2>2. Len(Scanners) \in Nat /\ DOMAIN Scanners = 1..Len(Scanners)
        /\ Scanners \in [1..Len(Scanners) -> {"sast", "secrets", "sca", "framework"}]
    BY <2>1, LenProperties
  <2>3. \A i \in DOMAIN Scanners : Scanners[i] \in Scs BY DEF Scs, ToSet
  <2>4. QED BY <2>2, <2>3
<1>2. Scs = {Scanners[i] : i \in DOMAIN Scanners} BY DEF Scs, ToSet
<1>3. Scanners \in Surjection(1..Len(Scanners), Scs) BY <1>1, <1>2, Fun_IsSurj
<1>4. IsFiniteSet(1..Len(Scanners)) /\ Cardinality(1..Len(Scanners)) = Len(Scanners)
  <2>1. Len(Scanners) \in Int /\ 1 \in Int BY <1>1
  <2>2. QED BY <1>1, <2>1, FS_Interval
<1>5. IsFiniteSet(Scs) /\ Cardinality(Scs) <= Len(Scanners) BY <1>3, <1>4, FS_Surjection
<1>6. QED BY <1>1, <1>2, <1>5, PipelineConstants, FS_CardinalityType

LEMMA WantedIs ==
  ASSUME WalkIsSound, NEW s \in Scs
  PROVE  /\ PathsOf(Accepted(s)) \in Seq(Regulars) /\ Once(PathsOf(Accepted(s)))
         /\ WantedOf(s) \subseteq Regulars
         /\ WantedOf(s) = {e.path : e \in {d \in ToSet(allFiles) : Accepts(s, d)}}
<1> DEFINE P == {i \in DOMAIN allFiles : Accepts(s, allFiles[i])}
           list == Accepted(s)
           paths == PathsOf(list)
<1>1. allFiles \in Seq(FileEntries) /\ PathsOnce(allFiles) BY DEF WalkIsSound, WalkTypes, ListIsRight
<1>2. list = Picked(allFiles, P) BY DEF Accepted
<1>3. P \subseteq DOMAIN allFiles OBVIOUS
<1> HIDE DEF P
<1>4. /\ list \in Seq(FileEntries) /\ ToSet(list) = {allFiles[i] : i \in P} /\ PathsOnce(list)
  BY <1>1, <1>2, <1>3, Filtered
<1>5. DOMAIN list = 1..Len(list) /\ Len(list) \in Nat /\ \A i \in DOMAIN list : list[i] \in FileEntries
  BY <1>4, LenProperties, ElementOfSeq
<1> HIDE DEF list
<1>6. DOMAIN paths = DOMAIN list /\ \A i \in DOMAIN list : paths[i] = list[i].path BY DEF PathsOf
<1>7. paths \in Seq(Regulars) /\ Len(paths) = Len(list)
  <2>1. paths = [i \in 1..Len(list) |-> list[i].path] BY <1>5 DEF PathsOf
  <2>2. \A i \in 1..Len(list) : list[i].path \in Regulars BY <1>5 DEF FileEntries
  <2>3. paths \in [1..Len(list) -> Regulars] BY <2>1, <2>2
  <2>4. paths \in Seq(Regulars) BY <1>5, <2>3, SeqDef
  <2>5. QED BY <1>5, <2>1, <2>4, LenProperties
<1> HIDE DEF paths
<1>8. Once(paths) BY <1>4, <1>5, <1>6, <1>7 DEF PathsOnce, Once
<1>9. WantedOf(s) = ToSet(paths) BY DEF WantedOf, list, paths
<1>10. ToSet(paths) = {e.path : e \in ToSet(list)} BY <1>6 DEF ToSet
<1>11. ToSet(list) = {d \in ToSet(allFiles) : Accepts(s, d)} BY <1>4 DEF ToSet, P
<1>12. WantedOf(s) \subseteq Regulars BY <1>7, <1>9, SetOf
<1>13. QED BY <1>7, <1>8, <1>9, <1>10, <1>11, <1>12 DEF paths, list

LEMMA SameWanted ==
  ASSUME allFiles' = allFiles
  PROVE  \A s : WantedOf(s)' = WantedOf(s)
BY DEF WantedOf, Accepted

\* When the scanners have their files, what is owed to one of them is among them.
LEMMA OwedIsWanted ==
  ASSUME WalkIsSound, Scanning, NEW p \in Owed
  PROVE  p[1] \in Scs /\ p[2] \in Regulars /\ p[2] \in WantedOf(p[1])
<1>1. /\ p[1] \in Scs /\ p[2] \in Scannable \ TestFiles /\ p[2] \in Wants[p[1]]
      /\ IsAsset(p[2]) => p[1] = "secrets"
  BY DEF Owed
<1>2. PICK e \in ToSet(allFiles) : e.path = p[2]
  BY <1>1 DEF WalkIsSound, ListIsComplete, Listed
<1>3. e.asset <=> IsAsset(p[2]) BY <1>2 DEF WalkIsSound, ListIsRight, EntryIsRight
<1>4. Accepts(p[1], e) BY <1>1, <1>2, <1>3 DEF Accepts
<1>5. p[2] \in WantedOf(p[1]) BY <1>1, <1>2, <1>4, WantedIs
<1>6. QED BY <1>1, <1>5, ScannablesAre

------------------------------------------------------------------------------
(* The workers, under Run. *)

Handed == AllPlaced(Regulars, WantedOf("sast"))

LEMMA StepsOnThePool ==
  ASSUME PipelineNext \/ UNCHANGED allVars
  PROVE  \/ UNCHANGED poolVars /\ (allFiles' = allFiles \/ Drain \/ StartScanners)
         \/ (ScanStep \/ Expire) /\ allFiles' = allFiles
         \/ StartScan(PathsOf(Accepted("sast")), team) /\ allFiles' = allFiles
<1>1. CASE UNCHANGED allVars BY <1>1 DEF allVars, runVars
<1>2. CASE Run BY <1>2 DEF Run
<1>3. CASE Walk BY <1>3 DEF Walk, runVars
<1>4. CASE MainStep
  BY <1>4 DEF MainStep, Drain, DrainEnds, WalkFailed, StartScanners, SerialNext, Receive, RunReturns
<1>5. CASE \E s \in Scs : ScannerStep(s)
  BY <1>5 DEF ScannerStep, StartScanner, ScannerReturns, Deliver
<1>6. CASE Pool(ScanStep) BY <1>6 DEF Pool, runVars
<1>7. CASE Pool(Expire) BY <1>7 DEF Pool, runVars
<1>8. QED BY <1>1, <1>2, <1>3, <1>4, <1>5, <1>6, <1>7 DEF PipelineNext

LEMMA RunKeepsPool ==
  ASSUME WalkIsSound, RunTypes, PoolIsSound(Regulars), PipelineNext \/ UNCHANGED allVars
  PROVE  PoolIsSound(Regulars)' /\ [PoolNext(Regulars)]_poolVars
<1>1. ASSUME StartScan(PathsOf(Accepted("sast")), team) PROVE CallScan(Regulars)
  <2>1. PathsOf(Accepted("sast")) \in Seq(Regulars) /\ Once(PathsOf(Accepted("sast")))
    BY ScannersAre, WantedIs
  <2>2. QED BY <1>1, <2>1 DEF CallScan, RunTypes
<1>2. [PoolNext(Regulars)]_poolVars BY <1>1, StepsOnThePool DEF PoolNext
<1>3. QED BY <1>2, StepsKeepSound, ScannersAre

LEMMA RunKeepsPlaces ==
  ASSUME WalkIsSound, RunTypes, RunIsSound, PoolIsSound(Regulars), Handed,
         PipelineNext \/ UNCHANGED allVars
  PROVE  Handed'
<1>1. NoFile \notin Regulars /\ "sast" \in Scs BY ScannersAre
<1>2. ASSUME allFiles' = allFiles, NEW B, B = WantedOf("sast"), AllPlaced(Regulars, B)'
      PROVE  Handed'
  <2>1. WantedOf("sast")' = B BY <1>2, SameWanted
  <2>2. QED BY <1>2, <2>1 DEF Handed, AllPlaced
<1>3. PICK B : B = WantedOf("sast") OBVIOUS
<1>4. AllPlaced(Regulars, B) BY <1>3 DEF Handed
<1>5. CASE (UNCHANGED poolVars \/ ScanStep \/ Expire) /\ allFiles' = allFiles
  BY <1>1, <1>2, <1>3, <1>4, <1>5, StepsPlaceAll
<1>6. CASE UNCHANGED poolVars /\ (Drain \/ StartScanners)
  <2>1. ~Scanning BY <1>6 DEF Drain, StartScanners, Scanning, RunTypes
  <2>2. call = "no" BY <1>1, <2>1 DEF RunIsSound
  <2>3. call' = "no" BY <1>6, <2>2 DEF poolVars
  <2>4. QED BY <2>3 DEF Handed, AllPlaced
<1>7. CASE StartScan(PathsOf(Accepted("sast")), team) /\ allFiles' = allFiles
  <2>1. PICK files : files = PathsOf(Accepted("sast")) OBVIOUS
  <2>2. PICK crew : crew = team OBVIOUS
  <2>3. files \in Seq(Regulars) /\ crew \in (SUBSET Workers) \ {{}} /\ StartScan(files, crew)
    BY <1>1, <1>7, <2>1, <2>2, WantedIs DEF RunTypes
  <2>4. AllPlaced(Regulars, ToSet(files))' BY <2>3, CallPlacesAll
  <2>5. B = ToSet(files) BY <1>3, <2>1 DEF WantedOf
  <2>6. QED BY <1>2, <1>3, <1>7, <2>4, <2>5
<1>8. QED BY <1>5, <1>6, <1>7, StepsOnThePool


------------------------------------------------------------------------------
(* The steps of Run and of its scanners. *)

\* An answer, from its parts.
LEMMA AnswerOf ==
  ASSUME NEW e \in BOOLEAN, NEW f \in SUBSET Regulars, NEW t \in SUBSET Regulars,
         NEW u \in SUBSET Regulars
  PROVE  [err |-> e, files |-> f, told |-> t, unread |-> u] \in Answers
BY DEF Answers

\* Whatever cannot be read, an answer accounts for the files it was given.
LEMMA ReadsAre ==
  ASSUME NEW fs \in SUBSET Regulars, NEW a \in Silently(fs) \cup Openly(fs)
  PROVE  a \in Answers /\ Accounts(a, fs)
<1>1. PICK X \in SUBSET (fs \cap Fleeting) :
        \/ a = [NoAnswer EXCEPT !.files = fs \ X, !.unread = X]
        \/ a = [NoAnswer EXCEPT !.files = fs \ X, !.told = X]
  BY DEF Silently, Openly
<1>2. \/ a = [err |-> FALSE, files |-> fs \ X, told |-> {}, unread |-> X]
      \/ a = [err |-> FALSE, files |-> fs \ X, told |-> X, unread |-> {}]
  BY <1>1 DEF NoAnswer
<1>3. fs \ X \in SUBSET Regulars /\ X \in SUBSET Regulars /\ fs \subseteq (fs \ X) \cup X OBVIOUS
<1>4. {} \in SUBSET Regulars /\ FALSE \in BOOLEAN OBVIOUS
<1>5. a \in Answers /\ a.files = fs \ X /\ X \subseteq a.told \cup a.unread
  <2>1. CASE a = [err |-> FALSE, files |-> fs \ X, told |-> {}, unread |-> X]
    <3>1. a \in Answers BY <1>3, <1>4, <2>1, AnswerOf
    <3>2. QED BY <2>1, <3>1
  <2>2. CASE a = [err |-> FALSE, files |-> fs \ X, told |-> X, unread |-> {}]
    <3>1. a \in Answers BY <1>3, <1>4, <2>2, AnswerOf
    <3>2. QED BY <2>2, <3>1
  <2>3. QED BY <1>2, <2>1, <2>2
<1>6. QED BY <1>3, <1>5 DEF Accounts

\* What a scanner may return is of the files it was handed.
LEMMA AnswersAre ==
  ASSUME WalkIsSound, PoolIsSound(Regulars), NEW s \in Scs, NEW a \in AnswersOf(s)
  PROVE  /\ a \in Answers
         /\ s = "sast" => Accounts(a, ToSet(gathered))
         /\ s # "sast" => a.err \/ Accounts(a, WantedOf(s))
<1>1. WantedOf(s) \subseteq Regulars BY WantedIs
<1>2. ToSet(gathered) \subseteq Regulars
  <2>1. gathered \in Seq(Regulars) BY DEF PoolIsSound, PoolTypes
  <2>2. QED BY <2>1, SetOf
<1>3. CASE s = "sast"
  <2>1. a \in Silently(ToSet(gathered)) BY <1>3 DEF AnswersOf
  <2>2. QED BY <1>2, <1>3, <2>1, ReadsAre
<1>4. CASE s # "sast"
  <2>1. a \in Silently(WantedOf(s)) \cup Openly(WantedOf(s)) \cup Degraded(WantedOf(s))
    BY <1>4 DEF AnswersOf, WantedOf
  <2>2. CASE a \in Silently(WantedOf(s)) \cup Openly(WantedOf(s)) BY <1>1, <1>4, <2>2, ReadsAre
  <2>3. CASE a \in Degraded(WantedOf(s))
    <3>1. \/ a = [err |-> TRUE, files |-> {}, told |-> {}, unread |-> {}]
          \/ a = [err |-> FALSE, files |-> {}, told |-> WantedOf(s), unread |-> {}]
      BY <2>3 DEF Degraded, NoAnswer
    <3>2. WantedOf(s) \in SUBSET Regulars BY <1>1
    <3>3. {} \in SUBSET Regulars /\ TRUE \in BOOLEAN /\ FALSE \in BOOLEAN OBVIOUS
    <3>4. a \in Answers /\ (a.err \/ a.told = WantedOf(s))
      <4>1. CASE a = [err |-> TRUE, files |-> {}, told |-> {}, unread |-> {}]
        <5>1. a \in Answers BY <3>3, <4>1, AnswerOf
        <5>2. QED BY <4>1, <5>1
      <4>2. CASE a = [err |-> FALSE, files |-> {}, told |-> WantedOf(s), unread |-> {}]
        <5>1. a \in Answers BY <3>2, <3>3, <4>2, AnswerOf
        <5>2. QED BY <4>2, <5>1
      <4>3. QED BY <3>1, <4>1, <4>2
    <3>5. QED BY <1>4, <3>4 DEF Accounts
  <2>4. QED BY <2>1, <2>2, <2>3
<1>5. QED BY <1>3, <1>4

\* The types of what Run keeps.
LEMMA StepsKeepRunTypes ==
  ASSUME WalkIsSound, PoolIsSound(Regulars), RunTypes, PipelineNext \/ UNCHANGED allVars
  PROVE  RunTypes'
<1>1. ASSUME UNCHANGED runVars PROVE RunTypes' BY <1>1 DEF runVars, RunTypes
<1>2. CASE UNCHANGED allVars BY <1>1, <1>2 DEF allVars
<1>3. CASE Run \/ Drain \/ DrainEnds
  BY <1>3 DEF Run, Drain, DrainEnds, RunTypes
<1>4. CASE WalkFailed \/ RunReturns BY <1>4 DEF WalkFailed, RunReturns, Finish, RunTypes
<1>5. CASE StartScanners
  <2>1. /\ main = "errs" /\ main' \in {"serial", "fanout"}
        /\ scan' = scan \/ scan' = [s \in Scs |-> "launched"]
        /\ UNCHANGED <<team, turn, answerOf, ch, collected, told, outcome>>
    BY <1>5 DEF StartScanners
  <2>2. QED BY <2>1 DEF RunTypes
<1>6. CASE Walk \/ Pool(ScanStep) \/ Pool(Expire) BY <1>1, <1>6 DEF Walk, Pool
<1>7. ASSUME NEW s \in Scs, StartScanner(s) \/ Deliver(s) PROVE RunTypes'
  <2>1. /\ scan' = [scan EXCEPT ![s] = "running"] \/ scan' = [scan EXCEPT ![s] = "gone"]
        /\ ch' = ch \/ ch' = Append(ch, s)
        /\ UNCHANGED <<main, team, turn, answerOf, collected, told, outcome>>
    BY <1>7 DEF StartScanner, Deliver
  <2>2. ch \in Seq(Scs) BY DEF RunTypes
  <2>3. ch' \in Seq(Scs) BY <2>1, <2>2, Pushed
  <2>4. scan' \in [Scs -> {"new", "launched", "running", "returned", "gone"}] BY <2>1 DEF RunTypes
  <2>5. QED BY <2>1, <2>3, <2>4 DEF RunTypes
<1>8. ASSUME NEW s \in Scs, ScannerReturns(s) PROVE RunTypes'
  <2>1. PICK a \in AnswersOf(s) : answerOf' = [answerOf EXCEPT ![s] = a] BY <1>8 DEF ScannerReturns
  <2>2. a \in Answers BY AnswersAre
  <2>3. /\ scan' = [scan EXCEPT ![s] = "returned"]
        /\ UNCHANGED <<main, team, turn, ch, collected, told, outcome>>
    BY <1>8 DEF ScannerReturns
  <2>4. answerOf' \in [Scs -> Answers] BY <2>1, <2>2 DEF RunTypes, Answers
  <2>5. scan' \in [Scs -> {"new", "launched", "running", "returned", "gone"}] BY <2>3 DEF RunTypes
  <2>6. QED BY <2>3, <2>4, <2>5 DEF RunTypes, Answers
<1>9. ASSUME NEW s \in Scs, main \in {"serial", "fanout"},
             \/ Finish("scanner failed") /\ UNCHANGED <<turn, collected, told>>
             \/ Collect(s) /\ turn' = turn + 1 /\ UNCHANGED <<main, outcome>>,
             UNCHANGED <<team, answerOf>>,
             scan' = scan \/ scan' = [scan EXCEPT ![s] = "gone"],
             ch' \in Seq(Scs)
      PROVE  RunTypes'
  <2>1. answerOf[s] \in Answers BY DEF RunTypes, Answers
  <2>2. collected' \subseteq Scs \X Regulars /\ told' \subseteq Scs \X Regulars
    <3>1. /\ {s} \X answerOf[s].files \subseteq Scs \X Regulars
          /\ {s} \X answerOf[s].told \subseteq Scs \X Regulars
      BY <2>1 DEF Answers
    <3>2. QED BY <1>9, <3>1 DEF Collect, RunTypes
  <2>3. scan' \in [Scs -> {"new", "launched", "running", "returned", "gone"}] BY <1>9 DEF RunTypes
  <2>4. turn' \in Nat \ {0}
    <3>1. turn' = turn \/ turn' = turn + 1 BY <1>9
    <3>2. turn \in Nat \ {0} BY DEF RunTypes
    <3>3. QED BY <3>1, <3>2
  <2>5. /\ main' \in {"idle", "drain", "errs", "serial", "fanout", "done"}
        /\ outcome' \in {"none", "ok", "walk failed", "scanner failed"}
        /\ main' = "done" <=> outcome' # "none"
    BY <1>9 DEF RunTypes, Finish
  <2>6. QED BY <1>9, <2>2, <2>3, <2>4, <2>5 DEF RunTypes
<1>10. CASE SerialNext
  <2>1. PICK s : s = Scanners[turn] OBVIOUS
  <2>2. s \in Scs BY <1>10, <2>1, ScannersAre DEF SerialNext
  <2>3. ch' = ch /\ UNCHANGED <<team, answerOf>> /\ scan' = [scan EXCEPT ![s] = "gone"] /\ main = "serial"
    BY <1>10, <2>1 DEF SerialNext
  <2>4. \/ Finish("scanner failed") /\ UNCHANGED <<turn, collected, told>>
        \/ Collect(s) /\ turn' = turn + 1 /\ UNCHANGED <<main, outcome>>
    BY <1>10, <2>1 DEF SerialNext
  <2>5. ch \in Seq(Scs) BY DEF RunTypes
  <2>6. QED BY <1>9, <2>2, <2>3, <2>4, <2>5
<1>11. CASE Receive
  <2>1. PICK s : s = Head(ch) OBVIOUS
  <2>2. ch # <<>> /\ ch \in Seq(Scs) BY <1>11 DEF Receive, RunTypes
  <2>3. s \in Scs /\ Tail(ch) \in Seq(Scs) BY <2>1, <2>2, Popped
  <2>4. ch' = Tail(ch) /\ UNCHANGED <<team, answerOf, scan>> /\ main = "fanout"
    BY <1>11, <2>1 DEF Receive
  <2>5. \/ Finish("scanner failed") /\ UNCHANGED <<turn, collected, told>>
        \/ Collect(s) /\ turn' = turn + 1 /\ UNCHANGED <<main, outcome>>
    BY <1>11, <2>1 DEF Receive
  <2>6. QED BY <1>9, <2>3, <2>4, <2>5
<1>12. QED
  BY <1>2, <1>3, <1>4, <1>5, <1>6, <1>7, <1>8, <1>10, <1>11 DEF PipelineNext, MainStep, ScannerStep

LEMMA PoolSideOfSteps ==
  ASSUME PipelineNext \/ UNCHANGED allVars
  PROVE  (expired => expired')
BY StepsOnThePool
DEF poolVars, StartScan, Expire, ScanStep, WorkerStep, TakeFile, LeaveQueue, CheckDeadline, ProcessFile,
    SendResult, CloseResults, Gather, ReturnScan

\* What the list of results waiting for the caller holds.
LEMMA ChannelIs ==
  ASSUME RunTypes, RunIsSound
  PROVE  /\ ch \in Seq(Scs) /\ ToSet(ch) \subseteq Scs
         /\ \A s \in ToSet(ch) : scan[s] = "gone"
         /\ HeardOf \subseteq Scs /\ IsFiniteSet(HeardOf) /\ Cardinality(HeardOf) \in Nat
<1>1. ch \in Seq(Scs) BY DEF RunTypes
<1>2. ToSet(ch) \subseteq Scs BY <1>1, SetOf
<1>3. \A s \in ToSet(ch) : scan[s] = "gone" BY DEF RunIsSound, ToSet
<1>4. HeardOf \in SUBSET Scs BY DEF HeardOf
<1>5. IsFiniteSet(HeardOf) /\ Cardinality(HeardOf) \in Nat
  BY <1>4, ScannersAre, FS_Subset, FS_CardinalityType
<1>6. QED BY <1>1, <1>2, <1>3, <1>4, <1>5

\* Steps that leave Run's own state alone.
LEMMA OthersKeepRun ==
  ASSUME RunIsSound, UNCHANGED runVars, expired => expired', call' # "no" => call # "no"
  PROVE  RunIsSound'
<1>1. UNCHANGED <<main, outcome, scan, answerOf, ch, turn, collected, told, allFiles>> BY DEF runVars
<1>2. \A s : Heard(s)' <=> Heard(s) BY <1>1 DEF Heard
<1>3. HeardOf' = HeardOf BY <1>2 DEF HeardOf
<1>4. \A s : AnswerIsTaken(s) => AnswerIsTaken(s)' BY <1>1 DEF AnswerIsTaken
<1>5. \A s : AnswerIsRight(s) => AnswerIsRight(s)' BY <1>1, SameWanted DEF AnswerIsRight
<1>6. Scanning' <=> Scanning BY <1>1 DEF Scanning
<1>7. QED BY <1>1, <1>2, <1>3, <1>4, <1>5, <1>6 DEF RunIsSound

\* No scanner has been called yet, nor will it be if the walk has failed.
LEMMA BeforeTheScanners ==
  ASSUME RunTypes, RunIsSound, ~Scanning, ~Scanning', call' = call,
         UNCHANGED <<scan, answerOf, ch, turn>>,
         main' \in {"idle", "drain", "errs"} => main \in {"idle", "drain", "errs"}
  PROVE  RunIsSound'
<1>1. \A s \in Scs : scan[s] = "new" BY DEF RunIsSound
<1>2. call = "no" BY <1>1, ScannersAre DEF RunIsSound
<1>3. \A s \in Scs : ~Heard(s)' BY <1>1 DEF Heard
<1>4. main' \notin {"serial", "fanout"} /\ outcome' # "ok" BY DEF Scanning
<1>5. QED BY <1>1, <1>2, <1>3, <1>4, ScannersAre DEF RunIsSound

LEMMA StartKeepsRun ==
  ASSUME WalkIsSound, RunTypes, RunIsSound, StartScanners
  PROVE  RunIsSound'
<1>1. /\ main = "errs" /\ main' \in {"serial", "fanout"}
      /\ scan' = scan \/ scan' = [s \in Scs |-> "launched"]
      /\ UNCHANGED <<poolVars, turn, answerOf, ch>>
  BY DEF StartScanners
<1>2. Scanning' /\ outcome' = "none" BY StartKeepsWalk
<1>3. ~Scanning BY <1>1 DEF Scanning, RunTypes
<1>4. \A s \in Scs : scan[s] = "new" BY <1>3 DEF RunIsSound
<1>5. call = "no" /\ call' = "no"
  <2>1. call = "no" BY <1>4, ScannersAre DEF RunIsSound
  <2>2. QED BY <1>1, <2>1 DEF poolVars
<1>6. \A s \in Scs : scan'[s] \in {"new", "launched"} BY <1>1, <1>4
<1>7. ToSet(ch) = {} /\ DOMAIN ch = {}
  <2>1. ToSet(ch) = {} BY <1>4, ChannelIs
  <2>2. QED BY <2>1 DEF ToSet
<1>8. \A s \in Scs : ~Heard(s)' BY <1>6 DEF Heard
<1>9. HeardOf' = {} /\ Cardinality(HeardOf') = 0
  <2>1. HeardOf' = {} BY <1>8 DEF HeardOf
  <2>2. QED BY <2>1, FS_EmptySet
<1>10. turn' = 1 BY <1>1 DEF RunIsSound
<1>11. \A i \in DOMAIN Scanners : ~(i < turn') BY <1>10, ScannersAre
<1>12. QED BY <1>1, <1>2, <1>5, <1>6, <1>7, <1>8, <1>9, <1>10, <1>11 DEF RunIsSound

\* A scanner moves on: it is called, returns, or hands its result over.
LEMMA MovesKeepRun ==
  ASSUME NEW s \in Scs, RunTypes, RunIsSound, Scanning,
         UNCHANGED <<main, turn, outcome, collected, told, allFiles>>, expired => expired',
         \A t \in Scs \ {s} : scan'[t] = scan[t] /\ answerOf'[t] = answerOf[t],
         scan[s] # "gone", scan'[s] \in {"running", "returned", "gone"},
         scan'[s] \in {"returned", "gone"} => AnswerIsRight(s)',
         \/ ch' = ch /\ scan'[s] # "gone"
         \/ ch' = Append(ch, s) /\ scan'[s] = "gone",
         call' # "no" => call # "no" \/ s = "sast"
  PROVE  RunIsSound'
<1>1. /\ ch \in Seq(Scs) /\ ToSet(ch) \subseteq Scs /\ \A t \in ToSet(ch) : scan[t] = "gone"
  BY ChannelIs
<1>2. s \notin ToSet(ch) BY <1>1
<1>3. /\ \A i, j \in DOMAIN ch : ch[i] = ch[j] => i = j
      /\ \A i \in DOMAIN ch : scan[ch[i]] = "gone"
  BY DEF RunIsSound
<1>4. /\ \A i, j \in DOMAIN ch' : ch'[i] = ch'[j] => i = j
      /\ \A i \in DOMAIN ch' : scan'[ch'[i]] = "gone"
      /\ \A t \in ToSet(ch') : t \in ToSet(ch) \/ (t = s /\ ch' # ch)
      /\ \A t \in ToSet(ch) : t \in ToSet(ch')
      /\ scan'[s] = "gone" => s \in ToSet(ch')
  <2>0. \A i \in DOMAIN ch : ch[i] \in Scs \ {s} BY <1>1, <1>2 DEF ToSet
  <2>1. CASE ch' = ch /\ scan'[s] # "gone" BY <1>3, <2>0, <2>1
  <2>2. CASE ch' = Append(ch, s) /\ scan'[s] = "gone"
    <3>1. /\ Len(ch') = Len(ch) + 1 /\ ch' \in Seq(Scs)
          /\ \A i \in 1..Len(ch) : ch'[i] = ch[i]
          /\ ch'[Len(ch) + 1] = s
      BY <1>1, <2>2, AppendProperties
    <3>2. Len(ch) \in Nat /\ DOMAIN ch = 1..Len(ch) /\ DOMAIN ch' = 1..Len(ch')
      BY <1>1, <3>1, LenProperties
    <3>3. \A i \in DOMAIN ch' : (i \in DOMAIN ch /\ ch'[i] = ch[i]) \/ (i = Len(ch) + 1 /\ ch'[i] = s)
      BY <3>1, <3>2
    <3>4. ToSet(ch') = ToSet(ch) \cup {s} BY <1>1, <2>2, Pushed
    <3>5. \A i, j \in DOMAIN ch' : ch'[i] = ch'[j] => i = j BY <1>3, <2>0, <3>3
    <3>6. \A i \in DOMAIN ch' : scan'[ch'[i]] = "gone" BY <1>3, <2>0, <2>2, <3>3
    <3>7. ch' # ch BY <1>2, <3>4
    <3>8. QED BY <3>4, <3>5, <3>6, <3>7
  <2>3. QED BY <2>1, <2>2
<1>5. \A t \in Scs : Heard(t)' <=> Heard(t)
  <2>1. ~Heard(s) BY DEF Heard
  <2>2. ~Heard(s)' BY <1>4 DEF Heard
  <2>3. \A t \in Scs \ {s} : Heard(t)' <=> Heard(t) BY <1>4 DEF Heard
  <2>4. QED BY <2>1, <2>2, <2>3
<1>6. HeardOf' = HeardOf BY <1>5 DEF HeardOf
<1>7. Scanning' BY DEF Scanning
<1>8. \A t \in Scs : scan'[t] \in {"returned", "gone"} => AnswerIsRight(t)'
  <2>1. \A t \in Scs \ {s} : AnswerIsRight(t) => AnswerIsRight(t)' BY SameWanted DEF AnswerIsRight
  <2>2. QED BY <2>1 DEF RunIsSound
<1>9. outcome' \in {"none", "ok"} => \A t \in Scs : Heard(t)' => AnswerIsTaken(t)'
  <2>1. \A t \in Scs \ {s} : AnswerIsTaken(t) => AnswerIsTaken(t)' BY DEF AnswerIsTaken
  <2>2. ~Heard(s) BY DEF Heard
  <2>3. QED BY <1>5, <2>1, <2>2 DEF RunIsSound
<1>10. call' # "no" => scan'["sast"] \notin {"new", "launched"} BY ScannersAre DEF RunIsSound
<1>11. \A i \in DOMAIN Scanners : Scanners[i] \in Scs BY ScannersAre
<1>12. main' = "serial" => \A i \in DOMAIN Scanners : i < turn' => Heard(Scanners[i])'
  BY <1>5, <1>11 DEF RunIsSound
<1>13. /\ main' = "fanout" => Cardinality(HeardOf') = turn' - 1
       /\ outcome' = "ok" => HeardOf' = Scs
       /\ main' \in {"idle", "drain", "errs"} => turn' = 1
  BY <1>6 DEF RunIsSound
<1>14. QED BY <1>4, <1>7, <1>8, <1>9, <1>10, <1>12, <1>13 DEF RunIsSound

Hears(s) ==
  IF answerOf[s].err
  THEN Finish("scanner failed") /\ UNCHANGED <<turn, collected, told>>
  ELSE Collect(s) /\ turn' = turn + 1 /\ UNCHANGED <<main, outcome>>

\* The caller hears a scanner: it takes the result, or returns the error.
LEMMA HearingKeepsRun ==
  ASSUME NEW s \in Scs, RunTypes, RunIsSound, main \in {"serial", "fanout"},
         UNCHANGED <<poolVars, allFiles, answerOf>>,
         scan[s] \in {"returned", "gone"}, scan'[s] = "gone",
         \A t \in Scs \ {s} : scan'[t] = scan[t],
         ~Heard(s), ToSet(ch') = ToSet(ch) \ {s},
         \A i, j \in DOMAIN ch' : ch'[i] = ch'[j] => i = j,
         main = "serial" => s = Scanners[turn],
         Hears(s)
  PROVE  RunIsSound'
<1>1. outcome = "none" /\ Scanning BY DEF RunTypes, Scanning
<1>2. HeardOf' = HeardOf \cup {s}
  <2>1. Heard(s)' BY DEF Heard
  <2>2. \A t \in Scs \ {s} : Heard(t)' <=> Heard(t) BY DEF Heard
  <2>3. QED BY <2>1, <2>2 DEF HeardOf
<1>3. \A t \in Scs : Heard(t)' <=> (Heard(t) \/ t = s) BY <1>2 DEF HeardOf
<1>4. \A t \in Scs : AnswerIsRight(t)' <=> AnswerIsRight(t)
  BY SameWanted DEF AnswerIsRight, poolVars
<1>5. \A t \in Scs : scan'[t] \in {"returned", "gone"} => AnswerIsRight(t)'
  BY <1>4 DEF RunIsSound
<1>6. \A i \in DOMAIN ch' : scan'[ch'[i]] = "gone"
  <2>1. \A t \in ToSet(ch') : t \in Scs \ {s} /\ scan[t] = "gone" BY ChannelIs
  <2>2. QED BY <2>1 DEF ToSet
<1>7. call' # "no" => scan'["sast"] \notin {"new", "launched"}
  BY ScannersAre DEF RunIsSound, poolVars
<1>8. CASE answerOf[s].err
  <2>1. main' = "done" /\ outcome' = "scanner failed" BY <1>8 DEF Hears, Finish
  <2>2. QED BY <1>5, <1>6, <1>7, <2>1 DEF RunIsSound, Scanning
<1>9. CASE ~answerOf[s].err
  <2>1. Collect(s) /\ turn' = turn + 1 /\ UNCHANGED <<main, outcome>> BY <1>9 DEF Hears
  <2>2. AnswerIsTaken(s)' BY <1>9, <2>1 DEF AnswerIsTaken, Collect
  <2>3. \A t \in Scs : AnswerIsTaken(t) => AnswerIsTaken(t)' BY <2>1 DEF AnswerIsTaken, Collect
  <2>4. outcome' \in {"none", "ok"} => \A t \in Scs : Heard(t)' => AnswerIsTaken(t)'
    BY <1>1, <1>3, <2>2, <2>3 DEF RunIsSound
  <2>5. turn \in Nat
    <3>1. turn \in Nat \ {0} BY DEF RunTypes
    <3>2. QED BY <3>1
  <2>6. main' = "serial" => \A i \in DOMAIN Scanners : i < turn' => Heard(Scanners[i])'
    <3> SUFFICES ASSUME main = "serial", NEW i \in DOMAIN Scanners, i < turn'
                 PROVE  Heard(Scanners[i])'
      BY <2>1
    <3>1. i \in Nat /\ Scanners[i] \in Scs BY ScannersAre
    <3>2. i < turn \/ i = turn
      <4>1. i \in Nat /\ turn \in Nat /\ turn' = turn + 1 /\ i < turn' BY <2>1, <2>5, <3>1
      <4>2. QED BY <4>1
    <3>3. QED BY <1>3, <3>1, <3>2 DEF RunIsSound
  <2>7. main' = "fanout" => Cardinality(HeardOf') = turn' - 1
    <3>1. s \notin HeardOf BY DEF HeardOf
    <3>2. IsFiniteSet(HeardOf) /\ Cardinality(HeardOf) \in Nat BY ChannelIs
    <3>3. Cardinality(HeardOf') = Cardinality(HeardOf) + 1 BY <1>2, <3>1, <3>2, FS_AddElement
    <3>4. main = "fanout" => Cardinality(HeardOf) = turn - 1 BY DEF RunIsSound
    <3>5. turn \in Nat /\ turn' = turn + 1 /\ main' = main BY <2>1, <2>5
    <3>6. QED BY <3>2, <3>3, <3>4, <3>5
  <2>8. Scanning' /\ outcome' = "none" /\ main' \in {"serial", "fanout"} BY <1>1, <2>1 DEF Scanning
  <2>9. QED BY <1>5, <1>6, <1>7, <2>4, <2>6, <2>7, <2>8 DEF RunIsSound
<1>10. QED BY <1>8, <1>9

LEMMA ScannerStepKeepsRun ==
  ASSUME WalkIsSound, PoolIsSound(Regulars), RunTypes, RunIsSound, Handed,
         NEW s \in Scs, ScannerStep(s), expired => expired'
  PROVE  RunIsSound'
<1>1. scan \in [Scs -> {"new", "launched", "running", "returned", "gone"}] /\ answerOf \in [Scs -> Answers]
  BY DEF RunTypes, Answers
<1>2. ASSUME scan[s] # "new" \/ main = "serial" PROVE Scanning
  BY <1>2 DEF RunIsSound, Scanning
<1>3. CASE StartScanner(s)
  <2>1. /\ scan[s] \in {"new", "launched"}
        /\ scan[s] = "launched" \/ main = "serial"
        /\ scan' = [scan EXCEPT ![s] = "running"]
        /\ UNCHANGED <<main, turn, outcome, collected, told, allFiles, answerOf, ch>>
    BY <1>3 DEF StartScanner, MayStart
  <2>2. call' # "no" => call # "no" \/ s = "sast" BY <1>3 DEF StartScanner, poolVars
  <2>3. Scanning BY <1>2, <2>1
  <2>4. scan'[s] = "running" /\ \A t \in Scs \ {s} : scan'[t] = scan[t] BY <1>1, <2>1
  <2>5. scan[s] # "gone" BY <2>1
  <2>6. QED BY <2>1, <2>2, <2>3, <2>4, <2>5, MovesKeepRun
<1>4. CASE ScannerReturns(s)
  <2>1. PICK a \in AnswersOf(s) : answerOf' = [answerOf EXCEPT ![s] = a] BY <1>4 DEF ScannerReturns
  <2>2. /\ scan[s] = "running"
        /\ s = "sast" => call = "returned"
        /\ scan' = [scan EXCEPT ![s] = "returned"]
        /\ UNCHANGED <<poolVars, main, turn, outcome, collected, told, allFiles, ch>>
    BY <1>4 DEF ScannerReturns
  <2>3. Scanning BY <1>2, <2>2
  <2>4. /\ scan'[s] = "returned" /\ \A t \in Scs \ {s} : scan'[t] = scan[t] /\ answerOf'[t] = answerOf[t]
        /\ answerOf'[s] = a
    BY <1>1, <2>1, <2>2
  <2>5. AnswerIsRight(s)'
    <3>1. CASE s = "sast"
      <4>1. expired \/ WantedOf("sast") \subseteq ToSet(gathered)
        <5>1. PICK B : B = WantedOf("sast") OBVIOUS
        <5>2. AllPlaced(Regulars, B) /\ call = "returned" BY <2>2, <3>1, <5>1 DEF Handed
        <5>3. call # "no" /\ results = <<>> /\ resultsClosed BY <5>2 DEF AllPlaced
        <5>4. expired \/ B \subseteq ToSet(gathered) BY <5>2, <5>3, ReturnedIsWhole, ScannersAre
        <5>5. QED BY <5>1, <5>4
      <4>2. Accounts(a, ToSet(gathered)) BY <3>1, AnswersAre
      <4>3. expired \/ Accounts(a, WantedOf(s)) BY <3>1, <4>1, <4>2 DEF Accounts
      <4>4. expired' = expired BY <2>2 DEF poolVars
      <4>5. QED BY <2>2, <2>4, <4>3, <4>4, SameWanted DEF AnswerIsRight
    <3>2. CASE s # "sast"
      <4>1. a.err \/ Accounts(a, WantedOf(s)) BY <3>2, AnswersAre
      <4>2. QED BY <2>2, <2>4, <4>1, SameWanted DEF AnswerIsRight
    <3>3. QED BY <3>1, <3>2
  <2>6. call' # "no" => call # "no" BY <2>2 DEF poolVars
  <2>7. QED BY <2>2, <2>3, <2>4, <2>5, <2>6, MovesKeepRun
<1>5. CASE Deliver(s)
  <2>1. /\ scan[s] = "returned" /\ scan' = [scan EXCEPT ![s] = "gone"] /\ ch' = Append(ch, s)
        /\ UNCHANGED <<poolVars, main, turn, outcome, collected, told, allFiles, answerOf>>
    BY <1>5 DEF Deliver
  <2>2. Scanning BY <1>2, <2>1
  <2>3. scan'[s] = "gone" /\ \A t \in Scs \ {s} : scan'[t] = scan[t] BY <1>1, <2>1
  <2>4. AnswerIsRight(s)'
    <3>1. AnswerIsRight(s) BY <2>1 DEF RunIsSound
    <3>2. QED BY <2>1, <3>1, SameWanted DEF AnswerIsRight
  <2>5. call' # "no" => call # "no" BY <2>1 DEF poolVars
  <2>6. QED BY <2>1, <2>2, <2>3, <2>4, <2>5, MovesKeepRun
<1>6. QED BY <1>3, <1>4, <1>5 DEF ScannerStep

LEMMA SerialKeepsRun ==
  ASSUME RunTypes, RunIsSound, SerialNext
  PROVE  RunIsSound'
<1>1. PICK s : s = Scanners[turn] OBVIOUS
<1>2. /\ main = "serial" /\ s \in Scs /\ scan[s] = "returned" /\ scan' = [scan EXCEPT ![s] = "gone"]
      /\ UNCHANGED <<poolVars, allFiles, answerOf, ch>> /\ Hears(s)
  BY <1>1, ScannersAre DEF SerialNext, Hears
<1>3. s \notin ToSet(ch) /\ ~Heard(s) BY <1>2, ChannelIs DEF Heard
<1>4. ToSet(ch') = ToSet(ch) \ {s} BY <1>2, <1>3
<1>5. \A i, j \in DOMAIN ch' : ch'[i] = ch'[j] => i = j BY <1>2 DEF RunIsSound
<1>6. scan'[s] = "gone" /\ \A t \in Scs \ {s} : scan'[t] = scan[t] BY <1>2 DEF RunTypes
<1>7. QED BY <1>1, <1>2, <1>3, <1>4, <1>5, <1>6, HearingKeepsRun

LEMMA ReceiveKeepsRun ==
  ASSUME RunTypes, RunIsSound, Receive
  PROVE  RunIsSound'
<1>1. PICK s : s = Head(ch) OBVIOUS
<1>2. main = "fanout" /\ ch # <<>> /\ ch' = Tail(ch) /\ UNCHANGED <<poolVars, allFiles, answerOf, scan>> /\ Hears(s)
  BY <1>1 DEF Receive, Hears
<1>3. ch \in Seq(Scs) /\ \A i, j \in DOMAIN ch : ch[i] = ch[j] => i = j BY ChannelIs DEF RunIsSound
<1>4. /\ s \in Scs /\ ToSet(ch) = {s} \cup ToSet(ch')
      /\ s \notin ToSet(ch') /\ \A i, j \in DOMAIN ch' : ch'[i] = ch'[j] => i = j
  <2>1. DOMAIN ch = 1..Len(ch) BY <1>3, LenProperties
  <2>2. Once(ch) BY <1>3, <2>1 DEF Once
  <2>3. Once(ch') /\ Without(ch', s) /\ ch' \in Seq(Scs) /\ s \in Scs BY <1>1, <1>2, <1>3, <2>2, HeadAndTail
  <2>4. DOMAIN ch' = 1..Len(ch') BY <2>3, LenProperties
  <2>5. ToSet(ch) = {s} \cup ToSet(ch') BY <1>1, <1>2, <1>3, Popped
  <2>6. QED BY <2>3, <2>4, <2>5 DEF Once, Without, ToSet
<1>5. scan[s] = "gone" /\ ~Heard(s) BY <1>4, ChannelIs DEF Heard
<1>6. QED BY <1>2, <1>4, <1>5, HearingKeepsRun

\* After the last turn every scanner has been heard.
LEMMA AllAreHeard ==
  ASSUME RunTypes, RunIsSound, RunReturns
  PROVE  HeardOf = Scs
<1>0. main \in {"serial", "fanout"} /\ turn > Len(Scanners) BY DEF RunReturns
<1>1. turn \in Nat /\ Len(Scanners) \in Nat
  <2>1. turn \in Nat \ {0} BY DEF RunTypes
  <2>2. QED BY <2>1, ScannersAre
<1>2. CASE main = "serial"
  <2>1. \A i \in DOMAIN Scanners : i < turn BY <1>0, <1>1, ScannersAre
  <2>2. QED BY <1>2, <2>1, ScannersAre DEF RunIsSound, HeardOf
<1>3. CASE main = "fanout"
  <2>1. Cardinality(HeardOf) = turn - 1 BY <1>3 DEF RunIsSound
  <2>2. IsFiniteSet(Scs) /\ Cardinality(Scs) \in Nat /\ Cardinality(Scs) <= Len(Scanners) BY ScannersAre
  <2>3. HeardOf \in SUBSET Scs BY ChannelIs
  <2>4. Cardinality(HeardOf) <= Cardinality(Scs) BY <2>2, <2>3, FS_Subset
  <2>5. Cardinality(HeardOf) = Cardinality(Scs)
    <3>1. turn > Len(Scanners) BY <1>0
    <3>2. QED BY <1>1, <2>1, <2>2, <2>4, <3>1
  <2>6. QED BY <2>2, <2>3, <2>5, FS_Subset
<1>4. QED BY <1>0, <1>2, <1>3

\* Run returns a result when it has heard them all.
LEMMA ReturnKeepsRun ==
  ASSUME RunTypes, RunIsSound, RunReturns
  PROVE  RunIsSound'
<1>1. /\ main \in {"serial", "fanout"} /\ turn > Len(Scanners) /\ main' = "done" /\ outcome' = "ok"
      /\ UNCHANGED <<poolVars, allFiles, turn, scan, answerOf, ch, collected, told>>
  BY DEF RunReturns, Finish
<1>2. HeardOf = Scs BY AllAreHeard
<1>3. Scanning /\ outcome = "none" BY <1>1 DEF Scanning, RunTypes
<1>4. \A t \in Scs : Heard(t)' <=> Heard(t) BY <1>1 DEF Heard
<1>5. HeardOf' = Scs BY <1>2, <1>4 DEF HeardOf
<1>6. \A t \in Scs : (AnswerIsTaken(t) => AnswerIsTaken(t)') /\ (AnswerIsRight(t) => AnswerIsRight(t)')
  BY <1>1, SameWanted DEF AnswerIsTaken, AnswerIsRight, poolVars
<1>7. QED BY <1>1, <1>3, <1>4, <1>5, <1>6 DEF RunIsSound, Scanning, poolVars

LEMMA StepsKeepRun ==
  ASSUME WalkIsSound, PoolIsSound(Regulars), RunTypes, RunIsSound, Handed,
         PipelineNext \/ UNCHANGED allVars
  PROVE  RunIsSound'
<1>1. expired => expired' BY PoolSideOfSteps
<1>3. CASE Walk \/ UNCHANGED allVars
  <2>1. UNCHANGED runVars /\ UNCHANGED poolVars BY <1>3 DEF Walk, allVars
  <2>2. call' = call BY <2>1 DEF poolVars
  <2>3. QED BY <1>1, <2>1, <2>2, OthersKeepRun
<1>4. CASE Pool(ScanStep) \/ Pool(Expire)
  <2>1. UNCHANGED runVars /\ (ScanStep \/ Expire) BY <1>4 DEF Pool
  <2>2. call' # "no" => call # "no"
    BY <2>1 DEF ScanStep, Expire, WorkerStep, TakeFile, LeaveQueue, CheckDeadline, ProcessFile, SendResult,
                CloseResults, Gather, ReturnScan
  <2>3. QED BY <1>1, <2>1, <2>2, OthersKeepRun
<1>5. CASE Run \/ Drain \/ DrainEnds \/ WalkFailed
  <2>1. /\ main \in {"idle", "drain", "errs"} /\ UNCHANGED <<scan, answerOf, ch, turn>>
        /\ call' = call
        /\ \/ main' \in {"drain", "errs"} /\ outcome' = outcome
           \/ main' = "done" /\ outcome' = "walk failed"
    BY <1>5 DEF Run, Drain, DrainEnds, WalkFailed, Finish, poolVars
  <2>2. ~Scanning /\ ~Scanning' BY <2>1 DEF Scanning, RunTypes
  <2>3. QED BY <2>1, <2>2, BeforeTheScanners
<1>6. CASE StartScanners BY <1>6, StartKeepsRun
<1>7. CASE \E s \in Scs : ScannerStep(s) BY <1>1, <1>7, ScannerStepKeepsRun
<1>8. CASE SerialNext \/ Receive \/ RunReturns
  BY <1>8, SerialKeepsRun, ReceiveKeepsRun, ReturnKeepsRun
<1>9. QED BY <1>3, <1>4, <1>5, <1>6, <1>7, <1>8 DEF PipelineNext, MainStep

LEMMA StepsKeepWalk ==
  ASSUME WalkIsSound, RunTypes, PipelineNext \/ UNCHANGED allVars
  PROVE  WalkIsSound'
<1>1. CASE Walk
  <2>1. WalkerStep /\ UNCHANGED <<main, outcome, allFiles>> BY <1>1 DEF Walk, runVars
  <2>2. QED BY <2>1, WalkerKeepsWalk
<1>2. CASE Drain BY <1>2, DrainKeepsWalk
<1>3. CASE StartScanners BY <1>3, StartKeepsWalk
<1>4. CASE Run \/ DrainEnds \/ WalkFailed
  <2>1. /\ UNCHANGED <<walkerVars, allFiles>> /\ main \in {"idle", "drain", "errs"} /\ outcome = "none"
        /\ \/ main = "idle" /\ main' = "drain" /\ outcome' = outcome
           \/ main' = "errs" /\ outcome' = outcome /\ entries = <<>> /\ walking = "no"
           \/ main = "errs" /\ main' = "done" /\ outcome' = "walk failed"
    BY <1>4 DEF Run, DrainEnds, WalkFailed, Finish, RunTypes
  <2>2. ~Scanning' BY <2>1 DEF Scanning
  <2>3. QED BY <2>1, <2>2, OthersKeepWalk
<1>5. CASE SerialNext \/ Receive \/ RunReturns
  <2>1. /\ UNCHANGED <<walkerVars, allFiles>> /\ main \in {"serial", "fanout"}
        /\ main' = main \/ main' = "done"
    BY <1>5 DEF SerialNext, Receive, RunReturns, Finish
  <2>2. Scanning BY <2>1 DEF Scanning
  <2>3. QED BY <2>1, <2>2, OthersKeepWalk
<1>6. CASE \/ \E s \in Scs : ScannerStep(s)
           \/ Pool(ScanStep) \/ Pool(Expire) \/ UNCHANGED allVars
  <2>1. UNCHANGED <<walkerVars, allFiles, main, outcome>>
    BY <1>6 DEF ScannerStep, StartScanner, ScannerReturns, Deliver, Pool, runVars, allVars
  <2>2. Scanning' <=> Scanning BY <2>1 DEF Scanning
  <2>3. QED BY <2>1, <2>2, OthersKeepWalk
<1>7. QED BY <1>1, <1>2, <1>3, <1>4, <1>5, <1>6 DEF PipelineNext, MainStep

------------------------------------------------------------------------------
(* The inductive invariant. *)

Flags ==
  /\ resultsClosed \in BOOLEAN /\ expired \in BOOLEAN
  /\ call \in {"no", "running", "returned"}

PipelineInv ==
  /\ Flags /\ PoolIsSound(Regulars) /\ Handed
  /\ WalkIsSound /\ RunTypes /\ RunIsSound

LEMMA FirstState == PipelineInit => PipelineInv
<1> SUFFICES ASSUME PipelineInit PROVE PipelineInv OBVIOUS
<1>1. PoolInit /\ call = "no" BY DEF PipelineInit, PoolInit
<1>2. Flags BY <1>1 DEF PoolInit, Flags
<1>3. PoolIsSound(Regulars) BY <1>1, SoundAtFirst
<1>4. Handed BY <1>1 DEF Handed, AllPlaced
<1>5. WalkIsSound BY WalkStart
<1>6. /\ main = "idle" /\ outcome = "none" /\ turn = 1 /\ ch = <<>> /\ collected = {} /\ told = {}
      /\ team \in (SUBSET Workers) \ {{}}
      /\ scan = [s \in Scs |-> "new"] /\ answerOf = [s \in Scs |-> NoAnswer]
  BY DEF PipelineInit
<1>7. RunTypes
  <2>1. NoAnswer \in Answers BY DEF NoAnswer, Answers
  <2>2. QED BY <1>6, <2>1 DEF RunTypes
<1>8. RunIsSound
  <2>1. ~Scanning BY <1>6 DEF Scanning
  <2>2. DOMAIN ch = {} BY <1>6
  <2>3. \A s \in Scs : ~Heard(s) BY <1>6 DEF Heard
  <2>4. QED BY <1>1, <1>6, <2>1, <2>2, <2>3 DEF RunIsSound
<1>9. QED BY <1>2, <1>3, <1>4, <1>5, <1>7, <1>8 DEF PipelineInv

LEMMA NextState == PipelineInv /\ [PipelineNext]_allVars => PipelineInv' /\ [PoolNext(Regulars)]_poolVars
<1> SUFFICES ASSUME PipelineInv, PipelineNext \/ UNCHANGED allVars
             PROVE  PipelineInv' /\ [PoolNext(Regulars)]_poolVars
  OBVIOUS
<1>1. Flags /\ PoolIsSound(Regulars) /\ Handed /\ WalkIsSound /\ RunTypes /\ RunIsSound BY DEF PipelineInv
<1>2. Flags'
  BY <1>1, StepsOnThePool
  DEF Flags, poolVars, StartScan, Expire, ScanStep, WorkerStep, TakeFile, LeaveQueue, CheckDeadline,
      ProcessFile, SendResult, CloseResults, Gather, ReturnScan
<1>3. PoolIsSound(Regulars)' /\ [PoolNext(Regulars)]_poolVars BY <1>1, RunKeepsPool
<1>4. Handed' BY <1>1, RunKeepsPlaces
<1>5. WalkIsSound' BY <1>1, StepsKeepWalk
<1>6. RunTypes' BY <1>1, StepsKeepRunTypes
<1>7. RunIsSound' BY <1>1, StepsKeepRun
<1>8. QED BY <1>2, <1>3, <1>4, <1>5, <1>6, <1>7 DEF PipelineInv

LEMMA PipelineInvariance == PipelineSpec => []PipelineInv
BY FirstState, NextState, PTL DEF PipelineSpec

------------------------------------------------------------------------------
(* The theorems. *)

\* In every state of every run: nothing but regular files is listed, queued,
\* sent or collected, and the channels stay within their capacities.
THEOREM PipelineTypeCorrect == PipelineSpec => []PipelineTypeOK
<1>1. PipelineInv => PipelineTypeOK
  <2> SUFFICES ASSUME PipelineInv PROVE PipelineTypeOK OBVIOUS
  <2>1. Flags /\ PoolTypes(Regulars) /\ WalkTypes /\ RunTypes
    BY DEF PipelineInv, PoolIsSound, WalkIsSound
  <2>2. PoolTypeOK(Regulars) BY <2>1 DEF PoolTypeOK, PoolTypes, Flags, Busy
  <2>3. ToSet(entries) \subseteq FileEntries /\ ToSet(allFiles) \subseteq FileEntries
    BY <2>1, SetOf DEF WalkTypes
  <2>4. QED BY <2>1, <2>2, <2>3 DEF PipelineTypeOK, WalkTypes, RunTypes, FileEntries
<1>2. QED BY <1>1, PipelineInvariance, PTL

\* Whatever the tree, the filters and the unreadable paths: when the walk is
\* over and no error was met, the list holds the files to be scanned, each once,
\* and tells the ones of an asset directory apart.
THEOREM WalksFindTheTree == PipelineSpec => []WalkFindsTheTree
<1>1. PipelineInv => WalkFindsTheTree
  <2> SUFFICES ASSUME PipelineInv, main = "errs", failed = {}
               PROVE  /\ ToSet(allFiles) = {[path |-> f, asset |-> IsAsset(f)] : f \in Scannable}
                      /\ Len(allFiles) = Cardinality(Scannable)
    BY DEF WalkFindsTheTree
  <2>1. WalkTypes /\ ListIsRight /\ ListIsComplete /\ WalkEnds BY DEF PipelineInv, WalkIsSound
  <2>2. ToSet(entries) = {} /\ ToSet(todo) = {}
    <3>1. entries = <<>> /\ todo = <<>> BY <2>1 DEF WalkEnds
    <3>2. DOMAIN <<>> = {} OBVIOUS
    <3>3. QED BY <3>1, <3>2 DEF ToSet
  <2>3. \A f \in Scannable : Listed(allFiles, f)
    <3>1. \A f \in Scannable : Found(f) BY <2>1 DEF ListIsComplete
    <3>2. QED BY <2>2, <3>1 DEF Found, Listed
  <2>4. allFiles \in Seq(FileEntries) BY <2>1 DEF WalkTypes
  <2>5. \A e \in ToSet(allFiles) : /\ e \in FileEntries /\ e.path \in Scannable
                                   /\ e.asset <=> IsAsset(e.path)
    <3>1. ToSet(allFiles) \subseteq FileEntries BY <2>4, SetOf
    <3>2. QED BY <2>1, <3>1 DEF ListIsRight, EntryIsRight
  <2>6. \A e \in ToSet(allFiles) : e = [path |-> e.path, asset |-> IsAsset(e.path)]
    <3> TAKE e \in ToSet(allFiles)
    <3>1. e.asset = IsAsset(e.path) BY <2>5 DEF FileEntries, IsAsset
    <3>2. QED BY <2>5, <3>1 DEF FileEntries
  <2>7. ToSet(allFiles) = {[path |-> f, asset |-> IsAsset(f)] : f \in Scannable}
    <3>1. \A f \in Scannable : [path |-> f, asset |-> IsAsset(f)] \in ToSet(allFiles)
      BY <2>3, <2>6 DEF Listed
    <3>2. QED BY <2>5, <2>6, <3>1
  <2>8. Len(allFiles) = Cardinality(Scannable)
    <3> DEFINE D == DOMAIN allFiles
               at == [f \in Scannable |-> CHOOSE i \in D : allFiles[i].path = f]
    <3>1. \A f \in Scannable : \E i \in D : allFiles[i].path = f BY <2>3 DEF Listed, ToSet
    <3>2. \A f \in Scannable : at[f] \in D /\ allFiles[at[f]].path = f BY <3>1
    <3>3. \A i \in D : allFiles[i].path \in Scannable BY <2>5 DEF ToSet
    <3>4. \A i, j \in D : allFiles[i].path = allFiles[j].path => i = j
      BY <2>1 DEF ListIsRight, PathsOnce
    <3>5. D = 1..Len(allFiles) /\ Len(allFiles) \in Nat BY <2>4, LenProperties
    <3>6. IsFiniteSet(D) /\ Cardinality(D) = Len(allFiles)
      <4>1. Len(allFiles) \in Int /\ 1 \in Int BY <3>5
      <4>2. /\ IsFiniteSet(1..Len(allFiles))
            /\ Cardinality(1..Len(allFiles)) = IF 1 > Len(allFiles) THEN 0 ELSE Len(allFiles) - 1 + 1
        BY <4>1, FS_Interval
      <4>3. QED BY <3>5, <4>2
    <3>7. at \in [Scannable -> D] BY <3>2
    <3> HIDE DEF at, D
    <3>8. \A f, g \in Scannable : at[f] = at[g] => f = g BY <3>2
    <3>9. \A i \in D : \E f \in Scannable : at[f] = i BY <3>2, <3>3, <3>4
    <3>10. Cardinality(Scannable) = Cardinality(D) BY <3>6, <3>7, <3>8, <3>9, CountedThrough
    <3>11. QED BY <3>6, <3>10
  <2>9. QED BY <2>7, <2>8
<1>2. QED BY <1>1, PipelineInvariance, PTL

\* Run is a caller the worker pool can rely on: it calls Scan once at most, with
\* distinct files and with at least one worker, and touches nothing of the pool.
THEOREM RunUsesThePool == PipelineSpec => PoolSpec(Regulars)
<1>1. PipelineInit => PoolInit BY DEF PipelineInit
<1>2. QED BY <1>1, NextState, PipelineInvariance, PTL DEF PipelineSpec, PoolSpec

\* So no two of its workers have the same file ...
THEOREM RunProcessesOnce == PipelineSpec => []EachFileOnce
<1>1. PoolSpec(Regulars) => []EachFileOnce BY FilesAreProcessedOnce, ScannersAre
<1>2. QED BY <1>1, RunUsesThePool, PTL

\* ... and none of them waits for Run to take a result.
THEOREM RunNeverBlocksWorkers == PipelineSpec => []SendsAreFree
<1>1. PoolSpec(Regulars) => []SendsAreFree BY ResultsNeverWait, ScannersAre
<1>2. QED BY <1>1, RunUsesThePool, PTL

\* What the workers and the gathering loop do amounts to one call: results of
\* files of the batch, one at a time and each once, and a return with all of
\* them unless the deadline has passed.
BatchOf == IF call = "no" THEN {} ELSE WantedOf("sast")

LEMMA OneCallSteps ==
  ASSUME PipelineInv, PipelineNext \/ UNCHANGED allVars
  PROVE  Batch!Next \/ UNCHANGED <<BatchOf, ToSet(gathered), call, expired>>
<1>1. /\ Flags /\ PoolIsSound(Regulars) /\ Handed /\ WalkIsSound /\ RunTypes /\ RunIsSound
      /\ PoolTypes(Regulars) /\ OnePlace /\ Room
  BY DEF PipelineInv, PoolIsSound
<1>2. BatchOf = IF call = "no" THEN {} ELSE ToSet(PathsOf(Accepted("sast"))) BY DEF BatchOf, WantedOf
<1>3. NoFile \notin Regulars /\ "sast" \in Scs BY ScannersAre
<1>4. allFiles' = allFiles => WantedOf("sast")' = WantedOf("sast") BY SameWanted
<1>5. CASE UNCHANGED poolVars /\ (allFiles' = allFiles \/ Drain \/ StartScanners)
  <2>1. UNCHANGED <<ToSet(gathered), call, expired>> BY <1>5 DEF poolVars
  <2>2. Drain \/ StartScanners => call = "no"
    <3>1. Drain \/ StartScanners => ~Scanning BY <1>1 DEF Drain, StartScanners, Scanning, RunTypes
    <3>2. QED BY <1>1, <1>3, <3>1 DEF RunIsSound
  <2>3. BatchOf' = BatchOf BY <1>4, <1>5, <2>1, <2>2 DEF BatchOf
  <2>4. QED BY <2>1, <2>3
<1>6. CASE Expire /\ allFiles' = allFiles
  <2>1. expired' = TRUE /\ UNCHANGED <<gathered, call>> BY <1>6 DEF Expire
  <2>2. BatchOf' = BatchOf BY <1>4, <1>6, <2>1 DEF BatchOf
  <2>3. Batch!Expire BY <2>1, <2>2 DEF Batch!Expire, BatchOf, WantedOf
  <2>4. QED BY <2>3 DEF Batch!Next
<1>7. CASE StartScan(PathsOf(Accepted("sast")), team) /\ allFiles' = allFiles
  <2>1. call = "no" /\ call' = "running" /\ UNCHANGED <<gathered, expired>> BY <1>7 DEF StartScan
  <2>2. WantedOf("sast")' \in SUBSET Regulars BY <1>1, <1>3, <1>4, <1>7, WantedIs
  <2>3. BatchOf' \in SUBSET Regulars BY <2>1, <2>2 DEF BatchOf
  <2>4. Batch!Call BY <2>1, <2>3 DEF Batch!Call, BatchOf, WantedOf
  <2>5. QED BY <2>4 DEF Batch!Next
<1>8. CASE ((\E w \in Workers : WorkerStep(w)) \/ CloseResults) /\ allFiles' = allFiles
  <2>1. UNCHANGED <<gathered, call, expired>>
    BY <1>8 DEF WorkerStep, TakeFile, LeaveQueue, CheckDeadline, ProcessFile, SendResult, CloseResults
  <2>2. QED BY <1>4, <1>8, <2>1 DEF BatchOf
<1>9. CASE Gather /\ allFiles' = allFiles
  <2>1. /\ call = "running" /\ results # <<>> /\ gathered' = Append(gathered, Head(results))
        /\ UNCHANGED <<call, expired>>
    BY <1>9 DEF Gather
  <2>2. PICK f : f = Head(results) OBVIOUS
  <2>3. /\ f \in Regulars /\ results \in Seq(Regulars) /\ gathered \in Seq(Regulars)
        /\ \E k \in 1..Len(results) : results[k] = f
    BY <1>1, <2>1, <2>2, HeadAndTail DEF PoolTypes, OnePlace
  <2>4. ToSet(gathered') = ToSet(gathered) \cup {f} BY <2>1, <2>2, <2>3, Pushed
  <2>5. f \in BatchOf
    <3>1. Placed(f) BY <2>3 DEF Placed, In
    <3>2. PICK B : B = WantedOf("sast") OBVIOUS
    <3>3. AllPlaced(Regulars, B) BY <1>1, <3>2 DEF Handed
    <3>4. f \in B BY <2>1, <2>3, <3>1, <3>3 DEF AllPlaced
    <3>5. QED BY <2>1, <3>2, <3>4 DEF BatchOf
  <2>6. f \notin ToSet(gathered)
    <3>1. DOMAIN gathered = 1..Len(gathered) BY <2>3, LenProperties
    <3>2. \A j \in 1..Len(gathered) : gathered[j] # f BY <1>1, <2>3 DEF OnePlace, Apart
    <3>3. QED BY <3>1, <3>2 DEF ToSet
  <2>7. BatchOf' = BatchOf BY <1>4, <1>9, <2>1 DEF BatchOf
  <2>8. Batch!Report BY <2>1, <2>4, <2>5, <2>6, <2>7 DEF Batch!Report, BatchOf, WantedOf
  <2>9. QED BY <2>8 DEF Batch!Next
<1>10. CASE ReturnScan /\ allFiles' = allFiles
  <2>1. /\ call = "running" /\ results = <<>> /\ resultsClosed /\ call' = "returned"
        /\ UNCHANGED <<gathered, expired>>
    BY <1>10 DEF ReturnScan
  <2>2. BatchOf' = BatchOf /\ BatchOf = WantedOf("sast") BY <1>4, <1>10, <2>1 DEF BatchOf
  <2>3. PICK B : B = WantedOf("sast") OBVIOUS
  <2>4. AllPlaced(Regulars, B) BY <1>1, <2>3 DEF Handed
  <2>5. expired \/ B \subseteq ToSet(gathered) BY <1>1, <1>3, <2>1, <2>4, ReturnedIsWhole
  <2>6. ToSet(gathered) \subseteq B
    <3>1. gathered \in Seq(Regulars) BY <1>1 DEF PoolTypes
    <3>2. \A f \in ToSet(gathered) : f \in Regulars /\ In(gathered, f)
      <4>1. DOMAIN gathered = 1..Len(gathered) BY <3>1, LenProperties
      <4>2. QED BY <3>1, <4>1, SetOf DEF In, ToSet
    <3>3. QED BY <2>1, <2>4, <3>2 DEF AllPlaced, Placed
  <2>7. ToSet(gathered) = BatchOf \/ expired BY <2>2, <2>3, <2>5, <2>6
  <2>8. Batch!Return BY <2>1, <2>2, <2>7 DEF Batch!Return, BatchOf, WantedOf
  <2>9. QED BY <2>8 DEF Batch!Next
<1>11. QED BY <1>5, <1>6, <1>7, <1>8, <1>9, <1>10, StepsOnThePool DEF ScanStep

\* Whatever the workers do and whenever the deadline passes, they implement that
\* one call of Scan.
THEOREM WorkersImplementOneCall == PipelineSpec => WorkersAreOneCall
<1>1. PipelineInit => Batch!Init
  <2> SUFFICES ASSUME PipelineInit PROVE Batch!Init OBVIOUS
  <2>1. gathered = <<>> /\ call = "no" /\ expired = FALSE BY DEF PipelineInit, PoolInit
  <2>2. DOMAIN <<>> = {} OBVIOUS
  <2>3. ToSet(gathered) = {} BY <2>1, <2>2 DEF ToSet
  <2>4. QED BY <2>1, <2>3 DEF Batch!Init
<1>2. PipelineInv /\ [PipelineNext]_allVars => [Batch!Next]_Batch!vars
  BY OneCallSteps DEF Batch!vars, BatchOf, WantedOf
<1>3. QED BY <1>1, <1>2, PipelineInvariance, PTL DEF PipelineSpec, WorkersAreOneCall, Batch!Spec

------------------------------------------------------------------------------
(* Run's promise. *)

\* When the caller has heard every scanner, what is missing has been told of or
\* could not be read, or the deadline has passed.
LEMMA NoSilentGap ==
  ASSUME PipelineInv, RunReturns, NEW p \in Missing, p \notin told, p \notin PassedOver
  PROVE  expired
<1>1. WalkIsSound /\ RunTypes /\ RunIsSound BY DEF PipelineInv
<1>2. Scanning /\ outcome = "none" BY <1>1 DEF RunReturns, Scanning, RunTypes
<1>3. p \in Owed /\ p \notin collected BY DEF Missing
<1>4. p[1] \in Scs /\ p[2] \in Regulars /\ p[2] \in WantedOf(p[1]) BY <1>1, <1>2, <1>3, OwedIsWanted
<1>5. Heard(p[1]) BY <1>1, <1>4, AllAreHeard DEF HeardOf
<1>6. AnswerIsTaken(p[1]) /\ AnswerIsRight(p[1]) BY <1>1, <1>2, <1>4, <1>5 DEF RunIsSound, Heard
<1>7. p = <<p[1], p[2]>> BY <1>3 DEF Owed
<1>8. p[2] \notin answerOf[p[1]].files \cup answerOf[p[1]].told BY <1>3, <1>6, <1>7 DEF AnswerIsTaken
<1>9. p[2] \notin answerOf[p[1]].unread BY DEF PassedOver
<1>10. QED BY <1>4, <1>6, <1>8, <1>9 DEF AnswerIsTaken, AnswerIsRight, Accounts

Running == CASE main = "idle" -> "no" [] main = "done" -> "returned" [] OTHER -> "yes"
Answered ==
  CASE outcome = "none" -> "none"
    [] outcome # "none" /\ outcome # "ok" -> "error"
    [] OTHER -> IF Missing = {} THEN "whole"
                ELSE IF Missing \subseteq told THEN "told"
                ELSE IF Missing \subseteq told \cup PassedOver THEN "unread"
                ELSE "gap"

\* The steps at which Run is called or returns, and all the others.
LEMMA StepsOfRun ==
  ASSUME RunTypes, PipelineNext \/ UNCHANGED allVars
  PROVE  \/ Run
         \/ WalkFailed
         \/ RunReturns
         \/ /\ main \in {"serial", "fanout"} /\ main' = "done" /\ outcome' = "scanner failed"
            /\ UNCHANGED expired
         \/ /\ main \notin {"idle", "done"} /\ main' \notin {"idle", "done"}
            /\ outcome = "none" /\ outcome' = "none" /\ UNCHANGED expired
         \/ /\ UNCHANGED <<main, outcome, collected, told>>
            /\ answerOf' = answerOf \/ \E s \in Scs : scan[s] = "running"
            /\ expired' = expired \/ expired' = TRUE
<1>1. CASE Drain \/ DrainEnds \/ StartScanners
  BY <1>1 DEF Drain, DrainEnds, StartScanners, RunTypes, poolVars
<1>2. CASE SerialNext \/ Receive BY <1>2 DEF SerialNext, Receive, Finish, RunTypes, poolVars
<1>3. CASE (\E s \in Scs : ScannerStep(s)) \/ Walk \/ Pool(ScanStep) \/ Pool(Expire) \/ UNCHANGED allVars
  <2>1. /\ UNCHANGED <<main, outcome, collected, told>>
        /\ answerOf' = answerOf \/ \E s \in Scs : scan[s] = "running"
    BY <1>3 DEF ScannerStep, StartScanner, ScannerReturns, Deliver, Walk, Pool, runVars, allVars
  <2>2. expired' = expired \/ expired' = TRUE
    BY StepsOnThePool
    DEF poolVars, StartScan, Expire, ScanStep, WorkerStep, TakeFile, LeaveQueue, CheckDeadline, ProcessFile,
        SendResult, CloseResults, Gather, ReturnScan
  <2>3. QED BY <2>1, <2>2
<1>4. QED BY <1>1, <1>2, <1>3 DEF PipelineNext, MainStep

LEMMA PromisedSteps ==
  ASSUME PipelineInv, PipelineNext \/ UNCHANGED allVars
  PROVE  Promise!Next \/ UNCHANGED <<Running, Answered, expired>>
<1>1. RunTypes BY DEF PipelineInv
<1>2. main = "done" <=> outcome # "none" BY <1>1 DEF RunTypes
<1>3. ASSUME NEW a \in {"error", "whole", "told", "unread"} \cup (IF expired THEN {"gap"} ELSE {}),
             Running = "yes", Running' = "returned", Answered' = a, UNCHANGED expired
      PROVE  Promise!Next
  <2>1. Promise!Return BY <1>3 DEF Promise!Return, Promise!Answers, Running, Answered
  <2>2. QED BY <2>1 DEF Promise!Next
<1>4. CASE Run
  <2>1. main = "idle" /\ main' = "drain" /\ UNCHANGED <<outcome, expired>> BY <1>4 DEF Run, poolVars
  <2>2. Running = "no" /\ Running' = "yes" BY <2>1 DEF Running
  <2>3. Answered = "none" /\ Answered' = "none" BY <1>2, <2>1 DEF Answered
  <2>4. Promise!Start BY <2>1, <2>2, <2>3 DEF Promise!Start, Running, Answered
  <2>5. QED BY <2>4 DEF Promise!Next
<1>5. CASE \/ WalkFailed
           \/ /\ main \in {"serial", "fanout"} /\ main' = "done" /\ outcome' = "scanner failed"
              /\ UNCHANGED expired
  <2>1. /\ main \notin {"idle", "done"} /\ main' = "done" /\ outcome' \in {"walk failed", "scanner failed"}
        /\ UNCHANGED expired
    BY <1>5 DEF WalkFailed, Finish, poolVars
  <2>2. Running = "yes" /\ Running' = "returned" BY <2>1 DEF Running
  <2>3. Answered' = "error" BY <2>1 DEF Answered
  <2>4. QED BY <1>3, <2>1, <2>2, <2>3
<1>6. CASE RunReturns
  <2>1. /\ main \in {"serial", "fanout"} /\ main' = "done" /\ outcome' = "ok"
        /\ UNCHANGED <<collected, told, answerOf, expired>>
    BY <1>6 DEF RunReturns, Finish, poolVars
  <2>2. Running = "yes" /\ Running' = "returned" BY <2>1 DEF Running
  <2>3. Missing' = Missing /\ PassedOver' = PassedOver BY <2>1 DEF Missing, PassedOver
  <2>4. CASE Missing \subseteq told \cup PassedOver
    <3>1. Answered' \in {"whole", "told", "unread"} BY <2>1, <2>3, <2>4 DEF Answered
    <3>2. QED BY <1>3, <2>1, <2>2, <3>1
  <2>5. CASE ~(Missing \subseteq told \cup PassedOver)
    <3>1. Answered' \in {"whole", "told", "unread", "gap"} BY <2>1 DEF Answered
    <3>2. PICK p \in Missing : p \notin told /\ p \notin PassedOver BY <2>5
    <3>3. expired BY <1>6, <3>2, NoSilentGap
    <3>4. QED BY <1>3, <2>1, <2>2, <3>1, <3>3
  <2>6. QED BY <2>4, <2>5
<1>7. CASE /\ main \notin {"idle", "done"} /\ main' \notin {"idle", "done"}
           /\ outcome = "none" /\ outcome' = "none" /\ UNCHANGED expired
  <2>1. Running = "yes" /\ Running' = "yes" BY <1>7 DEF Running
  <2>2. Answered = "none" /\ Answered' = "none" BY <1>7 DEF Answered
  <2>3. QED BY <1>7, <2>1, <2>2
<1>8. CASE /\ UNCHANGED <<main, outcome, collected, told>>
           /\ answerOf' = answerOf \/ \E s \in Scs : scan[s] = "running"
           /\ expired' = expired \/ expired' = TRUE
  <2>1. Missing' = Missing BY <1>8 DEF Missing
  <2>2. Running' = Running BY <1>8 DEF Running
  <2>3. Answered' = Answered
    <3>1. CASE outcome = "ok"
      <4>1. \A s \in Scs : scan[s] = "gone" BY <3>1 DEF PipelineInv, RunIsSound, HeardOf, Heard
      <4>2. answerOf' = answerOf BY <1>8, <4>1
      <4>3. PassedOver' = PassedOver BY <2>1, <4>2 DEF PassedOver
      <4>4. QED BY <1>8, <2>1, <4>3 DEF Answered
    <3>2. CASE outcome # "ok" BY <1>8, <3>2 DEF Answered
    <3>3. QED BY <3>1, <3>2
  <2>4. CASE expired' = expired BY <2>2, <2>3, <2>4
  <2>5. CASE expired' = TRUE
    <3>1. Promise!Expire BY <2>2, <2>3, <2>5 DEF Promise!Expire, Running, Answered
    <3>2. QED BY <3>1 DEF Promise!Next
  <2>6. QED BY <1>8, <2>4, <2>5
<1>9. QED BY <1>1, <1>4, <1>5, <1>6, <1>7, <1>8, StepsOfRun

\* A file missing from a result of Run is told of by a diagnostic in it, or could
\* not be read when the scanner opened it, or the deadline has passed, through walk
\* errors that do not fit their channel and scanners that finish in any order.
THEOREM RunKeepsPromise == PipelineSpec => RunKeepsItsPromise
<1>1. PipelineInit => Promise!Init
  <2> SUFFICES ASSUME PipelineInit PROVE Promise!Init OBVIOUS
  <2>1. main = "idle" /\ outcome = "none" /\ expired = FALSE BY DEF PipelineInit, PoolInit
  <2>2. QED BY <2>1 DEF Promise!Init
<1>2. PipelineInv /\ [PipelineNext]_allVars => [Promise!Next]_Promise!vars
  BY PromisedSteps DEF Promise!vars, Running, Answered
<1>3. QED BY <1>1, <1>2, PipelineInvariance, PTL DEF PipelineSpec, RunKeepsItsPromise, Promise!Spec
===============================================================================
