-------------------------------- MODULE ScaProofs --------------------------------
(***************************************************************************)
(* What the SCA scanner promises whatever is read, whatever OSV lists and  *)
(* however its fetchers race, fail, are retried or cut short.              *)
(*                                                                         *)
(* deduplicateDeps neither loses a dependency nor keeps one twice;         *)
(* compareVersions orders versions, consistently over any three, and the   *)
(* range displayed brackets the version if one does.  No body is served    *)
(* twice, no verdict is truncated, no two merged advisories of a           *)
(* dependency share an ID, and no advisory is lost.                        *)
(***************************************************************************)
EXTENDS Sca, ListsProofs

------------------------------------------------------------------------------
(* Dependencies, each once.                                                   *)

\* deduplicateDeps returns, for every sequence of dependencies, one entry for
\* each (ecosystem, package, version, manifest) in it, none that is not in it,
\* and for each key the entry that came first.
THEOREM DedupIsExact ==
  ASSUME NEW S, NEW ds \in Seq(S)
  PROVE  /\ Deduplicated(ds) \in Seq(S)
         /\ \A n \in DOMAIN ds : \E m \in DOMAIN Deduplicated(ds) :
              DepKey(Deduplicated(ds)[m]) = DepKey(ds[n])
         /\ \A m \in DOMAIN Deduplicated(ds) : \E n \in DOMAIN ds :
              /\ Deduplicated(ds)[m] = ds[n]
              /\ \A k \in 1..(n - 1) : DepKey(ds[k]) # DepKey(ds[n])
         /\ \A m, n \in DOMAIN Deduplicated(ds) :
              DepKey(Deduplicated(ds)[m]) = DepKey(Deduplicated(ds)[n]) => m = n
<1> DEFINE keys == [n \in DOMAIN ds |-> DepKey(ds[n])]
           F == Firsts(keys)
           picked == Picked(ds, F)
<1>1. Len(ds) \in Nat /\ DOMAIN ds = 1..Len(ds) /\ \A n \in DOMAIN ds : ds[n] \in S
  BY LenProperties
<1>2. F = {n \in DOMAIN ds : \A k \in 1..(n - 1) : DepKey(ds[k]) # DepKey(ds[n])}
  <2>1. \A n \in DOMAIN ds : \A k \in 1..(n - 1) : k \in DOMAIN ds BY <1>1
  <2>2. QED BY <2>1 DEF Firsts
<1>3. Deduplicated(ds) = picked BY <1>2 DEF Deduplicated, FirstBy
<1>4. /\ F \subseteq 1..Len(ds) /\ IsFiniteSet(F)
      /\ \A n \in 1..Len(ds) : \E k \in F : k <= n /\ keys[k] = keys[n]
      /\ \A k, m \in F : keys[k] = keys[m] => k = m
  <2>1. DOMAIN keys = 1..Len(ds) BY <1>1
  <2> HIDE DEF keys
  <2>2. QED BY <1>1, <2>1, OneFirstEach
<1>5. \A k \in F : keys[k] = DepKey(ds[k]) BY <1>1, <1>4
<1>6. /\ Cardinality(F) \in Nat
      /\ DOMAIN picked = 1..Cardinality(F)
      /\ \A n \in DOMAIN picked :
           Place(F, n) \in F /\ Rank(F, Place(F, n)) = n /\ picked[n] = ds[Place(F, n)]
      /\ \A k \in F : Rank(F, k) \in DOMAIN picked /\ picked[Rank(F, k)] = ds[k]
  <2>1. F \subseteq Nat BY <1>4
  <2> HIDE DEF F
  <2>2. QED BY <1>4, <2>1, Picking
<1> HIDE DEF F, picked
<1>7. picked \in Seq(S)
  <2>1. picked = [n \in 1..Cardinality(F) |-> picked[n]] BY <1>6 DEF picked, Picked
  <2>2. \A n \in 1..Cardinality(F) : picked[n] \in S BY <1>1, <1>4, <1>6
  <2>3. picked \in [1..Cardinality(F) -> S] BY <2>1, <2>2
  <2>4. QED BY <1>6, <2>3, SeqDef
<1>8. ASSUME NEW n \in DOMAIN ds
      PROVE  \E m \in DOMAIN picked : DepKey(picked[m]) = DepKey(ds[n])
  <2>1. PICK k \in F : keys[k] = keys[n] BY <1>1, <1>4
  <2>2. DepKey(ds[k]) = DepKey(ds[n]) BY <1>1, <1>5, <2>1
  <2>3. QED BY <1>6, <2>2
<1>9. ASSUME NEW m \in DOMAIN picked
      PROVE  \E n \in DOMAIN ds : picked[m] = ds[n] /\ \A k \in 1..(n - 1) : DepKey(ds[k]) # DepKey(ds[n])
  BY <1>1, <1>2, <1>6
<1>10. ASSUME NEW m \in DOMAIN picked, NEW n \in DOMAIN picked, DepKey(picked[m]) = DepKey(picked[n])
       PROVE  m = n
  <2>1. keys[Place(F, m)] = keys[Place(F, n)] BY <1>5, <1>6, <1>10
  <2>2. Place(F, m) = Place(F, n) BY <1>4, <1>6, <2>1
  <2>3. QED BY <1>6, <2>2
<1>11. QED BY <1>3, <1>7, <1>8, <1>9, <1>10

------------------------------------------------------------------------------
(* Versions.                                                                  *)

\* The run of v at place d, or that there is none.
Has(v, d) == d <= Len(v)

\* d is the first place where a and b differ: by their runs, or by one's end.
DifferAt(a, b, d) ==
  /\ d \in Nat \ {0}
  /\ d - 1 <= Len(a) /\ d - 1 <= Len(b)
  /\ Has(a, d) \/ Has(b, d)
  /\ \A i \in 1..(d - 1) : a[i] = b[i]
  /\ Has(a, d) /\ Has(b, d) => a[d] # b[d]

\* What the comparison makes of that place.
Outcome(a, b, d) ==
  IF Has(a, d) /\ Has(b, d) THEN CompareToken(a[d], b[d])
  ELSE IF Has(a, d) THEN (IF a[d].digits THEN 1 ELSE -1)
  ELSE IF b[d].digits THEN -1 ELSE 1

LEMMA RunsOf ==
  ASSUME NEW v \in AllVersions
  PROVE  /\ Len(v) \in Nat
         /\ \A i \in 1..Len(v) : v[i] \in Tokens
         /\ v = [i \in 1..Len(v) |-> v[i]]
BY LenProperties DEF AllVersions

\* CompareToken orders the runs.
LEMMA RunsAreOrdered ==
  ASSUME NEW s \in Tokens, NEW t \in Tokens, NEW u \in Tokens
  PROVE  /\ CompareToken(s, t) \in {-1, 0, 1}
         /\ CompareToken(s, t) = 0 <=> s = t
         /\ CompareToken(t, s) = -CompareToken(s, t)
         /\ CompareToken(s, t) = -1 /\ CompareToken(t, u) = -1 => CompareToken(s, u) = -1
<1>1. /\ s.digits \in BOOLEAN /\ t.digits \in BOOLEAN /\ u.digits \in BOOLEAN
      /\ s.rank \in Nat /\ t.rank \in Nat /\ u.rank \in Nat
      /\ s = [digits |-> s.digits, rank |-> s.rank]
      /\ t = [digits |-> t.digits, rank |-> t.rank]
  BY DEF Tokens
<1>2. s.digits = t.digits /\ s.rank = t.rank <=> s = t BY <1>1
<1>3. QED BY <1>1, <1>2 DEF CompareToken

\* Versions that are not the same differ somewhere first.
LEMMA SomewhereFirst ==
  ASSUME NEW a \in AllVersions, NEW b \in AllVersions, a # b
  PROVE  \E d : DifferAt(a, b, d)
<1> DEFINE D == {d \in Nat \ {0} : (Has(a, d) \/ Has(b, d)) /\ (Has(a, d) /\ Has(b, d) => a[d] # b[d])}
<1>1. Len(a) \in Nat /\ Len(b) \in Nat BY RunsOf
<1>2. D # {}
  <2>1. CASE Len(a) # Len(b)
    <3>1. CASE Len(a) < Len(b)
      <4>1. Len(a) + 1 \in D BY <1>1, <3>1 DEF Has
      <4>2. QED BY <4>1
    <3>2. CASE Len(b) < Len(a)
      <4>1. Len(b) + 1 \in D BY <1>1, <3>2 DEF Has
      <4>2. QED BY <4>1
    <3>3. QED BY <1>1, <2>1, <3>1, <3>2
  <2>2. CASE Len(a) = Len(b)
    <3>1. PICK i \in 1..Len(a) : a[i] # b[i] BY <2>2, RunsOf
    <3>2. i \in D BY <1>1, <2>2, <3>1 DEF Has
    <3>3. QED BY <3>2
  <2>3. QED BY <2>1, <2>2
<1>3. D \subseteq Nat OBVIOUS
<1> HIDE DEF D
<1>4. PICK d \in D : \A e \in D : d <= e BY <1>2, <1>3, LeastOf
<1> USE DEF D
<1>5. d \in Nat \ {0} /\ (Has(a, d) \/ Has(b, d)) /\ (Has(a, d) /\ Has(b, d) => a[d] # b[d])
  OBVIOUS
<1>6. \A e \in 1..(d - 1) : e \notin D /\ e \in Nat \ {0} BY <1>3, <1>4, <1>5
<1>7. \A e \in 1..(d - 1) : (Has(a, e) <=> Has(b, e)) /\ (Has(a, e) => a[e] = b[e])
  BY <1>6
<1> HIDE DEF D
<1>8. d - 1 <= Len(a) /\ d - 1 <= Len(b)
  <2>1. CASE d = 1 BY <1>1, <2>1
  <2>2. CASE d # 1
    <3>1. d - 1 \in 1..(d - 1) BY <1>5, <2>2
    <3>2. Has(a, d - 1) <=> Has(b, d - 1) BY <1>7, <3>1
    <3>3. Has(a, d - 1) \/ Has(b, d - 1) BY <1>1, <1>5 DEF Has
    <3>4. QED BY <3>2, <3>3 DEF Has
  <2>3. QED BY <2>1, <2>2
<1>9. \A i \in 1..(d - 1) : a[i] = b[i] BY <1>1, <1>5, <1>7, <1>8 DEF Has
<1>10. QED BY <1>5, <1>8, <1>9 DEF DifferAt

\* The comparison is decided there.
LEMMA DecidedThere ==
  ASSUME NEW a \in AllVersions, NEW b \in AllVersions, NEW d, DifferAt(a, b, d)
  PROVE  CompareVersions(a, b) = Outcome(a, b, d)
<1> DEFINE shared == IF Len(a) < Len(b) THEN Len(a) ELSE Len(b)
<1>1. Len(a) \in Nat /\ Len(b) \in Nat /\ d \in Nat \ {0} /\ shared \in Nat BY RunsOf DEF DifferAt
<1>2. \A i \in 1..Len(a) : i <= Len(b) => (CompareToken(a[i], b[i]) = 0 <=> a[i] = b[i])
  <2> SUFFICES ASSUME NEW i \in 1..Len(a), i <= Len(b)
               PROVE  CompareToken(a[i], b[i]) = 0 <=> a[i] = b[i]
    OBVIOUS
  <2>1. a[i] \in Tokens /\ b[i] \in Tokens BY <1>1, RunsOf
  <2>2. QED BY <2>1, RunsAreOrdered
<1>3. \A i \in 1..(d - 1) : i \in 1..Len(a) /\ i <= Len(b) /\ a[i] = b[i]
  BY <1>1 DEF DifferAt
<1>4. Agree(a, b, d - 1) BY <1>2, <1>3 DEF Agree
<1>5. CASE Has(a, d) /\ Has(b, d)
  <2>1. d \in 1..shared /\ a[d] # b[d] BY <1>1, <1>5 DEF DifferAt, Has
  <2>2. CompareToken(a[d], b[d]) # 0 BY <1>1, <1>2, <1>5, <2>1 DEF Has
  <2>3. ~Agree(a, b, shared) BY <2>1, <2>2 DEF Agree
  <2>4. \A i \in 1..shared : CompareToken(a[i], b[i]) # 0 /\ Agree(a, b, i - 1) => i = d
    <3> SUFFICES ASSUME NEW i \in 1..shared, CompareToken(a[i], b[i]) # 0, Agree(a, b, i - 1)
                 PROVE  i = d
      OBVIOUS
    <3>1. ~(i < d)
      <4>1. SUFFICES ASSUME i < d PROVE FALSE OBVIOUS
      <4>2. i \in 1..(d - 1) BY <1>1, <4>1
      <4>3. QED BY <1>4, <4>2 DEF Agree
    <3>2. ~(d < i)
      <4>1. SUFFICES ASSUME d < i PROVE FALSE OBVIOUS
      <4>2. d \in 1..(i - 1) BY <1>1, <4>1
      <4>3. QED BY <2>2, <4>2 DEF Agree
    <3>3. QED BY <1>1, <3>1, <3>2
  <2>5. d = CHOOSE i \in 1..shared : CompareToken(a[i], b[i]) # 0 /\ Agree(a, b, i - 1)
    BY <1>4, <2>1, <2>2, <2>4
  <2>6. CompareVersions(a, b) = CompareToken(a[d], b[d]) BY <2>3, <2>5 DEF CompareVersions
  <2>7. QED BY <1>5, <2>6 DEF Outcome
<1>6. CASE ~(Has(a, d) /\ Has(b, d))
  <2>1. shared = d - 1 BY <1>1, <1>6 DEF DifferAt, Has
  <2>2. Agree(a, b, shared) BY <1>4, <2>1
  <2>3. CASE Has(a, d)
    <3>1. Len(b) = d - 1 /\ Len(a) > Len(b) BY <1>1, <1>6, <2>3 DEF DifferAt, Has
    <3>2. CompareVersions(a, b) = TailSign(a, Len(b)) BY <1>1, <2>2, <3>1 DEF CompareVersions
    <3>3. Len(b) + 1 = d BY <1>1, <3>1
    <3>4. QED BY <1>6, <2>3, <3>2, <3>3 DEF Outcome, TailSign
  <2>4. CASE ~Has(a, d)
    <3>1. Len(a) = d - 1 /\ Len(a) < Len(b) BY <1>1, <2>4 DEF DifferAt, Has
    <3>2. CompareVersions(a, b) = -TailSign(b, Len(a)) BY <1>1, <2>2, <3>1 DEF CompareVersions
    <3>3. Len(a) + 1 = d BY <1>1, <3>1
    <3>4. QED BY <1>6, <2>4, <3>2, <3>3 DEF Outcome, TailSign
  <2>5. QED BY <2>3, <2>4
<1>7. QED BY <1>5, <1>6

LEMMA SameIsZero ==
  ASSUME NEW a \in AllVersions
  PROVE  CompareVersions(a, a) = 0
<1>1. Len(a) \in Nat BY RunsOf
<1>2. \A i \in 1..Len(a) : CompareToken(a[i], a[i]) = 0 BY RunsOf, RunsAreOrdered
<1>3. Agree(a, a, Len(a)) BY <1>2 DEF Agree
<1>4. QED BY <1>1, <1>3 DEF CompareVersions

\* A place decides: never for equality, and the other way round for the versions
\* given the other way round.
LEMMA PlaceDecides ==
  ASSUME NEW a \in AllVersions, NEW b \in AllVersions, NEW d, DifferAt(a, b, d)
  PROVE  /\ Outcome(a, b, d) \in {-1, 1}
         /\ DifferAt(b, a, d) /\ Outcome(b, a, d) = -Outcome(a, b, d)
<1>1. Len(a) \in Nat /\ Len(b) \in Nat /\ d \in Nat \ {0} BY RunsOf DEF DifferAt
<1>2. Has(a, d) => a[d] \in Tokens BY <1>1, RunsOf DEF Has
<1>3. Has(b, d) => b[d] \in Tokens BY <1>1, RunsOf DEF Has
<1>4. DifferAt(b, a, d) BY DEF DifferAt
<1>5. CASE Has(a, d) /\ Has(b, d)
  <2>1. a[d] # b[d] BY <1>5 DEF DifferAt
  <2>2. CompareToken(a[d], b[d]) \in {-1, 1} /\ CompareToken(b[d], a[d]) = -CompareToken(a[d], b[d])
    BY <1>2, <1>3, <1>5, <2>1, RunsAreOrdered
  <2>3. QED BY <1>4, <1>5, <2>2 DEF Outcome
<1>6. CASE Has(a, d) /\ ~Has(b, d) BY <1>4, <1>6 DEF Outcome
<1>7. CASE ~Has(a, d) /\ Has(b, d) BY <1>4, <1>7 DEF Outcome
<1>8. QED BY <1>5, <1>6, <1>7 DEF DifferAt

\* compareVersions never calls two versions equal unless they have the same
\* runs, and swapping its arguments negates what it says.
THEOREM ComparisonIsTotal ==
  ASSUME NEW a \in AllVersions, NEW b \in AllVersions
  PROVE  /\ CompareVersions(a, b) \in {-1, 0, 1}
         /\ CompareVersions(a, b) = 0 <=> a = b
         /\ CompareVersions(b, a) = -CompareVersions(a, b)
<1>1. CASE a = b BY <1>1, SameIsZero
<1>2. CASE a # b
  <2>1. PICK d : DifferAt(a, b, d) BY <1>2, SomewhereFirst
  <2>2. /\ Outcome(a, b, d) \in {-1, 1}
        /\ DifferAt(b, a, d) /\ Outcome(b, a, d) = -Outcome(a, b, d)
    BY <2>1, PlaceDecides
  <2>3. CompareVersions(a, b) = Outcome(a, b, d) BY <2>1, DecidedThere
  <2>4. CompareVersions(b, a) = Outcome(b, a, d) BY <2>2, DecidedThere
  <2>5. QED BY <1>2, <2>2, <2>3, <2>4
<1>3. QED BY <1>1, <1>2

\* Of three versions in order, the first comes before the last: the comparison
\* has no cycle, whatever mixes of numbers, tags and lengths they are.
THEOREM ComparisonIsTransitive ==
  ASSUME NEW a \in AllVersions, NEW b \in AllVersions, NEW c \in AllVersions,
         CompareVersions(a, b) = -1, CompareVersions(b, c) = -1
  PROVE  CompareVersions(a, c) = -1
<1>1. a # b /\ b # c
  <2>1. CompareVersions(a, a) = 0 /\ CompareVersions(b, b) = 0 BY SameIsZero
  <2>2. QED BY <2>1
<1>2. PICK d : DifferAt(a, b, d) BY <1>1, SomewhereFirst
<1>3. PICK e : DifferAt(b, c, e) BY <1>1, SomewhereFirst
<1>4. Outcome(a, b, d) = -1 /\ Outcome(b, c, e) = -1 BY <1>2, <1>3, DecidedThere
<1>5. /\ Len(a) \in Nat /\ Len(b) \in Nat /\ Len(c) \in Nat
      /\ d \in Nat \ {0} /\ e \in Nat \ {0}
  BY <1>2, <1>3, RunsOf DEF DifferAt
<1>6. /\ d - 1 <= Len(a) /\ d - 1 <= Len(b) /\ e - 1 <= Len(b) /\ e - 1 <= Len(c)
      /\ \A i \in 1..(d - 1) : a[i] = b[i]
      /\ \A i \in 1..(e - 1) : b[i] = c[i]
      /\ Has(a, d) \/ Has(b, d)
      /\ Has(b, e) \/ Has(c, e)
      /\ Has(a, d) /\ Has(b, d) => a[d] # b[d]
      /\ Has(b, e) /\ Has(c, e) => b[e] # c[e]
  BY <1>2, <1>3 DEF DifferAt
<1>7. ASSUME NEW f, DifferAt(a, c, f), Outcome(a, c, f) = -1
      PROVE  CompareVersions(a, c) = -1
  BY <1>7, DecidedThere
<1>8. CASE d < e
  <2>1. d \in 1..(e - 1) /\ d <= Len(b) /\ d <= Len(c) BY <1>5, <1>6, <1>8
  <2>2. b[d] = c[d] /\ Has(b, d) /\ Has(c, d) BY <1>6, <2>1 DEF Has
  <2>3. \A i \in 1..(d - 1) : a[i] = c[i]
    <3>1. \A i \in 1..(d - 1) : i \in 1..(e - 1) BY <1>5, <1>8
    <3>2. QED BY <1>6, <3>1
  <2>4. d - 1 <= Len(c) BY <1>5, <2>1
  <2>5. DifferAt(a, c, d) BY <1>5, <1>6, <2>2, <2>3, <2>4 DEF DifferAt
  <2>6. Outcome(a, c, d) = Outcome(a, b, d) BY <2>2 DEF Outcome
  <2>7. QED BY <1>4, <1>7, <2>5, <2>6
<1>9. CASE e < d
  <2>1. e \in 1..(d - 1) /\ e <= Len(a) /\ e <= Len(b) BY <1>5, <1>6, <1>9
  <2>2. a[e] = b[e] /\ Has(a, e) /\ Has(b, e) BY <1>6, <2>1 DEF Has
  <2>3. \A i \in 1..(e - 1) : a[i] = c[i]
    <3>1. \A i \in 1..(e - 1) : i \in 1..(d - 1) BY <1>5, <1>9
    <3>2. QED BY <1>6, <3>1
  <2>4. e - 1 <= Len(a) BY <1>5, <2>1
  <2>5. DifferAt(a, c, e) BY <1>5, <1>6, <2>2, <2>3, <2>4 DEF DifferAt
  <2>6. Outcome(a, c, e) = Outcome(b, c, e) BY <2>2 DEF Outcome
  <2>7. QED BY <1>4, <1>7, <2>5, <2>6
<1>10. CASE d = e
  <2>1. \A i \in 1..(d - 1) : a[i] = c[i] BY <1>6, <1>10
  <2>2. /\ Has(a, d) => a[d] \in Tokens /\ a[d].digits \in BOOLEAN
        /\ Has(b, d) => b[d] \in Tokens /\ b[d].digits \in BOOLEAN
        /\ Has(c, d) => c[d] \in Tokens /\ c[d].digits \in BOOLEAN
    <3>1. \A t \in Tokens : t.digits \in BOOLEAN BY DEF Tokens
    <3>2. QED BY <1>5, <3>1, RunsOf DEF Has
  <2>3. Has(a, d) /\ Has(c, d) => CompareToken(a[d], c[d]) = -1
    <3> SUFFICES ASSUME Has(a, d), Has(c, d) PROVE CompareToken(a[d], c[d]) = -1 OBVIOUS
    <3>1. CASE Has(b, d)
      <4>1. CompareToken(a[d], b[d]) = -1 /\ CompareToken(b[d], c[d]) = -1
        BY <1>4, <1>10, <3>1 DEF Outcome
      <4>2. QED BY <2>2, <3>1, <4>1, RunsAreOrdered
    <3>2. CASE ~Has(b, d)
      <4>1. ~a[d].digits /\ c[d].digits BY <1>4, <1>10, <2>2, <3>2 DEF Outcome
      <4>2. QED BY <2>2, <4>1 DEF CompareToken
    <3>3. QED BY <3>1, <3>2
  <2>4. Has(a, d) /\ ~Has(c, d) => ~a[d].digits
    <3> SUFFICES ASSUME Has(a, d), ~Has(c, d) PROVE ~a[d].digits OBVIOUS
    <3>1. Has(b, d) /\ ~b[d].digits BY <1>4, <1>6, <1>10, <2>2 DEF Outcome
    <3>2. CompareToken(a[d], b[d]) = -1 BY <1>4, <3>1 DEF Outcome
    <3>3. QED BY <2>2, <3>1, <3>2 DEF CompareToken
  <2>5. ~Has(a, d) /\ Has(c, d) => c[d].digits
    <3> SUFFICES ASSUME ~Has(a, d), Has(c, d) PROVE c[d].digits OBVIOUS
    <3>1. Has(b, d) /\ b[d].digits BY <1>4, <1>6, <2>2 DEF Outcome
    <3>2. CompareToken(b[d], c[d]) = -1 BY <1>4, <1>10, <3>1 DEF Outcome
    <3>3. ASSUME ~c[d].digits PROVE FALSE
      <4>1. b[d].digits # c[d].digits BY <2>2, <3>1, <3>3
      <4>2. CompareToken(b[d], c[d]) = 1 BY <3>1, <4>1 DEF CompareToken
      <4>3. QED BY <3>2, <4>2
    <3>4. QED BY <3>3
  <2>6. Has(a, d) \/ Has(c, d)
    <3> SUFFICES ASSUME ~Has(a, d), ~Has(c, d) PROVE FALSE OBVIOUS
    <3>1. Has(b, d) BY <1>6
    <3>2. b[d].digits /\ ~b[d].digits BY <1>4, <1>10, <2>2, <3>1 DEF Outcome
    <3>3. QED BY <3>2
  <2>7. Has(a, d) /\ Has(c, d) => a[d] # c[d]
    <3>1. -1 # 0 OBVIOUS
    <3>2. QED BY <2>2, <2>3, <3>1, RunsAreOrdered
  <2>8. DifferAt(a, c, d) BY <1>5, <1>6, <1>10, <2>1, <2>6, <2>7 DEF DifferAt
  <2>9. Outcome(a, c, d) = -1 BY <2>3, <2>4, <2>5, <2>6 DEF Outcome
  <2>10. QED BY <1>7, <2>8, <2>9
<1>11. QED BY <1>5, <1>8, <1>9, <1>10

\* Not after, over three versions.
LEMMA NotAfterIsTransitive ==
  ASSUME NEW a \in AllVersions, NEW b \in AllVersions, NEW c \in AllVersions,
         CompareVersions(a, b) <= 0, CompareVersions(b, c) <= 0
  PROVE  /\ CompareVersions(a, c) <= 0
         /\ CompareVersions(a, b) < 0 \/ CompareVersions(b, c) < 0 => CompareVersions(a, c) < 0
<1>1. CASE a = b BY <1>1, SameIsZero
<1>2. CASE b = c BY <1>2, SameIsZero
<1>3. CASE a # b /\ b # c
  <2>1. CompareVersions(a, b) = -1 /\ CompareVersions(b, c) = -1 BY <1>3, ComparisonIsTotal
  <2>2. CompareVersions(a, c) = -1 BY <2>1, ComparisonIsTransitive
  <2>3. QED BY <2>2
<1>4. QED BY <1>1, <1>2, <1>3

\* versionInRange brackets an interval: a version between two affected ones is
\* affected, whatever the bounds of the range and the forms of the versions.
THEOREM RangesAreConvex ==
  ASSUME NEW i, i.intro \in AllVersions, i.fixed \in AllVersions, i.last \in AllVersions,
         NEW u \in AllVersions, NEW v \in AllVersions, NEW w \in AllVersions,
         CompareVersions(u, v) <= 0, CompareVersions(v, w) <= 0,
         VersionInRange(u, i), VersionInRange(w, i)
  PROVE  VersionInRange(v, i)
<1>1. CompareVersions(u, i.intro) >= 0 => CompareVersions(v, i.intro) >= 0
  <2> SUFFICES ASSUME CompareVersions(u, i.intro) >= 0 PROVE CompareVersions(v, i.intro) >= 0
    OBVIOUS
  <2>1. CompareVersions(i.intro, u) <= 0 BY ComparisonIsTotal
  <2>2. CompareVersions(i.intro, v) <= 0 BY <2>1, NotAfterIsTransitive
  <2>3. QED BY <2>2, ComparisonIsTotal
<1>2. CompareVersions(w, i.fixed) < 0 => CompareVersions(v, i.fixed) < 0
  BY NotAfterIsTransitive, ComparisonIsTotal
<1>3. CompareVersions(w, i.last) <= 0 => CompareVersions(v, i.last) <= 0
  BY NotAfterIsTransitive
<1>4. QED BY <1>1, <1>2, <1>3 DEF VersionInRange

------------------------------------------------------------------------------
(* The range displayed.                                                       *)

Displayed == [from : AllVersions, below : AllVersions, upTo : AllVersions]

LEMMA NothingIsDisplayed == NoVersion \in AllVersions /\ NoRange \in Displayed
<1>1. NoVersion \in AllVersions BY EmptySeq DEF NoVersion, AllVersions
<1>2. QED BY <1>1 DEF NoRange, Displayed

\* An interval is bounded by versions its events name.
LEMMA IntervalsAreTyped ==
  ASSUME NEW events \in Seq(Events), NEW n \in Ends(events)
  PROVE  DescribeRange(IntervalTo(events, n)) \in Displayed
<1> DEFINE opening == {m \in 1..(n - 1) : events[m].introduced # NoVersion
                                          /\ \A k \in m..(n - 1) : ~Closes(events[k])}
           i == IntervalTo(events, n)
<1>1. /\ Len(events) \in Nat /\ DOMAIN events = 1..Len(events)
      /\ \A m \in DOMAIN events : /\ events[m].introduced \in AllVersions
                                  /\ events[m].fixed \in AllVersions /\ events[m].last \in AllVersions
  <2>1. \A m \in DOMAIN events : events[m] \in Events BY ElementOfSeq, LenProperties
  <2>2. QED BY <2>1, LenProperties DEF Events
<1>2. n \in 1..Len(events) + 1 BY <1>1 DEF Ends
<1>3. Intro(events, n) \in AllVersions
  <2>1. CASE opening = {} BY <2>1, NothingIsDisplayed DEF Intro
  <2>2. CASE opening # {}
    <3> DEFINE T == {n - m : m \in opening}
               Latest(m) == \A k \in opening : k <= m
    <3>1. T \subseteq Nat /\ T # {} BY <1>2, <2>2
    <3>2. PICK x \in T : \A y \in T : x <= y
      <4> HIDE DEF T
      <4>1. QED BY <3>1, LeastOf
    <3>3. \E m \in opening : Latest(m)
      <4>1. PICK m \in opening : x = n - m BY <3>2
      <4>2. \A k \in opening : n - m <= n - k BY <3>2, <4>1
      <4>3. \A k \in opening : k \in Int /\ m \in Int /\ n \in Int BY <1>2
      <4>4. \A k \in opening : k <= m BY <4>2, <4>3
      <4>5. QED BY <4>4
    <3>4. Intro(events, n) = events[CHOOSE m \in opening : Latest(m)].introduced BY <2>2 DEF Intro
    <3>5. (CHOOSE m \in opening : Latest(m)) \in opening
      <4> HIDE DEF Latest
      <4>1. QED BY <3>3
    <3>6. opening \subseteq DOMAIN events BY <1>1, <1>2
    <3> HIDE DEF opening
    <3>7. QED BY <1>1, <3>4, <3>5, <3>6
  <2>3. QED BY <2>1, <2>2
<1>4. i.intro \in AllVersions /\ i.fixed \in AllVersions /\ i.last \in AllVersions
  BY <1>1, <1>3, NothingIsDisplayed DEF IntervalTo
<1> HIDE DEF i
<1>5. DescribeRange(i) \in Displayed BY <1>4, NothingIsDisplayed DEF DescribeRange, Displayed
<1>6. QED BY <1>5 DEF i

Placed(S) == \A i \in S : i.at[1] \in Nat /\ i.at[2] \in Nat /\ i.at[3] \in Nat

\* Three nested loops come to one of a set of intervals first.
LEMMA FirstIntervalIsFirst ==
  ASSUME NEW S, S # {}, Placed(S)
  PROVE  FirstInterval(S) \in S /\ \A j \in S : Precedes(FirstInterval(S).at, j.at)
<1> DEFINE Comes(i) == \A j \in S : Precedes(i.at, j.at)
<1>1. ASSUME NEW R, R \subseteq S, R # {}, NEW k \in {1, 2, 3}
      PROVE  \E p \in R : \A q \in R : p.at[k] <= q.at[k]
  <2> DEFINE T == {p.at[k] : p \in R}
  <2>1. T \subseteq Nat /\ T # {} BY <1>1 DEF Placed
  <2>2. PICK x \in T : \A y \in T : x <= y
    <3> HIDE DEF T
    <3>1. QED BY <2>1, LeastOf
  <2>3. QED BY <2>2
<1>2. PICK p1 \in S : \A q \in S : p1.at[1] <= q.at[1] BY <1>1
<1> DEFINE S1 == {q \in S : q.at[1] = p1.at[1]}
<1>3. PICK p2 \in S1 : \A q \in S1 : p2.at[2] <= q.at[2]
  <2>1. S1 \subseteq S /\ S1 # {} OBVIOUS
  <2> HIDE DEF S1
  <2>2. QED BY <1>1, <2>1
<1> DEFINE S2 == {q \in S1 : q.at[2] = p2.at[2]}
<1>4. PICK p3 \in S2 : \A q \in S2 : p3.at[3] <= q.at[3]
  <2>1. S2 \subseteq S /\ S2 # {} OBVIOUS
  <2> HIDE DEF S2
  <2>2. QED BY <1>1, <2>1
<1>5. p3 \in S /\ p3.at[1] = p1.at[1] /\ p3.at[2] = p2.at[2] OBVIOUS
<1>6. ASSUME NEW q \in S PROVE Precedes(p3.at, q.at)
  <2>1. /\ p1.at[1] \in Nat /\ p2.at[2] \in Nat /\ p3.at[3] \in Nat
        /\ q.at[1] \in Nat /\ q.at[2] \in Nat /\ q.at[3] \in Nat
    BY <1>5 DEF Placed
  <2>2. p1.at[1] <= q.at[1] BY <1>2
  <2>3. q.at[1] = p1.at[1] => p2.at[2] <= q.at[2] BY <1>3
  <2>4. q.at[1] = p1.at[1] /\ q.at[2] = p2.at[2] => p3.at[3] <= q.at[3] BY <1>4
  <2> HIDE DEF S1, S2
  <2>5. QED BY <1>5, <2>1, <2>2, <2>3, <2>4 DEF Precedes
<1>7. \E p \in S : Comes(p) BY <1>5, <1>6
<1>8. FirstInterval(S) = CHOOSE p \in S : Comes(p) BY DEF FirstInterval
<1>9. FirstInterval(S) \in S /\ Comes(FirstInterval(S))
  <2> HIDE DEF Comes
  <2>1. QED BY <1>7, <1>8
<1>10. QED BY <1>9

\* The range displayed is that of an interval of the dependency's own package;
\* one that brackets its version if there is one, and then the first the body
\* names; whatever the events of the ranges and their order.
THEOREM BracketingIsDisplayed ==
  ASSUME NEW affected, AreAffected(affected), NEW own, own \subseteq DOMAIN affected, NEW version
  PROVE  LET all == Intervals(affected, own)
             range == ExtractRange(affected, own, version)
             Brackets(p) == version # NoVersion /\ VersionInRange(version, p.bounds)
         IN  /\ range \in Displayed
             /\ range # NoRange => \E p \in all : range = DescribeRange(p.bounds)
             /\ (\E p \in all : Brackets(p)) =>
                  \E p \in all : /\ Brackets(p) /\ range = DescribeRange(p.bounds)
                                 /\ \A q \in all : Brackets(q) => Precedes(p.at, q.at)
<1> DEFINE all == Intervals(affected, own)
           range == ExtractRange(affected, own, version)
           Brackets(p) == version # NoVersion /\ VersionInRange(version, p.bounds)
           Described(p) == DescribeRange(p.bounds) # NoRange
           bracketing == {p \in all : Brackets(p)}
           described == {p \in all : Described(p)}
<1>1. ASSUME NEW p \in all
      PROVE  /\ p.at[1] \in Nat /\ p.at[2] \in Nat /\ p.at[3] \in Nat
             /\ DescribeRange(p.bounds) \in Displayed
  <2> DEFINE Here(a, r) == {[at |-> <<a, r, n>>, bounds |-> IntervalTo(affected[a].ranges[r].events, n)] :
                              n \in Ends(affected[a].ranges[r].events)}
  <2>0. PICK a \in own : \E r \in DOMAIN affected[a].ranges :
          p \in Here(a, r)
    BY DEF Intervals
  <2>1. PICK r \in DOMAIN affected[a].ranges : p \in Here(a, r)
    BY <2>0
  <2>2. PICK n \in Ends(affected[a].ranges[r].events) : p = [at |-> <<a, r, n>>, bounds |-> IntervalTo(affected[a].ranges[r].events, n)] BY <2>1
  <2>3. a \in Nat /\ r \in Nat /\ affected[a].ranges[r].events \in Seq(Events)
    BY DEF AreAffected, IsAnArray
  <2>4. n \in Nat BY <2>3, LenProperties DEF Ends
  <2>5. p.bounds = IntervalTo(affected[a].ranges[r].events, n) BY <2>2
  <2>6. QED BY <2>2, <2>3, <2>4, <2>5, IntervalsAreTyped
<1>2. \A S : S \subseteq all => Placed(S) BY <1>1 DEF Placed
<1>3. /\ bracketing # {} => range = DescribeRange(FirstInterval(bracketing).bounds)
      /\ bracketing = {} /\ described # {} => range = DescribeRange(FirstInterval(described).bounds)
      /\ bracketing = {} /\ described = {} => range = NoRange
  BY DEF ExtractRange
<1>4. bracketing \subseteq all /\ described \subseteq all OBVIOUS
<1>5. \A p : p \in bracketing <=> p \in all /\ Brackets(p) OBVIOUS
<1> HIDE DEF all, range, Brackets, bracketing, described
<1>6. CASE bracketing # {}
  <2> DEFINE p == FirstInterval(bracketing)
  <2>1. p \in bracketing /\ \A q \in bracketing : Precedes(p.at, q.at) BY <1>2, <1>4, <1>6, FirstIntervalIsFirst
  <2>2. range = DescribeRange(p.bounds) BY <1>3, <1>6
  <2> HIDE DEF p
  <2>3. p \in all /\ Brackets(p) /\ \A q \in all : Brackets(q) => Precedes(p.at, q.at) BY <1>5, <2>1
  <2>4. range \in Displayed BY <1>1, <2>2, <2>3
  <2>5. QED BY <2>2, <2>3, <2>4 DEF all, range, Brackets
<1>7. CASE bracketing = {} /\ described # {}
  <2> DEFINE p == FirstInterval(described)
  <2>1. p \in described BY <1>2, <1>4, <1>7, FirstIntervalIsFirst
  <2>2. range = DescribeRange(p.bounds) BY <1>3, <1>7
  <2> HIDE DEF p
  <2>3. p \in all /\ range \in Displayed BY <1>1, <1>4, <2>1, <2>2
  <2>4. \A q \in all : ~Brackets(q) BY <1>5, <1>7
  <2>5. QED BY <2>2, <2>3, <2>4 DEF all, range, Brackets
<1>8. CASE bracketing = {} /\ described = {}
  <2>1. range = NoRange /\ range \in Displayed BY <1>3, <1>8, NothingIsDisplayed
  <2>2. \A q \in all : ~Brackets(q) BY <1>5, <1>8
  <2>3. QED BY <2>1, <2>2 DEF all, range, Brackets
<1>9. QED BY <1>6, <1>7, <1>8

------------------------------------------------------------------------------
(* The distinct elements of a list.                                           *)

\* What FirstSeen returns for a sequence: its elements, each once.
LEMMA SeenOnce ==
  ASSUME NEW seq, IsASequence(seq)
  PROVE  /\ IsASequence(FirstSeen(seq))
         /\ \A n \in 1..Len(FirstSeen(seq)) : \E k \in 1..Len(seq) : FirstSeen(seq)[n] = seq[k]
         /\ \A k \in 1..Len(seq) : \E n \in 1..Len(FirstSeen(seq)) : FirstSeen(seq)[n] = seq[k]
         /\ \A m, n \in 1..Len(FirstSeen(seq)) : FirstSeen(seq)[m] = FirstSeen(seq)[n] => m = n
<1> DEFINE F == Firsts(seq)
           seen == Picked(seq, F)
<1>1. Len(seq) \in Nat /\ DOMAIN seq = 1..Len(seq) BY DEF IsASequence
<1>2. FirstSeen(seq) = seen BY DEF FirstSeen, FirstBy, Firsts
<1>3. /\ F \subseteq 1..Len(seq) /\ IsFiniteSet(F)
      /\ \A n \in 1..Len(seq) : \E k \in F : k <= n /\ seq[k] = seq[n]
      /\ \A k, m \in F : seq[k] = seq[m] => k = m
  BY <1>1, OneFirstEach
<1> HIDE DEF F
<1>4. /\ Cardinality(F) \in Nat
      /\ DOMAIN seen = 1..Cardinality(F)
      /\ \A n \in DOMAIN seen :
           Place(F, n) \in F /\ Rank(F, Place(F, n)) = n /\ seen[n] = seq[Place(F, n)]
      /\ \A k \in F : Rank(F, k) \in DOMAIN seen /\ seen[Rank(F, k)] = seq[k]
  <2>1. F \subseteq Nat BY <1>3
  <2>2. QED BY <1>3, <2>1, Picking
<1>5. IsASequence(seen) /\ Len(seen) = Cardinality(F)
  <2>1. seen = [n \in 1..Cardinality(F) |-> seen[n]] BY <1>4 DEF Picked
  <2> HIDE DEF seen
  <2>2. Len(seen) = Cardinality(F) BY <1>4, <2>1
  <2>3. QED BY <1>4, <2>1, <2>2 DEF IsASequence
<1> HIDE DEF seen
<1>6. \A n \in 1..Len(seen) : \E k \in 1..Len(seq) : seen[n] = seq[k] BY <1>3, <1>4, <1>5
<1>7. \A k \in 1..Len(seq) : \E n \in 1..Len(seen) : seen[n] = seq[k]
  <2> TAKE k \in 1..Len(seq)
  <2>1. PICK f \in F : seq[f] = seq[k] BY <1>3
  <2>2. QED BY <1>4, <1>5, <2>1
<1>8. \A m, n \in 1..Len(seen) : seen[m] = seen[n] => m = n
  <2> SUFFICES ASSUME NEW m \in 1..Len(seen), NEW n \in 1..Len(seen), seen[m] = seen[n]
               PROVE  m = n OBVIOUS
  <2>1. /\ Place(F, m) \in F /\ seen[m] = seq[Place(F, m)] /\ Rank(F, Place(F, m)) = m
        /\ Place(F, n) \in F /\ seen[n] = seq[Place(F, n)] /\ Rank(F, Place(F, n)) = n
    BY <1>4, <1>5
  <2>2. Place(F, m) = Place(F, n) BY <1>3, <2>1
  <2>3. QED BY <2>1, <2>2
<1>9. QED BY <1>2, <1>5, <1>6, <1>7, <1>8

------------------------------------------------------------------------------
(* What has been listed.                                                      *)

PairIds == {pairs[n].id : n \in 1..Len(pairs)}

ListInv ==
  /\ IsASequence(pairs) /\ PairIds \subseteq Ids
  /\ turn \in Nat \ {0}
  /\ phase \in {"idle", "batch"} => page = 1
  /\ phase \in {"page", "results"} =>
       page = 1 \/ (MoreResults /\ page \in 1..Len(Listing(Chunk[turn])))

\* OSV's answer has a page, and its pages hold IDs.
LEMMA ListingIsPaged ==
  ASSUME NEW d
  PROVE  /\ Len(Listing(d)) \in Nat \ {0}
         /\ \A n \in 1..Len(Listing(d)) : Listing(d)[n] \in Seq(Ids)
<1>1. Listing(d) \in Seq(Seq(Ids)) \ {<<>>}
  <2>1. CASE <<d.package, d.version>> \in DOMAIN Pages BY <2>1, OsvAssumption DEF Listing
  <2>2. CASE <<d.package, d.version>> \notin DOMAIN Pages
    <3>1. <<>> \in Seq(Ids) BY EmptySeq
    <3>2. QED BY <2>2, <3>1 DEF Listing
  <2>3. QED BY <2>1, <2>2
<1>2. QED BY <1>1, EmptySeq, LenProperties

LEMMA ListInit == Init => ListInv
<1>1. SUFFICES ASSUME Init PROVE ListInv OBVIOUS
<1>2. pairs = <<>> /\ turn = 1 /\ page = 1 /\ phase = "idle" BY <1>1 DEF Init, OsvInit
<1>3. IsASequence(pairs) BY <1>2 DEF IsASequence
<1>4. PairIds \subseteq Ids BY <1>2 DEF PairIds
<1>5. QED BY <1>2, <1>3, <1>4 DEF ListInv

\* One page more.
LEMMA PageIsTaken ==
  ASSUME ListInv, TakePage
  PROVE  ListInv'
<1> DEFINE d == Chunk[turn]
           listed == Listing(d)
           new == [n \in DOMAIN listed[page] |-> [dep |-> d, id |-> listed[page][n]]]
<1>1. Len(listed) \in Nat \ {0} /\ \A n \in 1..Len(listed) : listed[n] \in Seq(Ids)
  BY ListingIsPaged
<1>2. page \in 1..Len(listed) BY <1>1 DEF ListInv, TakePage
<1>3. /\ listed[page] \in Seq(Ids) /\ Len(listed[page]) \in Nat
      /\ DOMAIN listed[page] = 1..Len(listed[page])
      /\ \A n \in 1..Len(listed[page]) : listed[page][n] \in Ids
  BY <1>1, <1>2, LenProperties
<1>4. pairs' = pairs \o new BY DEF TakePage
<1>5. IsASequence(new) /\ Len(new) = Len(listed[page]) /\ \A n \in 1..Len(new) : new[n].id \in Ids
  <2>1. new = [n \in 1..Len(listed[page]) |-> [dep |-> d, id |-> listed[page][n]]] BY <1>3
  <2> HIDE DEF new, listed
  <2>2. Len(new) = Len(listed[page]) BY <1>3, <2>1
  <2>3. QED BY <1>3, <2>1, <2>2 DEF IsASequence
<1>6. IsASequence(pairs') /\ PairIds' \subseteq Ids
  <2> HIDE DEF new
  <2>1. /\ IsASequence(pairs') /\ Len(pairs') = Len(pairs) + Len(new)
        /\ \A n \in 1..Len(pairs) + Len(new) :
             pairs'[n] = IF n <= Len(pairs) THEN pairs[n] ELSE new[n - Len(pairs)]
    BY <1>4, <1>5, Concatenating DEF ListInv
  <2>2. Len(pairs) \in Nat /\ Len(new) \in Nat BY <1>5 DEF ListInv, IsASequence
  <2>3. \A n \in 1..Len(pairs) : pairs[n].id \in Ids BY DEF ListInv, PairIds
  <2>4. ASSUME NEW n \in 1..Len(pairs') PROVE pairs'[n].id \in Ids
    <3>1. CASE n <= Len(pairs) BY <2>1, <2>2, <2>3, <3>1
    <3>2. CASE ~(n <= Len(pairs))
      <4>1. n - Len(pairs) \in 1..Len(new) BY <2>1, <2>2, <3>2
      <4>2. pairs'[n] = new[n - Len(pairs)] BY <2>1, <2>2, <3>2
      <4>3. QED BY <1>5, <4>1, <4>2
    <3>3. QED BY <3>1, <3>2
  <2>5. QED BY <2>1, <2>4 DEF PairIds
<1>7. Chunk' = Chunk BY DEF TakePage, Chunk
<1>8. CASE page < Len(listed)
  <2>1. turn' = turn /\ page' = page + 1 /\ phase' = "page" /\ MoreResults
    BY <1>8 DEF TakePage, Query
  <2>2. MoreResults' /\ Listing(Chunk[turn])' = listed BY <1>7, <2>1 DEF MoreResults, Listing
  <2>3. page' \in 1..Len(listed) BY <1>1, <1>2, <1>8, <2>1
  <2>4. QED BY <1>6, <2>1, <2>2, <2>3 DEF ListInv
<1>9. CASE ~(page < Len(listed))
  <2>1. turn' = turn + 1 /\ page' = 1 /\ phase' = "results" BY <1>9 DEF TakePage
  <2>2. QED BY <1>6, <2>1 DEF ListInv
<1>10. QED BY <1>8, <1>9

LEMMA ListStep ==
  ASSUME ListInv, [Next]_scaVars
  PROVE  ListInv'
<1> DEFINE Listed == <<pairs, page, deps, chunk>>
           Past == phase \notin {"idle", "batch", "page", "results"}
<1>1. ASSUME UNCHANGED <<Listed, phase, turn>> PROVE ListInv'
  BY <1>1 DEF ListInv, PairIds, MoreResults, Chunk, Listing
<1>2. ASSUME UNCHANGED Listed, Past', turn' \in Nat \ {0} PROVE ListInv'
  BY <1>2 DEF ListInv, PairIds
<1>3. CASE UNCHANGED scaVars BY <1>1, <1>3 DEF scaVars, osvVars, matchVars
<1>4. CASE ScanStep
  <2>1. CASE UNCHANGED osvVars BY <1>1, <2>1 DEF osvVars, matchVars
  <2>2. CASE StartMatch(inventory')
    BY <2>2 DEF StartMatch, Query, ListInv, PairIds
  <2>3. QED BY <1>4, <2>1, <2>2
       DEF ScanStep, StartScan, SkipManifest, ReadManifest, TakeInventory, ReportMatched, ReportFailure
<1>5. CASE ExpireDeadline BY <1>1, <1>5 DEF ExpireDeadline, matchVars
<1>6. CASE \E r \in Fetchers \cup {Caller} : RequestStep(r)
  BY <1>1, <1>6 DEF RequestStep, Answered, Refused, Retryable, DeadlineFails, TryAgain, matchVars
<1>7. CASE \E w \in Fetchers : FetcherStep(w)
  BY <1>1, <1>7 DEF FetcherStep, HandOver, BeginFetch, EndFetch, LeavePool, matchVars
<1>8. CASE MatchStep
  <2>1. CASE QueryAnswered
    BY <2>1, ListingIsPaged DEF QueryAnswered, matchVars, ListInv, PairIds, MoreResults, Chunk, Listing
  <2>2. CASE QueryFails
    <3>1. turn' = turn /\ UNCHANGED Listed /\ phase' = "done" BY <2>2 DEF QueryFails, Fail
    <3>2. QED BY <1>2, <3>1 DEF ListInv
  <2>3. CASE TakePage BY <2>3, PageIsTaken
  <2>4. CASE NextBatch
    <3>1. page = 1 BY <2>4 DEF NextBatch, ListInv
    <3>2. page' = page /\ pairs' = pairs /\ turn' = 1 /\ phase' \in {"batch", "prefetch"}
      BY <2>4 DEF NextBatch, Query
    <3>3. QED BY <3>1, <3>2 DEF ListInv, PairIds
  <2>5. CASE StopHanding BY <1>1, <2>5 DEF StopHanding
  <2>6. CASE PrefetchEnds
    <3>1. turn' = turn /\ UNCHANGED Listed /\ phase' \in {"done", "hydrate"}
      BY <2>6 DEF PrefetchEnds, Fail, matchVars
    <3>2. QED BY <1>2, <3>1 DEF ListInv
  <2>7. CASE Resolve \/ ReportAnyway \/ StartMerge \/ NextDependency \/ ReturnMatched
    <3>1. turn' \in Nat \ {0} /\ UNCHANGED Listed /\ Past'
      BY <2>7 DEF Resolve, ReportAnyway, StartMerge, NextDependency, ReturnMatched, Merging, ListInv
    <3>2. QED BY <1>2, <3>1
  <2>8. CASE FetchAgain BY <1>1, <2>8 DEF FetchAgain, matchVars
  <2>9. CASE LinkNext \/ EmitGroup BY <1>1, <2>9 DEF LinkNext, EmitGroup
  <2>10. QED BY <1>8, <2>1, <2>2, <2>3, <2>4, <2>5, <2>6, <2>7, <2>8, <2>9 DEF MatchStep
<1>9. QED BY <1>3, <1>4, <1>5, <1>6, <1>7, <1>8 DEF Next, OsvStep

------------------------------------------------------------------------------
(* Who has which advisory in hand.                                            *)

Requesters == Fetchers \cup {Caller}
InHand == {"took", "ask", "backoff"}

\* A body is cached when it has been served, and not before; until then at most
\* one goroutine is after it, and it is not waiting in the queue as well.
PoolInv ==
  /\ request \in [Requesters -> [at : Postures, id : Ids \cup {NoId}, tries : Nat]]
  /\ queue \in Seq(Ids) /\ \A m, n \in 1..Len(queue) : queue[m] = queue[n] => m = n
  /\ cached \subseteq Ids /\ served \in [Ids -> Nat]
  /\ \A id \in Ids : served[id] = IF id \in cached THEN 1 ELSE 0
  /\ \A r \in Requesters : request[r].at \in {"ask", "backoff"} => request[r].id \notin cached
  /\ \A r \in Requesters : request[r].at \in InHand =>
       \A n \in 1..Len(queue) : queue[n] # request[r].id
  /\ \A r, s \in Requesters :
       r # s /\ request[r].at \in InHand /\ request[s].at \in InHand
         => request[r].id # request[s].id \/ request[r].id = NoId
  /\ phase # "prefetch" => queue = <<>> /\ \A w \in Fetchers : request[w] = Gone
  /\ phase \in {"idle", "batch", "page", "results", "prefetch"} => Main.id = NoId

LEMMA NoIdIsNone == NoId \notin Ids
BY IdsAssumption DEF NoId

LEMMA PoolInit == Init => PoolInv
<1>1. SUFFICES ASSUME Init PROVE PoolInv OBVIOUS
<1>2. /\ phase = "idle" /\ queue = <<>> /\ cached = {} /\ served = [id \in Ids |-> 0]
      /\ request = [r \in Requesters |-> IF r = Caller THEN Idle ELSE Gone]
  BY <1>1 DEF Init, OsvInit, Requesters
<1>3. queue \in Seq(Ids) /\ Len(queue) = 0 BY <1>2, EmptySeq
<1>4. request \in [Requesters -> [at : Postures, id : Ids \cup {NoId}, tries : Nat]]
  BY <1>2 DEF Idle, Gone, Postures
<1>5. \A r \in Requesters : request[r].at \notin InHand BY <1>2 DEF Idle, Gone, InHand
<1>6. \A w \in Fetchers : request[w] = Gone BY <1>2, OsvAssumption DEF Requesters
<1>7. Main.id = NoId BY <1>2 DEF Main, Requesters, Idle
<1>8. QED BY <1>2, <1>3, <1>4, <1>5, <1>6, <1>7 DEF PoolInv, InHand

\* A request changes hands with its ID, or lets it go.
LEMMA RequestKeepsPool ==
  ASSUME PoolInv, NEW r \in Requesters, RequestStep(r)
  PROVE  PoolInv'
<1>1. UNCHANGED <<phase, queue>> BY DEF RequestStep, Answered, Refused, Retryable, DeadlineFails, TryAgain, matchVars
<1>2. /\ \A s \in Requesters \ {r} : request'[s] = request[s]
      /\ request'[r].id = request[r].id /\ request[r].at \in {"ask", "backoff"}
      /\ request'[r].at \in {"ask", "backoff", "got", "failed"}
      /\ request' \in [Requesters -> [at : Postures, id : Ids \cup {NoId}, tries : Nat]]
  <2>2. request[r].at \in {"ask", "backoff"} /\ request[r].tries \in Nat
    BY DEF RequestStep, Answered, Refused, Retryable, DeadlineFails, TryAgain, PoolInv
  <2>3. PICK a \in {"ask", "got", "failed", "backoff"}, n \in Nat :
          request' = [request EXCEPT ![r] = [at |-> a, id |-> request[r].id, tries |-> n]]
    <3>1. ASSUME NEW a, request' = [request EXCEPT ![r].at = a]
          PROVE  request' = [request EXCEPT ![r] = [at |-> a, id |-> request[r].id, tries |-> request[r].tries]]
      <4>1. request[r] \in [at : Postures, id : Ids \cup {NoId}, tries : Nat] BY DEF PoolInv
      <4>2. [request[r] EXCEPT !.at = a] = [at |-> a, id |-> request[r].id, tries |-> request[r].tries]
        BY <4>1
      <4>3. QED BY <3>1, <4>2
    <3>2. CASE TryAgain(r)
      <4>1. request[r].tries + 1 \in Nat BY <2>2
      <4>2. request' = [request EXCEPT ![r] = [at |-> "ask", id |-> request[r].id, tries |-> request[r].tries + 1]]
        BY <3>2 DEF TryAgain
      <4>3. QED BY <4>1, <4>2
    <3>3. CASE Answered(r) BY <2>2, <3>1, <3>3 DEF Answered
    <3>4. CASE Refused(r) BY <2>2, <3>1, <3>4 DEF Refused
    <3>5. CASE Retryable(r) BY <2>2, <3>1, <3>5 DEF Retryable
    <3>6. CASE DeadlineFails(r) BY <2>2, <3>1, <3>6 DEF DeadlineFails
    <3>7. QED BY <3>2, <3>3, <3>4, <3>5, <3>6 DEF RequestStep
  <2>4. QED BY <2>2, <2>3 DEF PoolInv, Postures
<1>3. phase # "prefetch" => r = Caller BY <1>2 DEF PoolInv, Gone, Requesters
<1>4. phase # "prefetch" => \A w \in Fetchers : request'[w] = Gone
  BY <1>2, <1>3, OsvAssumption DEF PoolInv, Requesters
<1>5. Main.id = NoId => Main'.id = NoId BY <1>2 DEF Main, Requesters
<1>6. /\ cached' \subseteq Ids /\ served' \in [Ids -> Nat]
      /\ \A id \in Ids : served'[id] = IF id \in cached' THEN 1 ELSE 0
      /\ \A s \in Requesters : request'[s].at \in {"ask", "backoff"} => request'[s].id \notin cached'
  <2>1. CASE UNCHANGED <<cached, served>> BY <1>2, <2>1 DEF PoolInv
  <2>2. CASE Answered(r) /\ request[r].id # NoId
    <3> DEFINE id == request[r].id
    <3>1. id \in Ids BY <2>2 DEF PoolInv
    <3>2. cached' = cached \cup {id} /\ served' = [served EXCEPT ![id] = @ + 1]
          /\ request'[r].at = "got"
      BY <2>2 DEF Answered, PoolInv
    <3>3. id \notin cached /\ served[id] = 0 BY <1>2, <3>1 DEF PoolInv
    <3>4. ASSUME NEW s \in Requesters, request'[s].at \in {"ask", "backoff"}
          PROVE  request'[s].id \notin cached'
      <4>1. s # r BY <3>2, <3>4
      <4>2. request'[s] = request[s] BY <1>2, <4>1
      <4>3. request[s].id # id BY <1>2, <2>2, <3>4, <4>1, <4>2 DEF PoolInv, InHand
      <4>4. request[s].id \notin cached BY <3>4, <4>2 DEF PoolInv
      <4>5. QED BY <3>2, <4>2, <4>3, <4>4
    <3>5. QED BY <3>1, <3>2, <3>3, <3>4 DEF PoolInv
  <2>3. QED BY <2>1, <2>2 DEF RequestStep, Answered, Refused, Retryable, DeadlineFails, TryAgain
<1>7. \A s \in Requesters : request'[s].at \in InHand =>
        request[s].at \in InHand /\ request'[s].id = request[s].id
  BY <1>2 DEF InHand
<1>8. QED BY <1>1, <1>2, <1>4, <1>5, <1>6, <1>7 DEF PoolInv

\* A fetcher takes from the queue what nobody has, and lets go of what it had.
LEMMA FetcherKeepsPool ==
  ASSUME PoolInv, NEW w \in Fetchers, FetcherStep(w)
  PROVE  PoolInv'
<1>1. w \in Requesters /\ w # Caller BY OsvAssumption DEF Requesters
<1>2. UNCHANGED <<phase, cached, served>>
  BY DEF FetcherStep, HandOver, BeginFetch, EndFetch, LeavePool
<1>3. phase = "prefetch" BY DEF FetcherStep, HandOver, BeginFetch, EndFetch, LeavePool, PoolInv, Gone
<1>4. \A s \in Requesters \ {w} : request'[s] = request[s]
  BY DEF FetcherStep, HandOver, BeginFetch, EndFetch, LeavePool, PoolInv
<1>5. Main' = Main BY <1>1, <1>4 DEF Main, Requesters
<1>6. CASE HandOver(w)
  <2> DEFINE id == Head(queue)
  <2>1. queue # <<>> /\ queue \in Seq(Ids) BY <1>6 DEF HandOver, PoolInv
  <2>2. Len(queue) \in Nat \ {0} /\ id = queue[1] /\ id \in Ids
    BY <2>1, EmptySeq, HeadTailProperties
  <2>3. /\ queue' \in Seq(Ids)
        /\ queue' = <<>> \/ (Len(queue') = Len(queue) - 1 /\ \A n \in 1..Len(queue') : queue'[n] = queue[n + 1])
    BY <1>6, <2>1, EmptySeq, HeadTailProperties DEF HandOver
  <2>4. \A n \in 1..Len(queue') : n + 1 \in 1..Len(queue) /\ queue'[n] = queue[n + 1]
    BY <2>2, <2>3, EmptySeq
  <2>5. request'[w] = [at |-> "took", id |-> id, tries |-> 0] BY <1>1, <1>6 DEF HandOver, PoolInv
  <2>6. request' \in [Requesters -> [at : Postures, id : Ids \cup {NoId}, tries : Nat]]
    BY <1>1, <1>6, <2>2 DEF HandOver, PoolInv, Postures
  <2>7. \A m, n \in 1..Len(queue') : queue'[m] = queue'[n] => m = n
    BY <2>2, <2>3, <2>4 DEF PoolInv
  <2>8. ASSUME NEW s \in Requesters, request'[s].at \in InHand, NEW n \in 1..Len(queue')
        PROVE  queue'[n] # request'[s].id
    <3>1. CASE s = w
      <4>1. n + 1 # 1 /\ 1 \in 1..Len(queue) BY <2>2, <2>4
      <4>2. queue[n + 1] # queue[1] BY <2>4, <4>1 DEF PoolInv
      <4>3. QED BY <2>2, <2>4, <2>5, <3>1, <4>2
    <3>2. CASE s # w BY <1>4, <2>4, <2>8, <3>2 DEF PoolInv
    <3>3. QED BY <3>1, <3>2
  <2>9. ASSUME NEW s \in Requesters, s # w, request'[s].at \in InHand PROVE request'[s].id # id
    <3>1. 1 \in 1..Len(queue) BY <2>2
    <3>2. QED BY <1>4, <2>2, <2>9, <3>1 DEF PoolInv
  <2>10. \A r, s \in Requesters :
           r # s /\ request'[r].at \in InHand /\ request'[s].at \in InHand
             => request'[r].id # request'[s].id \/ request'[r].id = NoId
    BY <1>4, <2>5, <2>9 DEF PoolInv
  <2>11. \A s \in Requesters : request'[s].at \in {"ask", "backoff"} => request'[s].id \notin cached
    BY <1>4, <2>5 DEF PoolInv
  <2>12. QED BY <1>2, <1>3, <1>5, <2>3, <2>6, <2>7, <2>8, <2>10, <2>11 DEF PoolInv
<1>7. CASE BeginFetch(w) \/ EndFetch(w) \/ LeavePool(w)
  <2>1. queue' = queue BY <1>7 DEF BeginFetch, EndFetch, LeavePool, matchVars
  <2>2. request' \in [Requesters -> [at : Postures, id : Ids \cup {NoId}, tries : Nat]]
    <3>1. \A v \in [at : Postures, id : Ids \cup {NoId}, tries : Nat] :
            [request EXCEPT ![w] = v] \in [Requesters -> [at : Postures, id : Ids \cup {NoId}, tries : Nat]]
      BY DEF PoolInv
    <3>2. request[w].id \in Ids \cup {NoId} BY <1>1 DEF PoolInv
    <3>3. /\ Gone \in [at : Postures, id : Ids \cup {NoId}, tries : Nat]
          /\ [Gone EXCEPT !.at = "ready"] \in [at : Postures, id : Ids \cup {NoId}, tries : Nat]
          /\ Asking(request[w].id) \in [at : Postures, id : Ids \cup {NoId}, tries : Nat]
      BY <3>2 DEF Postures, Gone, Asking
    <3>4. QED BY <1>1, <1>7, <3>1, <3>3 DEF BeginFetch, EndFetch, LeavePool, PoolInv
  <2>3. request'[w].at \in InHand =>
          request[w].at \in InHand /\ request'[w].id = request[w].id /\ request[w].id \notin cached
    BY <1>1, <1>7 DEF BeginFetch, EndFetch, LeavePool, PoolInv, Gone, Asking, InHand
  <2>4. \A s \in Requesters : request'[s].at \in InHand =>
          request[s].at \in InHand /\ request'[s].id = request[s].id
    BY <1>4, <2>3
  <2>5. \A s \in Requesters : request'[s].at \in {"ask", "backoff"} => request'[s].id \notin cached
    BY <1>4, <2>3 DEF PoolInv, InHand
  <2>6. QED BY <1>2, <1>3, <1>5, <2>1, <2>2, <2>4, <2>5 DEF PoolInv
<1>8. QED BY <1>6, <1>7 DEF FetcherStep

\* What Match itself does outside the pool.
LEMMA MatchKeepsPool ==
  ASSUME ListInv, PoolInv, MatchStep
  PROVE  PoolInv'
<1> DEFINE Request == [at : Postures, id : Ids \cup {NoId}, tries : Nat]
           Same == <<queue, cached, served>>
<1>1. Caller \in Requesters /\ Caller \notin Fetchers BY OsvAssumption DEF Requesters
<1>2. /\ Idle \in Request /\ Idle.id = NoId /\ Idle.at \notin InHand
      /\ \A id \in Ids \cup {NoId} : Asking(id) \in Request /\ Asking(id).id = id
      /\ [Gone EXCEPT !.at = "ready"] \in Request
      /\ [Gone EXCEPT !.at = "ready"].id = NoId /\ [Gone EXCEPT !.at = "ready"].at \notin InHand
      /\ Gone.at \notin InHand
  BY DEF Idle, Asking, Gone, Postures, InHand
<1> HIDE DEF Request
\* Only the caller's request changes, to one that is after no advisory.
<1>3. ASSUME NEW new \in Request, new.id = NoId, request' = [request EXCEPT ![Caller] = new],
             UNCHANGED Same,
             phase = "prefetch" =>
               \/ phase' = "prefetch"
               \/ queue = <<>> /\ \A w \in Fetchers : request[w] = Gone
      PROVE  PoolInv'
  <2>1. /\ \A w \in Fetchers : request'[w] = request[w]
        /\ \A r \in Requesters : r # Caller => request'[r] = request[r]
        /\ request'[Caller].id = NoId /\ Main'.id = NoId
    BY <1>1, <1>3 DEF PoolInv, Main
  <2>2. request' \in [Requesters -> Request] BY <1>3 DEF PoolInv, Request
  <2>3. phase' # "prefetch" => queue = <<>> /\ \A w \in Fetchers : request'[w] = Gone
    BY <1>3, <2>1 DEF PoolInv
  <2>4. \A n \in 1..Len(queue) : queue[n] # NoId
    BY NoIdIsNone, LenProperties DEF PoolInv
  <2>5. NoId \notin cached BY NoIdIsNone DEF PoolInv
  <2>6. \A r \in Requesters : request'[r].at \in {"ask", "backoff"} => request'[r].id \notin cached
    BY <2>1, <2>5 DEF PoolInv
  <2>7. \A r \in Requesters : request'[r].at \in InHand => \A n \in 1..Len(queue) : queue[n] # request'[r].id
    BY <2>1, <2>4 DEF PoolInv
  <2>8. \A r, s \in Requesters :
          r # s /\ request'[r].at \in InHand /\ request'[s].at \in InHand
            => request'[r].id # request'[s].id \/ request'[r].id = NoId
    BY <2>1 DEF PoolInv
  <2>9. QED BY <1>3, <2>1, <2>2, <2>3, <2>6, <2>7, <2>8 DEF PoolInv, Request
\* Nothing of the pool changes.
<1>4. ASSUME UNCHANGED <<Same, request>>, phase # "prefetch", phase' \notin {"idle", "batch", "page", "results", "prefetch"}
      PROVE  PoolInv'
  BY <1>4 DEF PoolInv, Main
<1>5. CASE QueryAnswered
  BY <1>2, <1>3, <1>5 DEF QueryAnswered, matchVars
<1>6. CASE QueryFails
  BY <1>2, <1>3, <1>6 DEF QueryFails, Fail
<1>7. CASE TakePage
  <2>1. CASE UNCHANGED <<phase, request>> BY <1>7, <2>1 DEF TakePage, PoolInv, Main
  <2>2. CASE Query("page") BY <1>2, <1>3, <1>7, <2>2 DEF TakePage, Query
  <2>3. QED BY <1>7, <2>1, <2>2 DEF TakePage
<1>8. CASE NextBatch
  <2>1. CASE Query("batch") /\ UNCHANGED queue BY <1>2, <1>3, <1>8, <2>1 DEF NextBatch, Query
  <2>2. CASE ~(chunk' < Len(deps))
    <3> DEFINE ready == [Gone EXCEPT !.at = "ready"]
    <3>1. /\ phase' = "prefetch" /\ queue' = FirstSeen(Advised) /\ UNCHANGED <<cached, served>>
          /\ request' = [r \in DOMAIN request |-> IF r \in Crew(Len(queue')) THEN ready ELSE request[r]]
      BY <1>8, <2>2 DEF NextBatch
    <3>2. IsASequence(Advised) /\ \A n \in 1..Len(Advised) : Advised[n] \in Ids
      <4>1. DOMAIN pairs = 1..Len(pairs) BY DEF ListInv, IsASequence
      <4>2. Advised = [n \in 1..Len(pairs) |-> pairs[n].id] BY <4>1 DEF Advised
      <4>3. Len(Advised) = Len(pairs) /\ Len(pairs) \in Nat BY <4>2 DEF ListInv, IsASequence
      <4>4. QED BY <4>2, <4>3 DEF IsASequence, ListInv, PairIds
    <3>3. /\ IsASequence(queue')
          /\ \A n \in 1..Len(queue') : \E k \in 1..Len(Advised) : queue'[n] = Advised[k]
          /\ \A m, n \in 1..Len(queue') : queue'[m] = queue'[n] => m = n
      BY <3>1, <3>2, SeenOnce
    <3>4. queue' \in Seq(Ids)
      <4>1. queue' \in [1..Len(queue') -> Ids] BY <3>2, <3>3 DEF IsASequence
      <4>2. QED BY <3>3, <4>1, SeqDef DEF IsASequence
    <3>5. phase = "results" BY <1>8 DEF NextBatch
    <3>6. /\ \A r \in Requesters : request[r].id = NoId
          /\ \A w \in Fetchers : request[w] = Gone
      BY <3>5 DEF PoolInv, Main, Gone, Requesters
    <3>7. /\ \A r \in Requesters : request'[r].id = NoId
          /\ request' \in [Requesters -> Request]
      BY <1>2, <3>1, <3>6 DEF PoolInv, Request
    <3>8. \A n \in 1..Len(queue') : queue'[n] # NoId BY <3>2, <3>3, NoIdIsNone
    <3>9. NoId \notin cached BY NoIdIsNone DEF PoolInv
    <3>10. Main'.id = NoId BY <1>1, <3>7 DEF Main
    <3>11. QED BY <3>1, <3>3, <3>4, <3>7, <3>8, <3>9, <3>10 DEF PoolInv, Request
  <2>3. QED BY <1>8, <2>1, <2>2 DEF NextBatch
<1>9. CASE StopHanding
  <2>1. queue' = <<>> /\ Len(queue') = 0 /\ queue' \in Seq(Ids) BY <1>9, EmptySeq DEF StopHanding
  <2>2. QED BY <1>9, <2>1 DEF StopHanding, PoolInv, Main
<1>10. CASE PrefetchEnds
  <2>1. queue = <<>> /\ \A w \in Fetchers : request[w] = Gone BY <1>10 DEF PrefetchEnds, Prefetched
  <2>2. CASE Fail BY <1>2, <1>3, <2>1, <2>2 DEF Fail
  <2>3. CASE phase' = "hydrate" /\ UNCHANGED <<request, Same>>
    BY <2>1, <2>3 DEF PoolInv
  <2>4. QED BY <1>10, <2>2, <2>3 DEF PrefetchEnds, matchVars
<1>11. CASE Resolve \/ ReportAnyway BY <1>2, <1>3, <1>11 DEF Resolve, ReportAnyway
<1>12. CASE FetchAgain
  <2> DEFINE id == pairs[turn].id
  <2>1. /\ phase = "hydrate" /\ phase' = "hydrate" /\ UNCHANGED Same
        /\ turn <= Len(pairs) /\ id \notin cached /\ request' = [request EXCEPT ![Caller] = Asking(id)]
    BY <1>12 DEF FetchAgain, matchVars
  <2>2. id \in Ids BY <2>1 DEF ListInv, PairIds, IsASequence
  <2>3. queue = <<>> /\ Len(queue) = 0 /\ \A w \in Fetchers : request[w] = Gone BY <2>1, EmptySeq DEF PoolInv
  <2>4. /\ \A w \in Fetchers : request'[w] = Gone
        /\ request'[Caller] = Asking(id) /\ request' \in [Requesters -> Request]
    BY <1>1, <1>2, <2>1, <2>2, <2>3 DEF PoolInv, Request
  <2>5. \A r \in Requesters : request'[r].at \in InHand => r = Caller /\ request'[r].id \notin cached
    BY <1>2, <2>1, <2>2, <2>4 DEF Requesters
  <2>6. QED BY <2>1, <2>3, <2>4, <2>5 DEF PoolInv, InHand, Request
<1>13. CASE StartMerge \/ LinkNext \/ EmitGroup \/ NextDependency \/ ReturnMatched
  BY <1>4, <1>13 DEF StartMerge, LinkNext, EmitGroup, NextDependency, ReturnMatched, Merging
<1>14. QED BY <1>5, <1>6, <1>7, <1>8, <1>9, <1>10, <1>11, <1>12, <1>13 DEF MatchStep

LEMMA PoolStep ==
  ASSUME ListInv, PoolInv, [Next]_scaVars
  PROVE  PoolInv'
<1>1. ASSUME UNCHANGED <<phase, queue, request, cached, served>> PROVE PoolInv'
  BY <1>1 DEF PoolInv, Main
<1>2. CASE UNCHANGED scaVars BY <1>1, <1>2 DEF scaVars, osvVars, matchVars
<1>3. CASE ScanStep
  <2>1. CASE UNCHANGED osvVars BY <1>1, <2>1 DEF osvVars, matchVars
  <2>2. CASE StartMatch(inventory')
    <3>1. /\ phase = "idle" /\ phase' = "batch" /\ UNCHANGED <<queue, cached, served>>
          /\ request' = [request EXCEPT ![Caller] = Asking(NoId)]
      BY <2>2 DEF StartMatch, Query
    <3>2. Caller \in Requesters /\ Caller \notin Fetchers BY OsvAssumption DEF Requesters
    <3>3. queue = <<>> /\ Len(queue) = 0 /\ \A w \in Fetchers : request[w] = Gone
      BY <3>1, EmptySeq DEF PoolInv
    <3>4. request' \in [Requesters -> [at : Postures, id : Ids \cup {NoId}, tries : Nat]]
      <4>1. Asking(NoId) \in [at : Postures, id : Ids \cup {NoId}, tries : Nat] BY DEF Asking, Postures
      <4>2. QED BY <3>1, <4>1 DEF PoolInv
    <3>5. (\A w \in Fetchers : request'[w] = Gone) /\ request'[Caller] = Asking(NoId)
      BY <3>1, <3>2, <3>3 DEF PoolInv
    <3>6. \A r \in Requesters : request'[r].id = NoId BY <3>5 DEF Requesters, Gone, Asking
    <3>7. NoId \notin cached BY NoIdIsNone DEF PoolInv
    <3>8. QED BY <3>1, <3>2, <3>3, <3>4, <3>5, <3>6, <3>7 DEF PoolInv, Main
  <2>3. QED BY <1>3, <2>1, <2>2
       DEF ScanStep, StartScan, SkipManifest, ReadManifest, TakeInventory, ReportMatched, ReportFailure
<1>4. CASE ExpireDeadline BY <1>1, <1>4 DEF ExpireDeadline, matchVars
<1>5. CASE \E r \in Fetchers \cup {Caller} : RequestStep(r) BY <1>5, RequestKeepsPool DEF Requesters
<1>6. CASE \E w \in Fetchers : FetcherStep(w) BY <1>6, FetcherKeepsPool
<1>7. CASE MatchStep BY <1>7, MatchKeepsPool
<1>8. QED BY <1>2, <1>3, <1>4, <1>5, <1>6, <1>7 DEF Next, OsvStep

\* The body of no advisory is served to a scan twice, whatever OSV lists for how
\* many dependencies, however many fetchers there are and however their requests
\* are refused, retried or cut short, and although what the pool failed to fetch
\* is asked for again.
THEOREM BodiesAreServedOnce == Spec => []BodyServedOnce
<1>1. ListInv /\ PoolInv => BodyServedOnce
  <2>1. ASSUME PoolInv, NEW id \in Ids PROVE served[id] <= 1 BY <2>1 DEF PoolInv
  <2>2. QED BY <2>1 DEF BodyServedOnce
<1>2. Init => ListInv /\ PoolInv BY ListInit, PoolInit
<1>3. ListInv /\ PoolInv /\ [Next]_scaVars => ListInv' /\ PoolInv' BY ListStep, PoolStep
<1>4. QED BY <1>1, <1>2, <1>3, PTL DEF Spec

------------------------------------------------------------------------------
(* What has been asked for in time.                                           *)

Settled == {"got", "failed", "backoff"}

\* While there is time, an advisory is in the queue, in the hands of a fetcher,
\* or has been asked for; once the pool is empty and in time, it is the last.
AskedInv ==
  /\ cached \subseteq asked
  /\ outcome = "ok" => phase = "done"
  /\ outcome = "ok" \/ phase \in {"hydrate", "merge"} => PairIds \subseteq asked
  /\ ~expired => \A r \in Requesters : request[r].at \in Settled => request[r].id \in asked \cup {NoId}
  /\ \A w \in Fetchers : request[w].at \in {"ready", "gone"} => request[w].id = NoId
  /\ phase = "prefetch" /\ ~expired => \A id \in PairIds :
       \/ id \in asked
       \/ \E n \in 1..Len(queue) : queue[n] = id
       \/ \E w \in Fetchers : request[w].id = id

LEMMA AskedInit == Init => AskedInv
<1>1. SUFFICES ASSUME Init PROVE AskedInv OBVIOUS
<1>2. /\ cached = {} /\ outcome = "none" /\ phase = "idle"
      /\ request = [r \in Requesters |-> IF r = Caller THEN Idle ELSE Gone]
  BY <1>1 DEF Init, OsvInit, Requesters
<1>3. \A r \in Requesters : request[r].at \notin Settled /\ request[r].id = NoId
  BY <1>2 DEF Idle, Gone, Settled
<1>4. QED BY <1>2, <1>3 DEF AskedInv, Requesters

LEMMA RequestKeepsAsked ==
  ASSUME PoolInv, AskedInv, NEW r \in Requesters, RequestStep(r)
  PROVE  AskedInv'
<1>1. UNCHANGED <<phase, outcome, pairs, queue, expired>>
  BY DEF RequestStep, Answered, Refused, Retryable, DeadlineFails, TryAgain, matchVars
<1>2. /\ \A s \in Requesters \ {r} : request'[s] = request[s]
      /\ request'[r].id = request[r].id
      /\ request'[r].at \in {"ask", "backoff", "got", "failed"}
  BY DEF RequestStep, Answered, Refused, Retryable, DeadlineFails, TryAgain, PoolInv
<1>3. \A s \in Requesters : request'[s].id = request[s].id BY <1>2
<1>4. asked \subseteq asked' /\ cached' \subseteq asked'
  BY DEF RequestStep, Answered, Refused, Retryable, DeadlineFails, TryAgain, AskedInv
<1>5. ~expired /\ request'[r].at \in Settled => request[r].id \in asked' \cup {NoId}
  BY <1>2 DEF RequestStep, Answered, Refused, Retryable, DeadlineFails, TryAgain, Settled, PoolInv
<1>6. ~expired => \A s \in Requesters : request'[s].at \in Settled => request'[s].id \in asked' \cup {NoId}
  BY <1>2, <1>4, <1>5 DEF AskedInv
<1>7. \A w \in Fetchers : request'[w].at \in {"ready", "gone"} => request'[w].id = NoId
  BY <1>2 DEF AskedInv, Requesters
<1>8. \A w \in Fetchers : request'[w].id = request[w].id BY <1>3 DEF Requesters
<1>9. QED BY <1>1, <1>4, <1>6, <1>7, <1>8 DEF AskedInv, PairIds

LEMMA FetcherKeepsAsked ==
  ASSUME ListInv, PoolInv, AskedInv, NEW w \in Fetchers, FetcherStep(w)
  PROVE  AskedInv'
<1>1. w \in Requesters /\ \A v \in Fetchers : v \in Requesters BY DEF Requesters
<1>2. UNCHANGED <<phase, outcome, pairs, expired, cached, asked>>
  BY DEF FetcherStep, HandOver, BeginFetch, EndFetch, LeavePool, matchVars
<1>3. phase = "prefetch" BY DEF FetcherStep, HandOver, BeginFetch, EndFetch, LeavePool, PoolInv, Gone
<1>4. \A s \in Requesters \ {w} : request'[s] = request[s]
  BY DEF FetcherStep, HandOver, BeginFetch, EndFetch, LeavePool, PoolInv
<1>5. request'[w].at \notin Settled
      /\ (request'[w].at \in {"ready", "gone"} => request'[w].id = NoId)
  BY <1>1 DEF FetcherStep, HandOver, BeginFetch, EndFetch, LeavePool, PoolInv, Gone, Asking, Settled
<1>6. CASE expired BY <1>1, <1>2, <1>3, <1>4, <1>5, <1>6 DEF AskedInv, PairIds
<1>7. CASE ~expired
  <2>1. ASSUME NEW id \in PairIds
        PROVE  \/ id \in asked
               \/ \E n \in 1..Len(queue') : queue'[n] = id
               \/ \E v \in Fetchers : request'[v].id = id
    <3>1. CASE id \in asked BY <3>1
    <3>2. CASE \E n \in 1..Len(queue) : queue[n] = id
      <4>1. CASE HandOver(w)
        <5>1. queue # <<>> /\ queue \in Seq(Ids) /\ queue' = Tail(queue) /\ request'[w].id = Head(queue)
          BY <1>1, <1>7, <4>1 DEF HandOver, PoolInv
        <5>2. /\ Len(queue) \in Nat \ {0} /\ Head(queue) = queue[1]
              /\ Len(queue') = Len(queue) - 1
              /\ \A n \in 1..Len(queue') : queue'[n] = queue[n + 1]
          BY <5>1, EmptySeq, HeadTailProperties
        <5>3. PICK n \in 1..Len(queue) : queue[n] = id BY <3>2
        <5>4. CASE n = 1 BY <5>1, <5>2, <5>3, <5>4
        <5>5. CASE n # 1
          <6>1. n - 1 \in 1..Len(queue') /\ (n - 1) + 1 = n BY <5>2, <5>3, <5>5
          <6>2. queue'[n - 1] = id BY <5>2, <5>3, <6>1
          <6>3. QED BY <6>1, <6>2
        <5>6. QED BY <5>4, <5>5
      <4>2. CASE ~HandOver(w)
        <5>1. queue' = queue BY <4>2 DEF FetcherStep, BeginFetch, EndFetch, LeavePool, matchVars
        <5>2. QED BY <3>2, <5>1
      <4>3. QED BY <4>1, <4>2
    <3>3. CASE \E v \in Fetchers : request[v].id = id
      <4>1. PICK v \in Fetchers : request[v].id = id BY <3>3
      <4>2. CASE v # w BY <1>1, <1>4, <4>1, <4>2
      <4>3. CASE v = w
        <5>1. CASE HandOver(w) \/ LeavePool(w)
          <6>1. id = NoId BY <4>1, <4>3, <5>1 DEF HandOver, LeavePool, AskedInv
          <6>2. QED BY <6>1, NoIdIsNone DEF ListInv
        <5>2. CASE BeginFetch(w)
          <6>1. request'[w].id = id \/ id \in cached
            BY <1>1, <1>7, <4>1, <4>3, <5>2 DEF BeginFetch, PoolInv, Asking
          <6>2. QED BY <6>1 DEF AskedInv
        <5>3. CASE EndFetch(w)
          <6>1. id \in asked \cup {NoId} BY <1>1, <1>7, <4>1, <4>3, <5>3 DEF EndFetch, AskedInv, Settled
          <6>2. QED BY <6>1, NoIdIsNone DEF ListInv
        <5>4. QED BY <5>1, <5>2, <5>3 DEF FetcherStep
      <4>4. QED BY <4>2, <4>3
    <3>4. QED BY <1>3, <1>7, <3>1, <3>2, <3>3 DEF AskedInv
  <2>2. QED BY <1>1, <1>2, <1>3, <1>4, <1>5, <2>1 DEF AskedInv, PairIds
<1>8. QED BY <1>6, <1>7

LEMMA MatchKeepsAsked ==
  ASSUME ListInv, PoolInv, AskedInv, MatchStep
  PROVE  AskedInv'
<1>1. Caller \in Requesters /\ Caller \notin Fetchers /\ \A w \in Fetchers : w \in Requesters
  BY OsvAssumption DEF Requesters
<1>2. /\ Idle.at \notin Settled /\ \A id : Asking(id).at \notin Settled
      /\ [Gone EXCEPT !.at = "ready"].id = NoId /\ [Gone EXCEPT !.at = "ready"].at \notin Settled
      /\ Gone.at \notin Settled /\ Gone.id = NoId
  BY DEF Idle, Asking, Gone, Settled
<1>3. UNCHANGED <<expired, asked, cached>>
  BY DEF MatchStep, QueryAnswered, QueryFails, TakePage, NextBatch, StopHanding, PrefetchEnds, Resolve,
         FetchAgain, ReportAnyway, StartMerge, LinkNext, EmitGroup, NextDependency, ReturnMatched, Fail,
         matchVars
\* Of the requests, the caller's, if any, is replaced by one not yet settled.
<1>4. ASSUME NEW new, new.at \notin Settled,
             request' = request \/ request' = [request EXCEPT ![Caller] = new]
      PROVE  /\ ~expired => \A r \in Requesters : request'[r].at \in Settled => request'[r].id \in asked \cup {NoId}
             /\ \A w \in Fetchers : request'[w] = request[w]
  <2>1. CASE request' = request BY <2>1 DEF AskedInv
  <2>2. CASE request' = [request EXCEPT ![Caller] = new]
    <3>1. request'[Caller] = new /\ \A r \in Requesters : r # Caller => request'[r] = request[r]
      BY <1>1, <2>2 DEF PoolInv
    <3>2. QED BY <1>1, <1>4, <3>1 DEF AskedInv
  <2>3. QED BY <1>4, <2>1, <2>2
\* Match stays where no verdict depends on what was asked.
<1>5. ASSUME NEW new, new.at \notin Settled,
             request' = request \/ request' = [request EXCEPT ![Caller] = new],
             outcome' # "ok", phase' \notin {"prefetch", "hydrate", "merge"}
      PROVE  AskedInv'
  BY <1>3, <1>4, <1>5 DEF AskedInv
\* Match goes on with a list that is complete.
<1>6. ASSUME NEW new, new.at \notin Settled,
             request' = request \/ request' = [request EXCEPT ![Caller] = new],
             pairs' = pairs, PairIds \subseteq asked, outcome' = "ok" => phase' = "done",
             phase' # "prefetch"
      PROVE  AskedInv'
  BY <1>3, <1>4, <1>6 DEF AskedInv, PairIds
<1>7. CASE QueryAnswered
  <2>1. outcome' = outcome /\ outcome # "ok" BY <1>7 DEF QueryAnswered, matchVars, AskedInv
  <2>2. QED BY <1>2, <1>5, <1>7, <2>1 DEF QueryAnswered
<1>8. CASE QueryFails BY <1>2, <1>5, <1>8 DEF QueryFails, Fail
<1>9. CASE TakePage
  <2>1. outcome' = outcome /\ outcome # "ok" BY <1>9 DEF TakePage, AskedInv
  <2>2. CASE UNCHANGED <<phase, request>> BY <1>2, <1>5, <1>9, <2>1, <2>2 DEF TakePage
  <2>3. CASE Query("page") BY <1>2, <1>5, <2>1, <2>3 DEF Query
  <2>4. QED BY <1>9, <2>2, <2>3 DEF TakePage
<1>10. CASE NextBatch
  <2>1. outcome' = outcome /\ outcome # "ok" BY <1>10 DEF NextBatch, AskedInv
  <2>2. CASE Query("batch") BY <1>2, <1>5, <2>1, <2>2 DEF Query
  <2>3. CASE ~(chunk' < Len(deps))
    <3> DEFINE ready == [Gone EXCEPT !.at = "ready"]
    <3>1. /\ phase' = "prefetch" /\ queue' = FirstSeen(Advised) /\ pairs' = pairs
          /\ request' = [r \in DOMAIN request |-> IF r \in Crew(Len(queue')) THEN ready ELSE request[r]]
      BY <1>10, <2>3 DEF NextBatch
    <3>2. IsASequence(Advised) /\ Len(Advised) = Len(pairs) /\ \A n \in 1..Len(pairs) : Advised[n] = pairs[n].id
      <4>1. DOMAIN pairs = 1..Len(pairs) BY DEF ListInv, IsASequence
      <4>2. Advised = [n \in 1..Len(pairs) |-> pairs[n].id] BY <4>1 DEF Advised
      <4>3. Len(Advised) = Len(pairs) /\ Len(pairs) \in Nat BY <4>2 DEF ListInv, IsASequence
      <4>4. QED BY <4>2, <4>3 DEF IsASequence
    <3>3. \A k \in 1..Len(Advised) : \E n \in 1..Len(queue') : queue'[n] = Advised[k]
      BY <3>1, <3>2, SeenOnce
    <3>4. \A id \in PairIds : \E n \in 1..Len(queue') : queue'[n] = id BY <3>2, <3>3 DEF PairIds
    <3>5. \A r \in Requesters : request'[r] = ready \/ request'[r] = request[r] BY <3>1 DEF PoolInv
    <3>6. /\ \A r \in Requesters : request'[r].at \in Settled => request'[r] = request[r]
          /\ \A w \in Fetchers : request'[w].id = NoId \/ request'[w] = request[w]
      BY <1>1, <1>2, <3>5
    <3>7. PairIds' = PairIds BY <3>1 DEF PairIds
    <3> HIDE DEF ready
    <3>8. QED BY <1>3, <2>1, <3>1, <3>4, <3>6, <3>7 DEF AskedInv
  <2>4. QED BY <1>10, <2>2, <2>3 DEF NextBatch
<1>11. CASE StopHanding BY <1>3, <1>11 DEF StopHanding, AskedInv, PairIds
<1>12. CASE PrefetchEnds
  <2>1. CASE Fail BY <1>2, <1>5, <2>1 DEF Fail
  <2>2. CASE ~expired /\ phase' = "hydrate" /\ UNCHANGED <<matchVars, request>>
    <3>1. phase = "prefetch" /\ queue = <<>> /\ Len(queue) = 0 /\ \A w \in Fetchers : request[w].id = NoId
      BY <1>2, <1>12, EmptySeq DEF PrefetchEnds, Prefetched
    <3>2. PairIds \subseteq asked BY <2>2, <3>1, NoIdIsNone DEF AskedInv, ListInv
    <3>3. pairs' = pairs /\ outcome' = outcome /\ outcome # "ok" BY <2>2, <3>1 DEF matchVars, AskedInv
    <3>4. QED BY <1>2, <1>6, <2>2, <3>2, <3>3
  <2>3. QED BY <1>12, <2>1, <2>2 DEF PrefetchEnds
<1>13. CASE Resolve \/ FetchAgain \/ ReportAnyway \/ StartMerge \/ LinkNext \/ EmitGroup \/ NextDependency \/ ReturnMatched
  <2>1. phase \in {"hydrate", "merge"} /\ pairs' = pairs /\ phase' # "prefetch" /\ (outcome' = outcome \/ phase' = "done")
    BY <1>13 DEF Resolve, FetchAgain, ReportAnyway, StartMerge, LinkNext, EmitGroup, NextDependency, ReturnMatched, Merging, matchVars
  <2>2. PairIds \subseteq asked /\ (outcome' = "ok" => phase' = "done") BY <2>1 DEF AskedInv
  <2>3. \E new \in {Idle, Asking(pairs[turn].id)} : request' = request \/ request' = [request EXCEPT ![Caller] = new]
    BY <1>13 DEF Resolve, FetchAgain, ReportAnyway, StartMerge, LinkNext, EmitGroup, NextDependency, ReturnMatched, Merging
  <2>4. QED BY <1>2, <1>6, <2>1, <2>2, <2>3
<1>14. QED BY <1>7, <1>8, <1>9, <1>10, <1>11, <1>12, <1>13 DEF MatchStep

LEMMA AskedStep ==
  ASSUME ListInv, PoolInv, AskedInv, [Next]_scaVars
  PROVE  AskedInv'
<1>1. ASSUME UNCHANGED osvVars PROVE AskedInv'
  BY <1>1 DEF AskedInv, PairIds, osvVars, matchVars
<1>2. CASE UNCHANGED scaVars BY <1>1, <1>2 DEF scaVars
<1>3. CASE ScanStep
  <2>1. CASE UNCHANGED osvVars BY <1>1, <2>1
  <2>2. CASE StartMatch(inventory')
    <3>1. /\ phase = "idle" /\ phase' = "batch" /\ UNCHANGED <<cached, asked, outcome, expired>>
          /\ request' = [request EXCEPT ![Caller] = Asking(NoId)]
      BY <2>2 DEF StartMatch, Query
    <3>2. \A r \in Requesters : request'[r] = Asking(NoId) \/ request'[r] = request[r]
      BY <3>1 DEF PoolInv
    <3>3. Asking(NoId).at = "ask" /\ Asking(NoId).id = NoId BY DEF Asking
    <3>4. \A w \in Fetchers : w \in Requesters BY DEF Requesters
    <3>5. QED BY <3>1, <3>2, <3>3, <3>4 DEF AskedInv, Settled
  <2>3. QED BY <1>3, <2>1, <2>2
       DEF ScanStep, StartScan, SkipManifest, ReadManifest, TakeInventory, ReportMatched, ReportFailure
<1>4. CASE ExpireDeadline BY <1>4 DEF ExpireDeadline, AskedInv, PairIds, matchVars
<1>5. CASE \E r \in Fetchers \cup {Caller} : RequestStep(r) BY <1>5, RequestKeepsAsked DEF Requesters
<1>6. CASE \E w \in Fetchers : FetcherStep(w) BY <1>6, FetcherKeepsAsked
<1>7. CASE MatchStep BY <1>7, MatchKeepsAsked
<1>8. QED BY <1>2, <1>3, <1>4, <1>5, <1>6, <1>7 DEF Next, OsvStep

\* A verdict is never truncated: whenever Match returns advisories, it had asked
\* for the body of each before the deadline, for any number of fetchers, pages
\* and attempts, and wherever the deadline passes.
THEOREM VerdictsAreComplete == Spec => []EveryBodyWasAsked
<1>1. ListInv /\ AskedInv => EveryBodyWasAsked
  <2>1. ASSUME ListInv, PairIds \subseteq asked PROVE {p.id : p \in ToSet(pairs)} \subseteq asked
    <3>1. DOMAIN pairs = 1..Len(pairs) BY <2>1 DEF ListInv, IsASequence
    <3>2. ToSet(pairs) = {pairs[n] : n \in 1..Len(pairs)} BY <3>1 DEF ToSet
    <3>3. QED BY <2>1, <3>2 DEF PairIds
  <2>2. QED BY <2>1 DEF EveryBodyWasAsked, AskedInv
<1>2. Init => ListInv /\ PoolInv /\ AskedInv BY ListInit, PoolInit, AskedInit
<1>3. ListInv /\ PoolInv /\ AskedInv /\ [Next]_scaVars => ListInv' /\ PoolInv' /\ AskedInv'
  BY ListStep, PoolStep, AskedStep
<1>4. QED BY <1>1, <1>2, <1>3, PTL DEF Spec

------------------------------------------------------------------------------
(* How aliases are merged.                                                    *)

Early == {"idle", "batch", "page", "results", "prefetch", "hydrate"}
Group(k) == {j \in DOMAIN label : label[j] = label[k]}
GroupIds(k) == UNION {Mine[j].ids : j \in Group(k)}

\* An ID of a linked advisory has an owner, and the owner is in the same group.
Linked ==
  /\ \A id \in DOMAIN owner : owner[id] \in 1..Len(label)
  /\ \A j \in 1..Len(label) : \A id \in Mine[j].ids :
       id \in DOMAIN owner /\ label[owner[id]] = label[j]

\* What has been merged belongs to the dependencies that are through, or is the
\* group of an advisory of this one that has been emitted.
MergedSoFar ==
  /\ \A n \in 1..Len(matched) : \E t \in 1..Len(Order) : t <= turn /\ matched[n].dep = Order[t]
  /\ turn <= Len(Order) => \A n \in 1..Len(matched) :
       matched[n].dep = Order[turn] => \E k \in 1..emitted : matched[n].ids = GroupIds(k)

GroupInv ==
  /\ IsASequence(advs) /\ IsASequence(matched)
  /\ phase \in Early => matched = <<>> /\ label = <<>> /\ owner = <<>> /\ emitted = 0
  /\ phase = "merge" =>
       /\ IsASequence(label) /\ emitted \in Nat /\ emitted <= Len(Mine)
       /\ emitted > 0 => Len(label) = Len(Mine)
       /\ Len(label) <= Len(Mine)
       /\ Linked /\ MergedSoFar
  /\ GroupsShareNoId

\* The advisories of the dependency at hand are a sequence, and are its own.
LEMMA MineIsMine ==
  ASSUME IsASequence(advs)
  PROVE  /\ IsASequence(Mine)
         /\ \A k \in 1..Len(Mine) : Mine[k].dep = Order[turn]
<1> DEFINE S == {n \in DOMAIN advs : advs[n].dep = Order[turn]}
           picked == Picked(advs, S)
<1>1. DOMAIN advs = 1..Len(advs) /\ Len(advs) \in Nat BY DEF IsASequence
<1>2. S \subseteq 1..Len(advs) /\ S \subseteq Nat BY <1>1
<1>3. Mine = picked BY DEF Mine
<1>4. \A k \in S : advs[k].dep = Order[turn] OBVIOUS
<1> HIDE DEF S
<1>5. IsFiniteSet(S)
  <2>1. IsFiniteSet(1..Len(advs)) BY <1>1, FS_Interval
  <2>2. QED BY <1>2, <2>1, FS_Subset
<1>6. IsASequence(picked) /\ \A n \in 1..Len(picked) : \E k \in S : picked[n] = advs[k]
  <2>1. ArePlaces(S) BY <1>2, <1>5 DEF ArePlaces
  <2>2. QED BY <2>1, PickingFrom
<1>7. QED BY <1>3, <1>4, <1>6

\* The dependencies are gone through one by one.
LEMMA OrderIsOnce ==
  ASSUME ListInv
  PROVE  /\ Len(Order) \in Nat
         /\ \A m, n \in 1..Len(Order) : Order[m] = Order[n] => m = n
<1> DEFINE ds == [n \in DOMAIN pairs |-> pairs[n].dep]
<1>1. DOMAIN pairs = 1..Len(pairs) /\ Len(pairs) \in Nat BY DEF ListInv, IsASequence
<1>2. ds = [n \in 1..Len(pairs) |-> pairs[n].dep] BY <1>1
<1>3. Order = FirstSeen(ds) BY DEF Order
<1> HIDE DEF ds
<1>4. IsASequence(ds)
  <2>1. Len(ds) = Len(pairs) BY <1>1, <1>2
  <2>2. QED BY <1>1, <1>2, <2>1 DEF IsASequence
<1>5. QED BY <1>3, <1>4, SeenOnce DEF IsASequence

\* A merged advisory has the IDs of its members, and their dependency.
LEMMA MergedHasAllIds ==
  ASSUME IsASequence(advs), NEW S, S # {}, S \subseteq 1..Len(Mine)
  PROVE  /\ MergeGroup(Mine, S).dep = Order[turn]
         /\ MergeGroup(Mine, S).ids = UNION {Mine[j].ids : j \in S}
<1>1. Len(Mine) \in Nat /\ \A k \in 1..Len(Mine) : Mine[k].dep = Order[turn]
  BY MineIsMine DEF IsASequence
<1>2. Min2(S) \in S
  <2>1. S \subseteq Nat BY <1>1
  <2>2. \E n \in S : \A k \in S : n <= k BY <2>1, LeastOf
  <2>3. QED BY <2>2 DEF Min2
<1>3. MergeGroup(Mine, S).dep = Mine[Min2(S)].dep BY DEF MergeGroup
<1>4. MergeGroup(Mine, S).ids = UNION {m.ids : m \in {Mine[k] : k \in S}} BY DEF MergeGroup
<1>5. UNION {m.ids : m \in {Mine[k] : k \in S}} = UNION {Mine[j].ids : j \in S} OBVIOUS
<1>6. QED BY <1>1, <1>2, <1>3, <1>4, <1>5

LEMMA GroupInit == Init => GroupInv
<1>1. SUFFICES ASSUME Init PROVE GroupInv OBVIOUS
<1>2. advs = <<>> /\ matched = <<>> /\ label = <<>> /\ owner = <<>> /\ emitted = 0 /\ phase = "idle"
  BY <1>1 DEF Init, OsvInit
<1>3. GroupsShareNoId BY <1>2 DEF GroupsShareNoId
<1>4. QED BY <1>2, <1>3, EmptyIsASequence DEF GroupInv

\* Linking one advisory more keeps each ID with its owner's group.
LEMMA LinkKeepsGroups ==
  ASSUME ListInv, GroupInv, LinkNext
  PROVE  GroupInv'
<1> DEFINE i == Len(label) + 1
           ids == Mine[i].ids
           shared == {label[owner[id]] : id \in ids \cap DOMAIN owner}
           moved == [k \in DOMAIN label |-> IF label[k] \in shared THEN i ELSE label[k]]
<1>1. /\ phase = "merge" /\ phase' = "merge" /\ turn <= Len(Order) /\ Len(label) < Len(Mine)
      /\ UNCHANGED <<advs, matched, pairs, turn, emitted>>
      /\ label' = Append(moved, i)
      /\ owner' = [id \in DOMAIN owner \cup ids |-> IF id \in DOMAIN owner THEN owner[id] ELSE i]
  BY DEF LinkNext, Merging
<1>2. Mine' = Mine /\ Order' = Order BY <1>1 DEF Mine, Order
<1>3. IsASequence(label) /\ Len(label) \in Nat /\ DOMAIN label = 1..Len(label) /\ Linked
  BY <1>1 DEF GroupInv, IsASequence
<1>4. Len(Mine) \in Nat BY MineIsMine DEF GroupInv, IsASequence
<1>5. emitted = 0 BY <1>1, <1>3, <1>4 DEF GroupInv
<1>6. IsASequence(moved) /\ Len(moved) = Len(label)
  <2>1. moved = [k \in 1..Len(label) |-> IF label[k] \in shared THEN i ELSE label[k]] BY <1>3
  <2> HIDE DEF moved, shared
  <2>2. Len(moved) = Len(label) BY <1>3, <2>1
  <2>3. QED BY <1>3, <2>1, <2>2 DEF IsASequence
<1>7. /\ IsASequence(label') /\ Len(label') = i
      /\ \A k \in 1..Len(label) : label'[k] = IF label[k] \in shared THEN i ELSE label[k]
      /\ label'[i] = i
  <2>1. /\ IsASequence(label') /\ Len(label') = i /\ label'[i] = i
        /\ \A k \in 1..Len(moved) : label'[k] = moved[k]
    <3> HIDE DEF moved
    <3>1. QED BY <1>1, <1>6, Appending
  <2>2. QED BY <1>3, <1>6, <2>1
<1> HIDE DEF moved
<1>8. Linked'
  <2>0. ASSUME NEW id \in DOMAIN owner' PROVE owner'[id] \in 1..i
    <3>1. CASE id \in DOMAIN owner BY <1>1, <1>3, <3>1 DEF Linked
    <3>2. CASE id \notin DOMAIN owner BY <1>1, <1>3, <3>2
    <3>3. QED BY <3>1, <3>2
  <2> SUFFICES ASSUME NEW j \in 1..i, NEW id \in Mine[j].ids
               PROVE  id \in DOMAIN owner' /\ label'[owner'[id]] = label'[j]
    BY <1>2, <1>7, <2>0 DEF Linked
  <2>1. CASE j # i
    <3>1. j \in 1..Len(label) BY <1>3, <2>1
    <3>2. id \in DOMAIN owner /\ owner[id] \in 1..Len(label) /\ label[owner[id]] = label[j]
      BY <1>3, <3>1 DEF Linked
    <3>3. id \in DOMAIN owner' /\ owner'[id] = owner[id] BY <1>1, <3>2
    <3>4. label'[owner[id]] = label'[j] BY <1>7, <3>1, <3>2
    <3>5. QED BY <1>3, <3>2, <3>3, <3>4
  <2>2. CASE j = i /\ id \in DOMAIN owner
    <3>1. id \in DOMAIN owner' /\ owner'[id] = owner[id] BY <1>1, <2>2
    <3>2. label[owner[id]] \in shared BY <2>2
    <3>3. owner[id] \in 1..Len(label) BY <1>3, <2>2 DEF Linked
    <3>4. label'[owner[id]] = i BY <1>7, <3>2, <3>3
    <3>5. QED BY <1>7, <2>2, <3>1, <3>4
  <2>3. CASE j = i /\ id \notin DOMAIN owner
    <3>1. id \in DOMAIN owner' /\ owner'[id] = i BY <1>1, <2>3
    <3>2. QED BY <1>3, <2>3, <3>1
  <2>4. QED BY <2>1, <2>2, <2>3
<1>9. MergedSoFar'
  <2>1. MergedSoFar BY <1>1 DEF GroupInv
  <2>2. \A n \in 1..Len(matched) : matched[n].dep # Order[turn] BY <1>1, <1>5, <2>1 DEF MergedSoFar
  <2>3. QED BY <1>1, <1>2, <2>1, <2>2 DEF MergedSoFar
<1>10. Len(label') <= Len(Mine) BY <1>1, <1>3, <1>4, <1>7
<1>11. GroupsShareNoId' BY <1>1 DEF GroupInv, GroupsShareNoId
<1>12. QED BY <1>1, <1>2, <1>5, <1>7, <1>8, <1>9, <1>10, <1>11 DEF GroupInv, Early

\* A group is merged once, when its first member is reached; its IDs are not
\* those of any group merged before.
LEMMA EmitKeepsGroups ==
  ASSUME ListInv, GroupInv, EmitGroup
  PROVE  GroupInv'
<1> DEFINE k0 == emitted + 1
           new == MergeGroup(Mine, Group(k0))
<1>1. /\ phase = "merge" /\ phase' = "merge" /\ turn <= Len(Order)
      /\ Len(label) = Len(Mine) /\ emitted < Len(Mine)
      /\ UNCHANGED <<advs, pairs, turn, label, owner>> /\ emitted' = k0
      /\ matched' = IF \E j \in 1..emitted : label[j] = label[k0] THEN matched ELSE Append(matched, new)
  BY DEF EmitGroup, Merging, Group
<1>2. Mine' = Mine /\ Order' = Order BY <1>1 DEF Mine, Order
<1>3. IsASequence(label) /\ Len(label) \in Nat /\ DOMAIN label = 1..Len(label) /\ Linked /\ MergedSoFar
      /\ emitted \in Nat /\ IsASequence(matched) /\ Len(matched) \in Nat
  BY <1>1 DEF GroupInv, IsASequence
<1>4. k0 \in 1..Len(label) /\ 1..emitted \subseteq 1..k0 /\ 1..k0 \subseteq 1..Len(label) BY <1>1, <1>3
<1>5. \A k : GroupIds(k)' = GroupIds(k) BY <1>1, <1>2 DEF GroupIds, Group
<1>6. new.dep = Order[turn] /\ new.ids = GroupIds(k0)
  <2>1. k0 \in Group(k0) /\ Group(k0) \subseteq 1..Len(Mine) BY <1>1, <1>3, <1>4 DEF Group
  <2>2. Group(k0) # {} BY <2>1
  <2>3. IsASequence(advs) BY DEF GroupInv
  <2>4. QED BY <2>1, <2>2, <2>3, MergedHasAllIds DEF GroupIds
<1> HIDE DEF new
<1>7. turn \in Nat \ {0} /\ Len(Order) \in Nat BY OrderIsOnce DEF ListInv
<1>8. CASE \E j \in 1..emitted : label[j] = label[k0]
  <2>1. matched' = matched BY <1>1, <1>8
  <2>2. \A n \in 1..Len(matched) : matched[n].dep = Order[turn] => \E k \in 1..k0 : matched[n].ids = GroupIds(k)
    BY <1>1, <1>3, <1>4 DEF MergedSoFar
  <2>3. MergedSoFar' BY <1>1, <1>2, <1>3, <1>5, <2>1, <2>2 DEF MergedSoFar
  <2>4. Linked' BY <1>1, <1>2, <1>3 DEF Linked
  <2>5. GroupsShareNoId' BY <2>1 DEF GroupInv, GroupsShareNoId
  <2>6. k0 \in Nat /\ k0 <= Len(Mine) BY <1>1, <1>3, <1>4
  <2>7. QED BY <1>1, <1>2, <1>3, <2>1, <2>3, <2>4, <2>5, <2>6 DEF GroupInv, Early
<1>9. CASE ~\E j \in 1..emitted : label[j] = label[k0]
  <2>1. matched' = Append(matched, new) BY <1>1, <1>9
  <2>2. /\ IsASequence(matched') /\ Len(matched') = Len(matched) + 1
        /\ \A n \in 1..Len(matched) : matched'[n] = matched[n]
        /\ matched'[Len(matched) + 1] = new
    BY <1>3, <2>1, Appending
  <2>3. \A k \in 1..emitted : GroupIds(k) \cap GroupIds(k0) = {}
    <3> SUFFICES ASSUME NEW k \in 1..emitted, NEW id, id \in GroupIds(k), id \in GroupIds(k0)
                 PROVE  FALSE OBVIOUS
    <3>1. PICK i \in Group(k) : id \in Mine[i].ids BY DEF GroupIds
    <3>2. PICK j \in Group(k0) : id \in Mine[j].ids BY DEF GroupIds
    <3>3. label[owner[id]] = label[i] /\ label[owner[id]] = label[j] BY <1>3, <3>1, <3>2 DEF Linked, Group
    <3>4. label[i] = label[k] /\ label[j] = label[k0] BY <3>1, <3>2 DEF Group
    <3>5. QED BY <1>9, <3>3, <3>4
  <2>4. \A n \in 1..Len(matched) : matched[n].dep = Order[turn] => matched[n].ids \cap new.ids = {}
    BY <1>1, <1>3, <1>6, <2>3 DEF MergedSoFar
  <2>5. GroupsShareNoId'
    <3>1. DOMAIN matched = 1..Len(matched) /\ DOMAIN matched' = 1..Len(matched) + 1
      BY <1>3, <2>2 DEF IsASequence
    <3>2. ASSUME NEW m \in 1..Len(matched) + 1, NEW n \in 1..Len(matched) + 1,
                 m # n, matched'[m].dep = matched'[n].dep
          PROVE  matched'[m].ids \cap matched'[n].ids = {}
      <4>1. CASE m \in 1..Len(matched) /\ n \in 1..Len(matched)
        <5>1. matched'[m] = matched[m] /\ matched'[n] = matched[n] BY <2>2, <4>1
        <5>2. QED BY <3>1, <3>2, <4>1, <5>1 DEF GroupInv, GroupsShareNoId
      <4>2. CASE m = Len(matched) + 1
        <5>1. n \in 1..Len(matched) BY <1>3, <3>2, <4>2
        <5>2. QED BY <1>6, <2>2, <2>4, <3>2, <4>2, <5>1
      <4>3. CASE n = Len(matched) + 1
        <5>1. m \in 1..Len(matched) BY <1>3, <3>2, <4>3
        <5>2. QED BY <1>6, <2>2, <2>4, <3>2, <4>3, <5>1
      <4>4. QED BY <1>3, <4>1, <4>2, <4>3
    <3>3. QED BY <3>1, <3>2 DEF GroupsShareNoId
  <2>6. MergedSoFar'
    <3>1. ASSUME NEW n \in 1..Len(matched')
          PROVE  /\ \E t \in 1..Len(Order) : t <= turn /\ matched'[n].dep = Order[t]
                 /\ matched'[n].dep = Order[turn] => \E k \in 1..k0 : matched'[n].ids = GroupIds(k)
      <4>1. CASE n \in 1..Len(matched)
        <5>1. matched'[n] = matched[n] BY <2>2, <4>1
        <5>2. QED BY <1>1, <1>3, <1>4, <4>1, <5>1 DEF MergedSoFar
      <4>2. CASE n = Len(matched) + 1
        <5>1. turn \in 1..Len(Order) /\ turn <= turn /\ k0 \in 1..k0 BY <1>1, <1>3, <1>7
        <5>2. QED BY <1>6, <2>2, <4>2, <5>1
      <4>3. QED BY <1>3, <2>2, <4>1, <4>2
    <3>2. QED BY <1>1, <1>2, <1>5, <3>1 DEF MergedSoFar
  <2>7. Linked' BY <1>1, <1>2, <1>3 DEF Linked
  <2>8. k0 \in Nat /\ k0 <= Len(Mine) BY <1>1, <1>3, <1>4
  <2>9. QED BY <1>1, <1>2, <1>3, <2>2, <2>5, <2>6, <2>7, <2>8 DEF GroupInv, Early
<1>10. QED BY <1>8, <1>9

\* The next dependency starts with nothing linked, and none of it merged yet.
LEMMA NextKeepsGroups ==
  ASSUME ListInv, GroupInv, NextDependency
  PROVE  GroupInv'
<1>1. /\ phase = "merge" /\ phase' = "merge" /\ turn <= Len(Order) /\ turn' = turn + 1
      /\ label' = <<>> /\ owner' = <<>> /\ emitted' = 0
      /\ UNCHANGED <<advs, pairs, matched>>
  BY DEF NextDependency, Merging
<1>2. Order' = Order BY <1>1 DEF Order
<1>3. turn \in Nat \ {0} /\ Len(Order) \in Nat /\ \A m, n \in 1..Len(Order) : Order[m] = Order[n] => m = n
  BY OrderIsOnce DEF ListInv
<1>4. MergedSoFar BY <1>1 DEF GroupInv
<1>5. \A n \in 1..Len(matched) : \E t \in 1..Len(Order) : t <= turn /\ matched[n].dep = Order[t]
  BY <1>4 DEF MergedSoFar
<1>6. turn + 1 <= Len(Order) => \A n \in 1..Len(matched) : matched[n].dep # Order[turn + 1]
  <2> SUFFICES ASSUME turn + 1 <= Len(Order), NEW n \in 1..Len(matched) PROVE matched[n].dep # Order[turn + 1]
    OBVIOUS
  <2>1. PICK t \in 1..Len(Order) : t <= turn /\ matched[n].dep = Order[t] BY <1>5
  <2>2. turn + 1 \in 1..Len(Order) /\ t # turn + 1 BY <1>3, <2>1
  <2>3. QED BY <1>3, <2>1, <2>2
<1>7. MergedSoFar'
  <2>1. \A n \in 1..Len(matched) : \E t \in 1..Len(Order) : t <= turn + 1 /\ matched[n].dep = Order[t]
    BY <1>3, <1>5
  <2>2. QED BY <1>1, <1>2, <1>6, <2>1 DEF MergedSoFar
<1>8. IsASequence(advs') /\ Len(Mine') \in Nat
  <2>1. IsASequence(advs') BY <1>1 DEF GroupInv
  <2>2. IsASequence(advs)' => IsASequence(Mine)' BY MineIsMine, PTL
  <2>3. QED BY <2>1, <2>2 DEF IsASequence
<1>9. IsASequence(label') /\ Len(label') = 0 BY <1>1, EmptyIsASequence
<1>10. Linked' BY <1>1, <1>9 DEF Linked
<1>11. GroupsShareNoId' BY <1>1 DEF GroupInv, GroupsShareNoId
<1>12. IsASequence(matched') BY <1>1 DEF GroupInv
<1>13. QED BY <1>1, <1>7, <1>8, <1>9, <1>10, <1>11, <1>12 DEF GroupInv, Early

\* Merging starts with nothing linked and nothing merged.
LEMMA StartKeepsGroups ==
  ASSUME ListInv, GroupInv, StartMerge
  PROVE  GroupInv'
<1>1. /\ phase = "hydrate" /\ phase' = "merge" /\ turn' = 1
      /\ UNCHANGED <<advs, pairs, matched, label, owner, emitted>>
  BY DEF StartMerge
<1>2. matched = <<>> /\ label = <<>> /\ owner = <<>> /\ emitted = 0 BY <1>1 DEF GroupInv, Early
<1>3. IsASequence(advs') /\ Len(Mine') \in Nat
  <2>1. IsASequence(advs') BY <1>1 DEF GroupInv
  <2>2. IsASequence(advs)' => IsASequence(Mine)' BY MineIsMine, PTL
  <2>3. QED BY <2>1, <2>2 DEF IsASequence
<1>4. IsASequence(label') /\ Len(label') = 0 /\ IsASequence(matched') /\ Len(matched') = 0
  BY <1>1, <1>2, EmptyIsASequence
<1>5. MergedSoFar' BY <1>4 DEF MergedSoFar
<1>6. Linked' BY <1>1, <1>2, <1>4 DEF Linked
<1>7. GroupsShareNoId' BY <1>1 DEF GroupInv, GroupsShareNoId
<1>8. QED BY <1>1, <1>2, <1>3, <1>4, <1>5, <1>6, <1>7 DEF GroupInv, Early

LEMMA GroupStep ==
  ASSUME ListInv, GroupInv, [Next]_scaVars
  PROVE  GroupInv'
<1> DEFINE Grouping == <<matched, label, owner, emitted>>
<1>1. ASSUME UNCHANGED <<Grouping, phase, turn, pairs, advs>> PROVE GroupInv'
  <2>1. Mine' = Mine /\ Order' = Order BY <1>1 DEF Mine, Order
  <2>2. \A k : GroupIds(k)' = GroupIds(k) BY <1>1, <2>1 DEF GroupIds, Group
  <2>3. Linked' = Linked BY <1>1, <2>1 DEF Linked
  <2>4. MergedSoFar' = MergedSoFar BY <1>1, <2>1, <2>2 DEF MergedSoFar
  <2>5. GroupsShareNoId' = GroupsShareNoId BY <1>1 DEF GroupsShareNoId
  <2>6. QED BY <1>1, <2>1, <2>3, <2>4, <2>5 DEF GroupInv
<1>2. ASSUME UNCHANGED Grouping, IsASequence(advs'), phase \in Early, phase' \in Early PROVE GroupInv'
  BY <1>2 DEF GroupInv, GroupsShareNoId, Early
<1>3. ASSUME UNCHANGED <<matched, advs>>, phase' = "done" PROVE GroupInv'
  BY <1>3 DEF GroupInv, GroupsShareNoId, Early
<1>4. CASE UNCHANGED scaVars BY <1>1, <1>4 DEF scaVars, osvVars, matchVars
<1>5. CASE ScanStep
  <2>1. CASE UNCHANGED osvVars BY <1>1, <2>1 DEF osvVars, matchVars
  <2>2. CASE StartMatch(inventory')
    <3>1. UNCHANGED <<Grouping, advs>> /\ phase = "idle" /\ phase' = "batch"
      BY <2>2 DEF StartMatch, Query
    <3>2. IsASequence(advs') BY <3>1 DEF GroupInv
    <3>3. QED BY <1>2, <3>1, <3>2 DEF Early
  <2>3. QED BY <1>5, <2>1, <2>2
       DEF ScanStep, StartScan, SkipManifest, ReadManifest, TakeInventory, ReportMatched, ReportFailure
<1>6. CASE ExpireDeadline BY <1>1, <1>6 DEF ExpireDeadline, matchVars
<1>7. CASE \E r \in Fetchers \cup {Caller} : RequestStep(r)
  BY <1>1, <1>7 DEF RequestStep, Answered, Refused, Retryable, DeadlineFails, TryAgain, matchVars
<1>8. CASE \E w \in Fetchers : FetcherStep(w)
  BY <1>1, <1>8 DEF FetcherStep, HandOver, BeginFetch, EndFetch, LeavePool, matchVars
<1>9. CASE MatchStep
  <2>1. CASE QueryAnswered \/ TakePage \/ NextBatch
    <3>1. UNCHANGED <<Grouping, advs>> /\ phase \in Early /\ phase' \in Early
      BY <2>1 DEF QueryAnswered, TakePage, NextBatch, Query, matchVars, Early
    <3>2. IsASequence(advs') BY <3>1 DEF GroupInv
    <3>3. QED BY <1>2, <3>1, <3>2
  <2>2. CASE QueryFails \/ ReturnMatched
    BY <1>3, <2>2 DEF QueryFails, Fail, ReturnMatched
  <2>3. CASE StopHanding BY <1>1, <2>3 DEF StopHanding
  <2>4. CASE PrefetchEnds
    <3>1. CASE phase' = "done" BY <1>3, <2>4, <3>1 DEF PrefetchEnds, Fail, matchVars
    <3>2. CASE phase' = "hydrate"
      <4>1. UNCHANGED <<Grouping, advs>> /\ phase = "prefetch"
        BY <2>4 DEF PrefetchEnds, Prefetched, Fail, matchVars
      <4>2. IsASequence(advs') BY <4>1 DEF GroupInv
      <4>3. QED BY <1>2, <3>2, <4>1, <4>2 DEF Early
    <3>3. QED BY <2>4, <3>1, <3>2 DEF PrefetchEnds, Fail
  <2>5. CASE Resolve \/ ReportAnyway
    <3>1. UNCHANGED <<Grouping, phase>> /\ phase = "hydrate"
      BY <2>5 DEF Resolve, ReportAnyway
    <3>2. advs' = advs \/ \E a : advs' = Append(advs, a)
      BY <2>5 DEF Resolve, ReportAnyway
    <3>3. IsASequence(advs) BY DEF GroupInv
    <3>4. IsASequence(advs') BY <3>2, <3>3, Appending
    <3>5. QED BY <1>2, <3>1, <3>4 DEF Early
  <2>6. CASE FetchAgain BY <1>1, <2>6 DEF FetchAgain, matchVars
  <2>7. CASE StartMerge BY <2>7, StartKeepsGroups
  <2>8. CASE LinkNext BY <2>8, LinkKeepsGroups
  <2>9. CASE EmitGroup BY <2>9, EmitKeepsGroups
  <2>10. CASE NextDependency BY <2>10, NextKeepsGroups
  <2>11. QED BY <1>9, <2>1, <2>2, <2>3, <2>4, <2>5, <2>6, <2>7, <2>8, <2>9, <2>10 DEF MatchStep
<1>10. QED BY <1>4, <1>5, <1>6, <1>7, <1>8, <1>9 DEF Next, OsvStep

\* mergeAliases links advisories through any chain of shared IDs: however OSV
\* lists and names them, no two advisories Match returns for one dependency
\* share an ID, so no vulnerability is reported twice under two of its names.
THEOREM GroupsAreDisjoint == Spec => []GroupsShareNoId
<1>1. GroupInv => GroupsShareNoId BY DEF GroupInv
<1>2. Init => ListInv /\ GroupInv BY ListInit, GroupInit
<1>3. ListInv /\ GroupInv /\ [Next]_scaVars => ListInv' /\ GroupInv' BY ListStep, GroupStep
<1>4. QED BY <1>1, <1>2, <1>3, PTL DEF Spec
------------------------------------------------------------------------------
(* No advisory is lost.                                                       *)

Querying == {"batch", "page", "results"}
HasListed == {"prefetch", "hydrate", "merge"}

\* The pairs have what OSV lists for a dependency on a page, or on all.
HasPage(ps, d, p) ==
  \A id \in ToSet(Listing(d)[p]) : \E n \in 1..Len(ps) : ps[n].dep = d /\ ps[n].id = id
HasAll(ps, d) == \A p \in 1..Len(Listing(d)) : HasPage(ps, d, p)

\* The pairs have all that OSV lists for the dependencies that are through, and
\* for the one at hand its first pages.
QueryInv ==
  /\ IsASequence(deps) /\ chunk \in Nat
  /\ phase \in {"idle", "batch", "prefetch"} => turn = 1
  /\ phase = "idle" => chunk = 0
  /\ phase \in Querying =>
       /\ chunk < Len(deps) /\ turn <= Len(Chunk) + 1
       /\ \A k \in 1..Len(deps) : k < chunk + turn => HasAll(pairs, deps[k])
       /\ MoreResults => \A p \in 1..(page - 1) : HasPage(pairs, Chunk[turn], p)
  /\ outcome = "ok" \/ phase \in HasListed => \A k \in 1..Len(deps) : HasAll(pairs, deps[k])

\* An advisory is rated as its body says, or high for want of one.
RatedRight(a) ==
  /\ a.id \in a.ids
  /\ a.severity \in Severities /\ a.confidence \in Confidences
  /\ a.unavailable => a.severity = "high"
  /\ ~a.unavailable => a.severity = ParseSeverity(body[a.id]).severity
Resolved(as, p) ==
  \/ Skipped(body[p.id])
  \/ \E k \in 1..Len(as) : as[k].dep = p.dep /\ as[k].id = p.id

\* The pairs gone through have an advisory, but for those skipped.
RatingInv ==
  /\ body \in Bodies
  /\ IsASequence(advs) /\ \A k \in 1..Len(advs) : RatedRight(advs[k])
  /\ phase = "hydrate" => \A n \in 1..Len(pairs) : n < turn => Resolved(advs, pairs[n])
  /\ outcome = "ok" \/ phase = "merge" => \A n \in 1..Len(pairs) : Resolved(advs, pairs[n])

\* The advisories gone through are in a merged one, which is rated no lower.
Covers(m, a) ==
  m.dep = a.dep /\ a.ids \subseteq m.ids /\ SeverityRank[a.severity] <= SeverityRank[m.severity]
Covered(ms, a) == \E n \in 1..Len(ms) : Covers(ms[n], a)
Emitted(i) == \E j \in 1..emitted : label[j] = label[i]
CoverInv ==
  /\ phase = "merge" =>
       /\ \A k \in 1..Len(advs) : \A t \in 1..Len(Order) :
            t < turn /\ advs[k].dep = Order[t] => Covered(matched, advs[k])
       /\ turn <= Len(Order) => \A i \in 1..Len(label) : Emitted(i) => Covered(matched, Mine[i])
  /\ outcome = "ok" => \A k \in 1..Len(advs) : \A t \in 1..Len(Order) :
       advs[k].dep = Order[t] => Covered(matched, advs[k])

\* What is reported is what Match returned for what was read.
ReportInv ==
  /\ at = "matching" => inventory = deps
  /\ at = "done" /\ result = "ok" /\ <<"osv", "skipped">> \notin diags =>
       \/ inventory = <<>>
       \/ /\ inventory = deps /\ outcome = "ok"
          /\ findings = [n \in DOMAIN matched |-> Finding(matched[n])]

\* Whatever a parser keeps of a manifest, and in whatever order, is a list.
LEMMA ParsedIsASequence ==
  ASSUME NEW f \in Manifests, NEW ds \in Parsed(f)
  PROVE  IsASequence(ds)
<1>1. ASSUME NEW forms, NEW places PROVE IsASequence(Keep(f, forms, places))
  <2> DEFINE S == {n \in DOMAIN Entries[f] : Entries[f][n].form \in forms /\ Entries[f][n].place \in places}
  <2>1. Len(Entries[f]) \in Nat /\ DOMAIN Entries[f] = 1..Len(Entries[f]) BY EntriesAssumption
  <2>2. S \in SUBSET (1..Len(Entries[f])) BY <2>1
  <2>3. IsFiniteSet(1..Len(Entries[f])) BY <2>1, FS_Interval
  <2>4. ArePlaces(S) BY <2>2, <2>3, FS_Subset DEF ArePlaces
  <2>5. Keep(f, forms, places) = Picked(Entries[f], S) BY DEF Keep
  <2> HIDE DEF S
  <2>6. QED BY <2>4, <2>5, PickingFrom
<1>2. ASSUME NEW s, IsASequence(s), NEW es \in AnyOrder(s) PROVE IsASequence(es)
  <2>1. es = [n \in DOMAIN s |-> es[n]] BY DEF AnyOrder
  <2>2. QED BY <1>2, <2>1, SameLength
<1>3. ASSUME NEW s, IsASequence(s), ds = [n \in DOMAIN s |-> ds[n]] PROVE IsASequence(ds)
  BY <1>3, SameLength
<1>4. CASE ~WellFormed[f] BY <1>4, EmptyIsASequence DEF Parsed
<1>5. CASE ds \in NuGetLock(f) \/ ds \in PackageLockJSON(f)
  <2>1. PICK es \in AnyOrder(Keep(f, {"exact"}, {"top", "nested"})) : ds = [n \in DOMAIN es |-> ds[n]]
    BY <1>5 DEF NuGetLock, PackageLockJSON, Deps
  <2>2. QED BY <1>1, <1>2, <1>3, <2>1
<1>6. CASE ds \in PnpmLock(f)
  <2>1. PICK es \in AnyOrder(Keep(f, {"exact", "peers"}, AnyPlace)) : ds = [n \in DOMAIN es |-> ds[n]]
    BY <1>6 DEF PnpmLock, Deps
  <2>2. QED BY <1>1, <1>2, <1>3, <2>1
<1>7. CASE ds \in PackageJSON(f) \/ ds \in PipfileLock(f)
  <2>1. PICK forms \in {{"exact"}, {"exact", "range"}} :
          \E es \in AnyOrder(Keep(f, forms, {"top"})), devs \in AnyOrder(Keep(f, forms, {"dev"})) :
            ds = [n \in DOMAIN (es \o devs) |-> ds[n]]
    BY <1>7 DEF PackageJSON, PipfileLock, Deps
  <2>2. PICK es \in AnyOrder(Keep(f, forms, {"top"})), devs \in AnyOrder(Keep(f, forms, {"dev"})) :
          ds = [n \in DOMAIN (es \o devs) |-> ds[n]]
    BY <2>1
  <2>3. IsASequence(es) /\ IsASequence(devs) BY <1>1, <1>2
  <2>4. QED BY <1>3, <2>2, <2>3, Concatenating
<1>8. CASE ds \in PomXML(f)
  <2> DEFINE s == Keep(f, {"exact", "range", "property"}, {"top"})
                    \o Keep(f, {"exact", "range", "property"}, {"managed"})
  <2>1. ds = [n \in DOMAIN s |-> ds[n]] BY <1>8 DEF PomXML, Deps
  <2>2. IsASequence(s) BY <1>1, Concatenating
  <2> HIDE DEF s
  <2>3. QED BY <1>3, <2>1, <2>2
<1>9. CASE \/ ds \in MSBuildPackages(f) \/ ds \in PackagesConfig(f) \/ ds \in RequirementsTxt(f)
           \/ ds \in YarnLock(f) \/ ds \in GoMod(f)
  <2>1. PICK forms \in {{"exact"}, {"exact", "marked"}} :
          ds = [n \in DOMAIN Keep(f, forms, AnyPlace) |-> ds[n]]
    BY <1>9 DEF MSBuildPackages, PackagesConfig, RequirementsTxt, YarnLock, GoMod, Deps
  <2>2. QED BY <1>1, <1>3, <2>1
<1>10. QED BY <1>4, <1>5, <1>6, <1>7, <1>8, <1>9 DEF Parsed

\* What the inventory keeps of the dependencies read is a list of them.
LEMMA DeduplicatedIsASequence ==
  ASSUME NEW ds, IsASequence(ds)
  PROVE  IsASequence(Deduplicated(ds))
<1> DEFINE S == {n \in DOMAIN ds : \A k \in 1..(n - 1) : DepKey(ds[k]) # DepKey(ds[n])}
<1>1. Deduplicated(ds) = Picked(ds, S) BY DEF Deduplicated, FirstBy
<1>2. S \in SUBSET (1..Len(ds)) /\ Len(ds) \in Nat
  <2>1. DOMAIN ds = 1..Len(ds) BY DEF IsASequence
  <2>2. QED BY <2>1 DEF IsASequence
<1> HIDE DEF S
<1>3. ArePlaces(S)
  <2>1. IsFiniteSet(1..Len(ds)) BY <1>2, FS_Interval
  <2>2. IsFiniteSet(S) BY <1>2, <2>1, FS_Subset
  <2>3. S \subseteq Nat BY <1>2
  <2>4. QED BY <2>2, <2>3 DEF ArePlaces
<1>4. QED BY <1>1, <1>3, PickingFrom

\* A batch is the next BatchSize dependencies, or as many as are left.
LEMMA ChunkIsNext ==
  ASSUME IsASequence(deps), chunk \in Nat, chunk < Len(deps)
  PROVE  /\ Len(Chunk) \in Nat
         /\ chunk + BatchSize < Len(deps) => Len(Chunk) = BatchSize
         /\ ~(chunk + BatchSize < Len(deps)) => chunk + Len(Chunk) = Len(deps)
         /\ \A k \in 1..Len(Chunk) : chunk + k \in 1..Len(deps) /\ Chunk[k] = deps[chunk + k]
<1> DEFINE last == Min2({chunk + BatchSize, Len(deps)})
<1>1. Len(deps) \in Nat /\ BatchSize \in Nat \ {0} BY OsvAssumption DEF IsASequence
<1>2. /\ last \in {chunk + BatchSize, Len(deps)} /\ last <= chunk + BatchSize /\ last <= Len(deps)
  <2> DEFINE T == {chunk + BatchSize, Len(deps)}
  <2>1. \E n \in T : \A k \in T : n <= k BY <1>1
  <2>2. Min2(T) \in T /\ \A k \in T : Min2(T) <= k BY <2>1 DEF Min2
  <2>3. QED BY <2>2
<1>3. Chunk = SubSeq(deps, chunk + 1, last) BY DEF Chunk
<1> HIDE DEF last
<1>4. last \in Nat /\ chunk < last BY <1>1, <1>2
<1> DEFINE S == {deps[n] : n \in 1..Len(deps)}
<1>5. /\ Len(Chunk) = last - (chunk + 1) + 1
      /\ \A k \in 1..(last - (chunk + 1) + 1) : Chunk[k] = deps[(chunk + 1) + k - 1]
  <2>1. chunk + 1 \in Int /\ last \in Int /\ chunk + 1 <= last BY <1>4
  <2>2. \A i \in (chunk + 1)..last : deps[i] \in S BY <1>1, <1>2, <1>4
  <2> HIDE DEF S
  <2>3. QED BY <1>3, <2>1, <2>2, SubSeqProperties
<1>6. Len(Chunk) = last - chunk /\ \A k \in 1..Len(Chunk) : Chunk[k] = deps[chunk + k]
  <2>1. last - (chunk + 1) + 1 = last - chunk BY <1>1, <1>4
  <2>2. \A k \in 1..Len(Chunk) : (chunk + 1) + k - 1 = chunk + k BY <1>1, <1>4
  <2>3. QED BY <1>5, <2>1, <2>2
<1>7. QED BY <1>1, <1>2, <1>4, <1>6

LEMMA QueryInit == Init => QueryInv
<1>1. SUFFICES ASSUME Init PROVE QueryInv OBVIOUS
<1>2. /\ deps = <<>> /\ chunk = 0 /\ turn = 1 /\ phase = "idle" /\ outcome = "none"
  BY <1>1 DEF Init, OsvInit
<1>3. QED BY <1>2, EmptyIsASequence DEF QueryInv, Querying, HasListed

\* One page more of the dependency at hand.
LEMMA PageIsListed ==
  ASSUME ListInv, QueryInv, TakePage
  PROVE  QueryInv'
<1> DEFINE d == Chunk[turn]
           listed == Listing(d)
           new == [n \in DOMAIN listed[page] |-> [dep |-> d, id |-> listed[page][n]]]
<1>1. /\ phase = "results" /\ MoreResults /\ pairs' = pairs \o new
      /\ UNCHANGED <<deps, chunk>> /\ outcome' = outcome
  BY DEF TakePage
<1>2. /\ IsASequence(deps) /\ chunk \in Nat /\ chunk < Len(deps) /\ turn <= Len(Chunk)
      /\ turn \in Nat \ {0} /\ IsASequence(pairs)
  BY <1>1 DEF QueryInv, ListInv, Querying, MoreResults
<1>3. /\ Len(Chunk) \in Nat
      /\ \A k \in 1..Len(Chunk) : chunk + k \in 1..Len(deps) /\ Chunk[k] = deps[chunk + k]
  BY <1>2, ChunkIsNext
<1>4. turn \in 1..Len(Chunk) /\ d = deps[chunk + turn] BY <1>2, <1>3
<1>5. Len(listed) \in Nat \ {0} /\ \A n \in 1..Len(listed) : listed[n] \in Seq(Ids)
  BY ListingIsPaged
<1>6. page \in 1..Len(listed) BY <1>1, <1>5 DEF ListInv
<1>7. IsASequence(listed[page]) BY <1>5, <1>6, LenProperties DEF IsASequence
<1>8. IsASequence(new) /\ Len(new) = Len(listed[page])
  <2>1. new = [n \in DOMAIN listed[page] |-> new[n]] OBVIOUS
  <2> HIDE DEF new, listed
  <2>2. QED BY <1>7, <2>1, SameLength
<1>9. /\ \A n \in 1..Len(pairs) : n \in 1..Len(pairs') /\ pairs'[n] = pairs[n]
      /\ \A n \in 1..Len(new) : Len(pairs) + n \in 1..Len(pairs') /\ pairs'[Len(pairs) + n] = new[n]
  <2> HIDE DEF new
  <2>1. /\ Len(pairs') = Len(pairs) + Len(new)
        /\ \A n \in 1..Len(pairs) + Len(new) :
             pairs'[n] = IF n <= Len(pairs) THEN pairs[n] ELSE new[n - Len(pairs)]
    BY <1>1, <1>2, <1>8, Concatenating
  <2>2. Len(pairs) \in Nat /\ Len(new) \in Nat BY <1>2, <1>8 DEF IsASequence
  <2>3. ASSUME NEW n \in 1..Len(new)
        PROVE  Len(pairs) + n \in 1..Len(pairs') /\ pairs'[Len(pairs) + n] = new[n]
    <3>1. Len(pairs) + n \in 1..Len(pairs) + Len(new) /\ ~(Len(pairs) + n <= Len(pairs)) BY <2>2
    <3>2. (Len(pairs) + n) - Len(pairs) = n BY <2>2
    <3>3. QED BY <2>1, <3>1, <3>2
  <2>4. QED BY <2>1, <2>2, <2>3
<1>10. \A e, p : HasPage(pairs, e, p) => HasPage(pairs', e, p)
  BY <1>9 DEF HasPage
<1>11. HasPage(pairs', d, page)
  <2>1. ASSUME NEW id \in ToSet(listed[page])
        PROVE  \E n \in 1..Len(pairs') : pairs'[n].dep = d /\ pairs'[n].id = id
    <3>1. PICK k \in DOMAIN listed[page] : id = listed[page][k] BY DEF ToSet
    <3>2. k \in 1..Len(new) BY <1>7, <1>8 DEF IsASequence
    <3>3. new[k].dep = d /\ new[k].id = id BY <3>1
    <3> HIDE DEF new, listed, d
    <3>4. QED BY <1>9, <3>2, <3>3
  <2>2. QED BY <2>1 DEF HasPage
<1>12. \A p \in 1..(page - 1) : HasPage(pairs, d, p) BY <1>1 DEF QueryInv, Querying
<1>13. \A p \in 1..page : HasPage(pairs', d, p)
  <2>1. \A p \in 1..page : p = page \/ p \in 1..(page - 1) BY <1>5, <1>6
  <2>2. QED BY <1>10, <1>11, <1>12, <2>1
<1>14. \A k \in 1..Len(deps) : k < chunk + turn => HasAll(pairs', deps[k])
  BY <1>1, <1>10 DEF QueryInv, Querying, HasAll
<1>15. Chunk' = Chunk BY <1>1 DEF Chunk
<1>16. outcome = "ok" => \A k \in 1..Len(deps) : HasAll(pairs', deps[k])
  BY <1>10 DEF QueryInv, HasAll
<1>17. CASE page < Len(listed)
  <2>1. turn' = turn /\ page' = page + 1 /\ phase' = "page"
    BY <1>17 DEF TakePage, Query
  <2>2. page' - 1 = page BY <1>5, <1>6, <2>1
  <2>3. \A p \in 1..(page' - 1) : HasPage(pairs', d, p) BY <1>13, <2>2
  <2>4. turn <= Len(Chunk) + 1 BY <1>2, <1>3
  <2> HIDE DEF d, listed, new
  <2>5. Chunk'[turn'] = d BY <1>15, <2>1 DEF d
  <2>6. QED BY <1>1, <1>2, <1>14, <1>15, <1>16, <2>1, <2>3, <2>4, <2>5 DEF QueryInv, Querying, HasListed
<1>18. CASE ~(page < Len(listed))
  <2>1. turn' = turn + 1 /\ page' = 1 /\ phase' = "results" BY <1>1, <1>18 DEF TakePage
  <2>2. page = Len(listed) BY <1>5, <1>6, <1>18
  <2>3. HasAll(pairs', d) BY <1>13, <2>2 DEF HasAll
  <2> HIDE DEF d, listed, new
  <2>4. \A k \in 1..Len(deps) : k < chunk + turn' => HasAll(pairs', deps[k])
    <3>1. \A k \in 1..Len(deps) : k < chunk + turn' => k < chunk + turn \/ k = chunk + turn
      BY <1>2, <2>1
    <3>2. QED BY <1>4, <1>14, <2>3, <3>1
  <2>5. turn' <= Len(Chunk) + 1 BY <1>2, <1>3, <2>1
  <2>6. 1..(page' - 1) = {} BY <2>1
  <2>7. QED BY <1>1, <1>2, <1>15, <1>16, <2>1, <2>4, <2>5, <2>6 DEF QueryInv, Querying, HasListed
<1>19. QED BY <1>17, <1>18

\* A batch is done: what it asked about has been listed in full.
LEMMA NextKeepsQuery ==
  ASSUME ListInv, QueryInv, AskedInv, NextBatch
  PROVE  QueryInv'
<1>1. /\ phase = "results" /\ ~MoreResults /\ chunk' = chunk + BatchSize /\ turn' = 1
      /\ UNCHANGED <<deps, page, pairs, outcome>>
  BY DEF NextBatch
<1>2. /\ IsASequence(deps) /\ chunk \in Nat /\ chunk < Len(deps) /\ turn = Len(Chunk) + 1
      /\ page = 1 /\ BatchSize \in Nat \ {0} /\ Len(deps) \in Nat
      /\ \A k \in 1..Len(deps) : k < chunk + turn => HasAll(pairs, deps[k])
  <2>1. /\ IsASequence(deps) /\ chunk \in Nat /\ chunk < Len(deps) /\ turn <= Len(Chunk) + 1
        /\ \A k \in 1..Len(deps) : k < chunk + turn => HasAll(pairs, deps[k])
    BY <1>1 DEF QueryInv, Querying
  <2>2. Len(Chunk) \in Nat /\ turn \in Nat /\ ~(turn <= Len(Chunk))
    BY <1>1, <2>1, ChunkIsNext DEF MoreResults, ListInv
  <2>3. page = 1 BY <1>1 DEF ListInv
  <2>4. BatchSize \in Nat \ {0} /\ Len(deps) \in Nat BY <2>1, OsvAssumption DEF IsASequence
  <2>5. QED BY <2>1, <2>2, <2>3, <2>4
<1>3. outcome # "ok" BY <1>1 DEF AskedInv
<1>4. CASE chunk' < Len(deps)
  <2>1. phase' = "batch" BY <1>4 DEF NextBatch, Query
  <2>2. Len(Chunk) = BatchSize BY <1>1, <1>2, <1>4, ChunkIsNext
  <2>3. \A k \in 1..Len(deps) : k < chunk' + turn' => k < chunk + turn BY <1>1, <1>2, <2>2
  <2>4. (IsASequence(deps) /\ chunk \in Nat /\ chunk < Len(deps))' => (Len(Chunk) \in Nat)'
    BY ChunkIsNext, PTL
  <2>5. chunk' \in Nat BY <1>1, <1>2
  <2>6. turn' <= Len(Chunk') + 1 BY <1>1, <1>2, <1>4, <2>4, <2>5
  <2>7. 1..(page' - 1) = {} BY <1>1, <1>2
  <2>8. QED BY <1>1, <1>2, <1>3, <1>4, <2>1, <2>3, <2>5, <2>6, <2>7 DEF QueryInv, Querying, HasListed
<1>5. CASE ~(chunk' < Len(deps))
  <2>1. phase' = "prefetch" BY <1>5 DEF NextBatch
  <2>2. chunk + Len(Chunk) = Len(deps) BY <1>1, <1>2, <1>5, ChunkIsNext
  <2>3. \A k \in 1..Len(deps) : k < chunk + turn BY <1>2, <2>2
  <2>4. chunk' \in Nat BY <1>1, <1>2
  <2>5. QED BY <1>1, <1>2, <1>3, <2>1, <2>3, <2>4 DEF QueryInv, Querying, HasListed
<1>6. QED BY <1>4, <1>5

\* Match starts with what was read, and has asked nothing yet.
LEMMA StartKeepsQuery ==
  ASSUME ListInv, QueryInv, AskedInv, StartMatch(inventory'), IsASequence(inventory')
  PROVE  QueryInv'
<1>1. /\ phase = "idle" /\ phase' = "batch" /\ inventory' # <<>> /\ deps' = inventory'
      /\ UNCHANGED <<chunk, turn, page, pairs, outcome>>
  BY DEF StartMatch, Query
<1>2. chunk = 0 /\ turn = 1 /\ page = 1 /\ outcome # "ok" BY <1>1 DEF QueryInv, ListInv, AskedInv
<1>3. IsASequence(deps') /\ Len(deps') \in Nat \ {0}
  <2>1. IsASequence(deps') /\ Len(deps') \in Nat BY <1>1 DEF IsASequence
  <2>2. CASE Len(deps') = 0
    <3>1. deps' = [n \in 1..0 |-> deps'[n]] BY <2>1, <2>2 DEF IsASequence
    <3>2. deps' = <<>> BY <3>1
    <3>3. QED BY <1>1, <3>2
  <2>3. QED BY <2>1, <2>2
<1>4. (IsASequence(deps) /\ chunk \in Nat /\ chunk < Len(deps))' => (Len(Chunk) \in Nat)'
  BY ChunkIsNext, PTL
<1>5. chunk' = 0 /\ chunk' \in Nat /\ chunk' < Len(deps') BY <1>1, <1>2, <1>3
<1>6. turn' <= Len(Chunk') + 1 BY <1>1, <1>2, <1>3, <1>4, <1>5
<1>7. 1..(page' - 1) = {} /\ \A k \in 1..Len(deps') : ~(k < chunk' + turn')
  BY <1>1, <1>2, <1>3
<1>8. QED BY <1>1, <1>2, <1>3, <1>5, <1>6, <1>7 DEF QueryInv, Querying, HasListed

\* What has been read stays a list.
LEMMA ReadStep ==
  ASSUME IsASequence(readDeps), [Next]_scaVars
  PROVE  IsASequence(readDeps')
<1>1. CASE readDeps' = readDeps BY <1>1
<1>2. CASE \E f \in Manifests : ReadManifest(f)
  <2>1. PICK f \in Manifests : ReadManifest(f) BY <1>2
  <2>2. readDeps' = readDeps \/ \E ds \in Parsed(f) : readDeps' = readDeps \o ds
    BY <2>1 DEF ReadManifest
  <2>3. QED BY <2>2, ParsedIsASequence, Concatenating
<1>3. QED BY <1>1, <1>2 DEF Next, ScanStep, StartScan, SkipManifest, TakeInventory, ReportMatched,
                            ReportFailure, scaVars, scanVars

LEMMA QueryStep ==
  ASSUME ListInv, QueryInv, AskedInv, IsASequence(readDeps), [Next]_scaVars
  PROVE  QueryInv'
<1> DEFINE Queried == <<deps, chunk, pairs, page, outcome>>
<1>1. ASSUME UNCHANGED <<Queried, phase, turn>> PROVE QueryInv'
  <2>1. Chunk' = Chunk BY <1>1 DEF Chunk
  <2>2. MoreResults' = MoreResults BY <1>1, <2>1 DEF MoreResults
  <2>3. QED BY <1>1, <2>1, <2>2 DEF QueryInv
<1>2. ASSUME UNCHANGED <<deps, chunk, pairs>>, phase' = "done", outcome' # "ok" PROVE QueryInv'
  BY <1>2 DEF QueryInv, Querying, HasListed
<1>3. ASSUME UNCHANGED <<deps, chunk, pairs>>, phase \in HasListed, phase' \in {"hydrate", "merge", "done"}
      PROVE  QueryInv'
  BY <1>3 DEF QueryInv, Querying, HasListed
<1>4. CASE UNCHANGED scaVars BY <1>1, <1>4 DEF scaVars, osvVars, matchVars
<1>5. CASE ScanStep
  <2>1. CASE UNCHANGED osvVars BY <1>1, <2>1 DEF osvVars, matchVars
  <2>2. CASE TakeInventory /\ StartMatch(inventory')
    <3>1. inventory' = Deduplicated(readDeps) BY <2>2 DEF TakeInventory
    <3>2. IsASequence(inventory') BY <3>1, DeduplicatedIsASequence
    <3>3. QED BY <2>2, <3>2, StartKeepsQuery
  <2>3. QED BY <1>5, <2>1, <2>2
       DEF ScanStep, StartScan, SkipManifest, ReadManifest, TakeInventory, ReportMatched, ReportFailure
<1>6. CASE ExpireDeadline BY <1>1, <1>6 DEF ExpireDeadline, matchVars
<1>7. CASE \E r \in Fetchers \cup {Caller} : RequestStep(r)
  BY <1>1, <1>7 DEF RequestStep, Answered, Refused, Retryable, DeadlineFails, TryAgain, matchVars
<1>8. CASE \E w \in Fetchers : FetcherStep(w)
  BY <1>1, <1>8 DEF FetcherStep, HandOver, BeginFetch, EndFetch, LeavePool, matchVars
<1>9. CASE MatchStep
  <2>1. CASE QueryAnswered
    <3>1. UNCHANGED <<Queried, turn>> /\ phase \in {"batch", "page"} /\ phase' = "results"
      BY <2>1 DEF QueryAnswered, matchVars
    <3>2. Chunk' = Chunk BY <3>1 DEF Chunk
    <3>3. MoreResults' = MoreResults BY <3>1, <3>2 DEF MoreResults
    <3>4. QED BY <3>1, <3>2, <3>3 DEF QueryInv, Querying, HasListed
  <2>2. CASE QueryFails BY <1>2, <2>2 DEF QueryFails, Fail
  <2>3. CASE TakePage BY <2>3, PageIsListed
  <2>4. CASE NextBatch BY <2>4, NextKeepsQuery
  <2>5. CASE StopHanding BY <1>1, <2>5 DEF StopHanding
  <2>6. CASE PrefetchEnds
    <3>1. CASE Fail BY <1>2, <3>1 DEF Fail
    <3>2. CASE phase' = "hydrate" /\ UNCHANGED matchVars
      BY <1>3, <2>6, <3>2 DEF PrefetchEnds, Prefetched, matchVars, HasListed
    <3>3. QED BY <2>6, <3>1, <3>2 DEF PrefetchEnds
  <2>7. CASE \/ Resolve \/ ReportAnyway \/ StartMerge \/ NextDependency \/ ReturnMatched
             \/ FetchAgain \/ LinkNext \/ EmitGroup
    <3>1. /\ UNCHANGED <<deps, chunk, pairs>> /\ phase \in {"hydrate", "merge"}
          /\ phase' \in {"hydrate", "merge", "done"}
      BY <2>7 DEF Resolve, ReportAnyway, StartMerge, NextDependency, ReturnMatched, Merging,
                  FetchAgain, LinkNext, EmitGroup, matchVars
    <3>2. QED BY <1>3, <3>1 DEF HasListed
  <2>8. QED BY <1>9, <2>1, <2>2, <2>3, <2>4, <2>5, <2>6, <2>7 DEF MatchStep
<1>10. QED BY <1>4, <1>5, <1>6, <1>7, <1>8, <1>9 DEF Next, OsvStep

\* Whatever a body says, it is given a severity and a confidence.
LEMMA BodiesAreRated ==
  ASSUME NEW b
  PROVE  /\ ParseSeverity(b).severity \in Severities \ {"none"}
         /\ ParseSeverity(b).confidence \in Confidences \ {"none"}
<1>1. \A n : SeverityFromScore(n) \in {"critical", "high", "medium", "low", "info"}
  BY DEF SeverityFromScore
<1>2. \E s \in {"critical", "high", "medium", "low", "info"}, c \in {"high", "medium", "low"} :
        ParseSeverity(b) = [severity |-> s, confidence |-> c]
  BY <1>1 DEF ParseSeverity
<1>3. /\ {"critical", "high", "medium", "low", "info"} \subseteq Severities \ {"none"}
      /\ {"high", "medium", "low"} \subseteq Confidences \ {"none"}
  BY DEF Severities, Confidences, SeverityRank, ConfidenceRank
<1>4. QED BY <1>2, <1>3

LEMMA HydratedIsRight ==
  ASSUME body \in Bodies, NEW id \in Ids, NEW dep, ~Skipped(body[id])
  PROVE  LET a == Hydrated(body[id], dep) IN RatedRight(a) /\ a.dep = dep /\ a.id = id
<1> DEFINE a == Hydrated(body[id], dep)
<1>0. body[id].id = id BY OsvAssumption DEF IsABody, Skipped
<1>1. /\ a.id = id /\ a.dep = dep /\ id \in a.ids /\ a.unavailable = FALSE
      /\ a.severity = ParseSeverity(body[id]).severity
      /\ a.confidence = ParseSeverity(body[id]).confidence
  BY <1>0 DEF Hydrated
<1> HIDE DEF a
<1>2. QED BY <1>1, BodiesAreRated DEF RatedRight, a

LEMMA WithoutDetailsIsRight ==
  ASSUME NEW id, NEW dep
  PROVE  LET a == WithoutDetails(id, dep) IN RatedRight(a) /\ a.dep = dep /\ a.id = id
<1> DEFINE a == WithoutDetails(id, dep)
<1>1. /\ a.id = id /\ a.dep = dep /\ id \in a.ids /\ a.unavailable = TRUE
      /\ a.severity = "high" /\ a.confidence = "low"
  BY DEF WithoutDetails
<1>2. "high" \in Severities /\ "low" \in Confidences
  BY DEF Severities, Confidences, SeverityRank, ConfidenceRank
<1> HIDE DEF a
<1>3. QED BY <1>1, <1>2 DEF RatedRight, a

LEMMA RatingInit == Init => RatingInv
<1>1. SUFFICES ASSUME Init PROVE RatingInv OBVIOUS
<1>2. body \in Bodies /\ advs = <<>> /\ pairs = <<>> /\ phase = "idle" /\ outcome = "none"
  BY <1>1 DEF Init, OsvInit
<1>3. QED BY <1>2, EmptyIsASequence DEF RatingInv

\* One pair more is resolved, by the advisory appended for it if there is one.
LEMMA OneMoreResolved ==
  ASSUME RatingInv, phase = "hydrate", phase' = "hydrate", turn \in Nat,
         UNCHANGED <<pairs, body, outcome>>, outcome # "ok", turn' = turn + 1,
         \/ advs' = advs /\ Skipped(body[pairs[turn].id])
         \/ \E a : /\ advs' = Append(advs, a) /\ RatedRight(a)
                   /\ a.dep = pairs[turn].dep /\ a.id = pairs[turn].id
  PROVE  RatingInv'
<1>1. IsASequence(advs) /\ Len(advs) \in Nat BY DEF RatingInv, IsASequence
<1>2. /\ IsASequence(advs')
      /\ \A k \in 1..Len(advs') : RatedRight(advs'[k])
      /\ \A k \in 1..Len(advs) : k \in 1..Len(advs') /\ advs'[k] = advs[k]
      /\ Resolved(advs', pairs[turn])
  <2>1. CASE advs' = advs /\ Skipped(body[pairs[turn].id])
    BY <2>1 DEF RatingInv, Resolved
  <2>2. CASE \E a : /\ advs' = Append(advs, a) /\ RatedRight(a)
                    /\ a.dep = pairs[turn].dep /\ a.id = pairs[turn].id
    <3>1. PICK a : /\ advs' = Append(advs, a) /\ RatedRight(a)
                   /\ a.dep = pairs[turn].dep /\ a.id = pairs[turn].id
      BY <2>2
    <3>2. /\ IsASequence(advs') /\ Len(advs') = Len(advs) + 1
          /\ \A n \in 1..Len(advs) : advs'[n] = advs[n]
          /\ advs'[Len(advs) + 1] = a
      BY <1>1, <3>1, Appending
    <3>3. \A k \in 1..Len(advs') : k \in 1..Len(advs) \/ k = Len(advs) + 1 BY <1>1, <3>2
    <3>4. \A k \in 1..Len(advs') : RatedRight(advs'[k]) BY <3>1, <3>2, <3>3 DEF RatingInv
    <3>5. Len(advs) + 1 \in 1..Len(advs') BY <1>1, <3>2
    <3>6. QED BY <1>1, <3>1, <3>2, <3>4, <3>5 DEF Resolved
  <2>3. QED BY <2>1, <2>2
<1>3. \A p : Resolved(advs, p) => Resolved(advs', p) BY <1>2 DEF Resolved
<1>4. \A n \in 1..Len(pairs) : n < turn' => n < turn \/ n = turn OBVIOUS
<1>5. \A n \in 1..Len(pairs) : n < turn' => Resolved(advs', pairs[n]) BY <1>2, <1>3, <1>4 DEF RatingInv
<1>6. QED BY <1>2, <1>5 DEF RatingInv, Resolved, RatedRight

LEMMA RatingStep ==
  ASSUME ListInv, QueryInv, AskedInv, RatingInv, [Next]_scaVars
  PROVE  RatingInv'
<1>0. turn \in Nat BY DEF ListInv
<1>1. ASSUME UNCHANGED <<advs, pairs, body, phase, turn, outcome>> PROVE RatingInv'
  BY <1>1 DEF RatingInv, RatedRight, Resolved
<1>2. ASSUME UNCHANGED <<advs, body>>, phase' \notin {"hydrate", "merge"}, outcome' # "ok" PROVE RatingInv'
  BY <1>2 DEF RatingInv, RatedRight
<1>3. ASSUME UNCHANGED <<advs, pairs, body>>, phase = "merge", phase' \in {"merge", "done"} PROVE RatingInv'
  BY <1>3 DEF RatingInv, RatedRight, Resolved
<1>4. CASE UNCHANGED scaVars BY <1>1, <1>4 DEF scaVars, osvVars, matchVars
<1>5. CASE ScanStep
  <2>1. CASE UNCHANGED osvVars BY <1>1, <2>1 DEF osvVars, matchVars
  <2>2. CASE StartMatch(inventory')
    <3>1. UNCHANGED <<advs, body, outcome>> /\ phase = "idle" /\ phase' = "batch"
      BY <2>2 DEF StartMatch, Query
    <3>2. QED BY <1>2, <3>1 DEF AskedInv
  <2>3. QED BY <1>5, <2>1, <2>2
       DEF ScanStep, StartScan, SkipManifest, ReadManifest, TakeInventory, ReportMatched, ReportFailure
<1>6. CASE ExpireDeadline BY <1>1, <1>6 DEF ExpireDeadline, matchVars
<1>7. CASE \E r \in Fetchers \cup {Caller} : RequestStep(r)
  BY <1>1, <1>7 DEF RequestStep, Answered, Refused, Retryable, DeadlineFails, TryAgain, matchVars
<1>8. CASE \E w \in Fetchers : FetcherStep(w)
  BY <1>1, <1>8 DEF FetcherStep, HandOver, BeginFetch, EndFetch, LeavePool, matchVars
<1>9. CASE MatchStep
  <2>1. CASE QueryAnswered \/ TakePage \/ NextBatch
    <3>1. /\ UNCHANGED <<advs, body, outcome>> /\ phase \in {"batch", "page", "results"}
          /\ phase' \notin {"hydrate", "merge"}
      BY <2>1 DEF QueryAnswered, TakePage, NextBatch, Query, matchVars
    <3>2. QED BY <1>2, <3>1 DEF AskedInv
  <2>2. CASE QueryFails BY <1>2, <2>2 DEF QueryFails, Fail
  <2>3. CASE StopHanding BY <1>1, <2>3 DEF StopHanding
  <2>4. CASE PrefetchEnds
    <3>1. CASE Fail BY <1>2, <3>1 DEF Fail
    <3>2. CASE phase' = "hydrate" /\ UNCHANGED <<matchVars, body>>
      <4>1. phase = "prefetch" /\ UNCHANGED <<advs, pairs, body, turn, outcome>>
        BY <2>4, <3>2 DEF PrefetchEnds, Prefetched, matchVars
      <4>2. turn = 1 /\ outcome # "ok" BY <4>1 DEF QueryInv, AskedInv
      <4>3. \A n \in 1..Len(pairs) : ~(n < turn) BY <4>2
      <4>4. QED BY <3>2, <4>1, <4>2, <4>3 DEF RatingInv, RatedRight
    <3>3. QED BY <2>4, <3>1, <3>2 DEF PrefetchEnds
  <2>5. CASE Resolve
    <3>1. /\ phase = "hydrate" /\ phase' = "hydrate" /\ turn' = turn + 1
          /\ UNCHANGED <<pairs, body, outcome>>
          /\ advs' = IF Skipped(body[pairs[turn].id]) THEN advs
                     ELSE Append(advs, Hydrated(body[pairs[turn].id], pairs[turn].dep))
      BY <2>5 DEF Resolve
    <3>2. outcome # "ok" BY <3>1 DEF AskedInv
    <3>3. CASE Skipped(body[pairs[turn].id])
      <4>1. advs' = advs BY <3>1, <3>3
      <4>2. QED BY <1>0, <3>1, <3>2, <3>3, <4>1, OneMoreResolved
    <3>4. CASE ~Skipped(body[pairs[turn].id])
      <4> DEFINE a == Hydrated(body[pairs[turn].id], pairs[turn].dep)
      <4>1. advs' = Append(advs, a) BY <3>1, <3>4
      <4>2. pairs[turn].id \in Ids
        <5>1. turn \in 1..Len(pairs) BY <1>0, <2>5 DEF Resolve, ListInv, IsASequence
        <5>2. QED BY <5>1 DEF ListInv, PairIds
      <4>3. RatedRight(a) /\ a.dep = pairs[turn].dep /\ a.id = pairs[turn].id
        BY <3>4, <4>2, HydratedIsRight DEF RatingInv
      <4> HIDE DEF a
      <4>4. QED BY <1>0, <3>1, <3>2, <4>1, <4>3, OneMoreResolved
    <3>5. QED BY <3>3, <3>4
  <2>6. CASE ReportAnyway
    <3> DEFINE a == WithoutDetails(pairs[turn].id, pairs[turn].dep)
    <3>1. /\ phase = "hydrate" /\ phase' = "hydrate" /\ turn' = turn + 1
          /\ UNCHANGED <<pairs, body, outcome>> /\ advs' = Append(advs, a)
      BY <2>6 DEF ReportAnyway
    <3>2. outcome # "ok" BY <3>1 DEF AskedInv
    <3>3. RatedRight(a) /\ a.dep = pairs[turn].dep /\ a.id = pairs[turn].id BY WithoutDetailsIsRight
    <3> HIDE DEF a
    <3>4. QED BY <1>0, <3>1, <3>2, <3>3, OneMoreResolved
  <2>7. CASE FetchAgain BY <1>1, <2>7 DEF FetchAgain, matchVars
  <2>8. CASE StartMerge
    <3>1. /\ phase = "hydrate" /\ phase' = "merge" /\ turn > Len(pairs)
          /\ UNCHANGED <<advs, pairs, body>>
      BY <2>8 DEF StartMerge
    <3>2. Len(pairs) \in Nat BY DEF ListInv, IsASequence
    <3>3. \A n \in 1..Len(pairs) : n < turn BY <1>0, <3>1, <3>2
    <3>4. QED BY <3>1, <3>3 DEF RatingInv, RatedRight, Resolved
  <2>9. CASE LinkNext \/ EmitGroup \/ NextDependency \/ ReturnMatched
    BY <1>3, <2>9 DEF LinkNext, EmitGroup, NextDependency, ReturnMatched, Merging
  <2>10. QED BY <1>9, <2>1, <2>2, <2>3, <2>4, <2>5, <2>6, <2>7, <2>8, <2>9 DEF MatchStep
<1>10. QED BY <1>4, <1>5, <1>6, <1>7, <1>8, <1>9 DEF Next, OsvStep

LEMMA RanksAreNumbers ==
  /\ \A s \in Severities : SeverityRank[s] \in 0..5
  /\ \A s, t \in Severities : SeverityRank[s] = SeverityRank[t] => s = t
  /\ \A c \in Confidences : ConfidenceRank[c] \in 0..3
<1>1. Severities = {"critical", "high", "medium", "low", "info", "none"} BY DEF Severities, SeverityRank
<1>2. /\ SeverityRank["critical"] = 5 /\ SeverityRank["high"] = 4 /\ SeverityRank["medium"] = 3
      /\ SeverityRank["low"] = 2 /\ SeverityRank["info"] = 1 /\ SeverityRank["none"] = 0
  BY DEF SeverityRank
<1>3. Confidences = {"high", "medium", "low", "none"} BY DEF Confidences, ConfidenceRank
<1>4. /\ ConfidenceRank["high"] = 3 /\ ConfidenceRank["medium"] = 2
      /\ ConfidenceRank["low"] = 1 /\ ConfidenceRank["none"] = 0
  BY DEF ConfidenceRank
<1>5. QED BY <1>1, <1>2, <1>3, <1>4

\* A group has a worst member, and no other is rated higher.
LEMMA WorstIsWorst ==
  ASSUME NEW M, M # {}, \A m \in M : m.severity \in Severities /\ m.confidence \in Confidences
  PROVE  /\ WorstMember(M) \in M
         /\ \A n \in M : SeverityRank[n.severity] <= SeverityRank[WorstMember(M).severity]
<1> DEFINE Sev(m) == SeverityRank[m.severity]
           Con(m) == ConfidenceRank[m.confidence]
           Worst(m) == \A n \in M : \/ Sev(n) < Sev(m)
                                    \/ n.severity = m.severity /\ Con(n) <= Con(m)
<1>1. \A m \in M : Sev(m) \in 0..5 /\ Con(m) \in 0..3 BY RanksAreNumbers
<1>2. \A m, n \in M : Sev(m) = Sev(n) => m.severity = n.severity BY RanksAreNumbers
<1>3. WorstMember(M) = CHOOSE m \in M : Worst(m) BY DEF WorstMember
<1> HIDE DEF Sev, Con
<1>4. PICK m1 \in M : \A n \in M : Sev(n) <= Sev(m1)
  <2> DEFINE T == {5 - Sev(m) : m \in M}
  <2>1. T \subseteq Nat /\ T # {} BY <1>1
  <2>2. PICK x \in T : \A y \in T : x <= y
    <3> HIDE DEF T
    <3>1. QED BY <2>1, LeastOf
  <2>3. PICK m \in M : x = 5 - Sev(m) BY <2>2
  <2>4. \A n \in M : 5 - Sev(m) <= 5 - Sev(n) BY <2>2, <2>3
  <2>5. QED BY <1>1, <2>4
<1>5. PICK m2 \in M : Sev(m2) = Sev(m1) /\ \A n \in M : Sev(n) = Sev(m1) => Con(n) <= Con(m2)
  <2> DEFINE B == {m \in M : Sev(m) = Sev(m1)}
             T == {3 - Con(m) : m \in B}
  <2>1. T \subseteq Nat /\ T # {} BY <1>1
  <2>2. PICK x \in T : \A y \in T : x <= y
    <3> HIDE DEF T
    <3>1. QED BY <2>1, LeastOf
  <2>3. PICK m \in B : x = 3 - Con(m) BY <2>2
  <2>4. \A n \in B : 3 - Con(m) <= 3 - Con(n) BY <2>2, <2>3
  <2>5. \A n \in B : Con(n) <= Con(m) BY <1>1, <2>4
  <2>6. QED BY <2>5
<1>6. Worst(m2)
  <2> SUFFICES ASSUME NEW n \in M
               PROVE  Sev(n) < Sev(m2) \/ (n.severity = m2.severity /\ Con(n) <= Con(m2))
    OBVIOUS
  <2>1. CASE Sev(n) = Sev(m2) BY <1>2, <1>5, <2>1
  <2>2. CASE Sev(n) # Sev(m2) BY <1>1, <1>4, <1>5, <2>2
  <2>3. QED BY <2>1, <2>2
<1> DEFINE w == WorstMember(M)
<1>7. w \in M /\ Worst(w)
  <2> HIDE DEF Worst
  <2>1. QED BY <1>3, <1>6
<1> HIDE DEF w
<1>8. ASSUME NEW n \in M PROVE Sev(n) <= Sev(w)
  <2>1. CASE Sev(n) < Sev(w) BY <1>1, <1>7, <2>1
  <2>2. CASE n.severity = w.severity BY <1>1, <2>2 DEF Sev
  <2>3. QED BY <1>7, <2>1, <2>2
<1>9. QED BY <1>7, <1>8 DEF Sev, w

\* The advisories of the dependency at hand are all of them there are.
LEMMA MineIsAll ==
  ASSUME IsASequence(advs)
  PROVE  /\ \A i \in 1..Len(Mine) : \E k \in 1..Len(advs) : Mine[i] = advs[k]
         /\ \A k \in 1..Len(advs) : advs[k].dep = Order[turn] =>
              \E i \in 1..Len(Mine) : Mine[i] = advs[k]
<1> DEFINE S == {n \in DOMAIN advs : advs[n].dep = Order[turn]}
           picked == Picked(advs, S)
<1>1. DOMAIN advs = 1..Len(advs) /\ Len(advs) \in Nat BY DEF IsASequence
<1>2. S \subseteq 1..Len(advs) /\ S \subseteq Nat BY <1>1
<1>3. \A k \in 1..Len(advs) : advs[k].dep = Order[turn] => k \in S BY <1>1
<1>4. Mine = picked BY DEF Mine
<1> HIDE DEF S
<1>5. IsFiniteSet(S)
  <2>1. IsFiniteSet(1..Len(advs)) BY <1>1, FS_Interval
  <2>2. QED BY <1>2, <2>1, FS_Subset
<1>6. IsASequence(picked) /\ \A n \in 1..Len(picked) : \E k \in S : picked[n] = advs[k]
  <2>1. ArePlaces(S) BY <1>2, <1>5 DEF ArePlaces
  <2>2. QED BY <2>1, PickingFrom
<1>7. /\ Cardinality(S) \in Nat
      /\ DOMAIN picked = 1..Cardinality(S)
      /\ \A n \in DOMAIN picked :
           Place(S, n) \in S /\ Rank(S, Place(S, n)) = n /\ picked[n] = advs[Place(S, n)]
      /\ \A k \in S : Rank(S, k) \in DOMAIN picked /\ picked[Rank(S, k)] = advs[k]
  BY <1>2, <1>5, Picking
<1>8. DOMAIN picked = 1..Len(picked) BY <1>6 DEF IsASequence
<1> HIDE DEF picked
<1>9. QED BY <1>2, <1>3, <1>4, <1>6, <1>7, <1>8

\* A merged advisory covers each of its members.
LEMMA MergedCovers ==
  ASSUME RatingInv, NEW S, S # {}, S \subseteq 1..Len(Mine)
  PROVE  \A i \in S : Covers(MergeGroup(Mine, S), Mine[i])
<1> DEFINE M == {Mine[k] : k \in S}
           merged == MergeGroup(Mine, S)
<1>1. IsASequence(advs) /\ \A k \in 1..Len(advs) : RatedRight(advs[k]) BY DEF RatingInv
<1>2. \A i \in 1..Len(Mine) : RatedRight(Mine[i]) /\ Mine[i].dep = Order[turn]
  BY <1>1, MineIsAll, MineIsMine
<1>3. M # {} /\ \A m \in M : m.severity \in Severities /\ m.confidence \in Confidences
  BY <1>2 DEF RatedRight
<1>4. \A i \in S : SeverityRank[Mine[i].severity] <= SeverityRank[WorstMember(M).severity]
  <2>1. \A i \in S : Mine[i] \in M OBVIOUS
  <2> HIDE DEF M
  <2>2. QED BY <1>3, <2>1, WorstIsWorst
<1>5. merged.severity = WorstMember(M).severity BY DEF MergeGroup
<1>6. merged.dep = Order[turn] /\ merged.ids = UNION {Mine[j].ids : j \in S}
  BY <1>1, MergedHasAllIds
<1> HIDE DEF merged, M
<1>7. ASSUME NEW i \in S PROVE Covers(merged, Mine[i])
  <2>1. Mine[i].ids \subseteq merged.ids BY <1>6
  <2>2. Mine[i].dep = merged.dep BY <1>2, <1>6
  <2>3. QED BY <1>4, <1>5, <2>1, <2>2 DEF Covers
<1>8. QED BY <1>7 DEF merged

\* Each dependency that was listed has its turn.
LEMMA OrderHasAll ==
  ASSUME ListInv
  PROVE  \A n \in 1..Len(pairs) : \E t \in 1..Len(Order) : Order[t] = pairs[n].dep
<1> DEFINE ds == [n \in DOMAIN pairs |-> pairs[n].dep]
<1>1. IsASequence(pairs) BY DEF ListInv
<1>2. ds = [n \in DOMAIN pairs |-> ds[n]] /\ \A n \in DOMAIN pairs : ds[n] = pairs[n].dep OBVIOUS
<1>3. Order = FirstSeen(ds) BY DEF Order
<1> HIDE DEF ds
<1>4. IsASequence(ds) /\ Len(ds) = Len(pairs) BY <1>1, <1>2, SameLength
<1>5. \A k \in 1..Len(ds) : \E n \in 1..Len(Order) : Order[n] = ds[k] BY <1>3, <1>4, SeenOnce
<1>6. DOMAIN pairs = 1..Len(pairs) BY <1>1 DEF IsASequence
<1>7. QED BY <1>2, <1>4, <1>5, <1>6

LEMMA CoverInit == Init => CoverInv
BY DEF Init, OsvInit, CoverInv

\* A group's members are covered when its first is reached.
LEMMA EmitKeepsCover ==
  ASSUME ListInv, RatingInv, GroupInv, CoverInv, EmitGroup
  PROVE  CoverInv'
<1> DEFINE k0 == emitted + 1
           new == MergeGroup(Mine, Group(k0))
<1>1. /\ phase = "merge" /\ phase' = "merge" /\ turn <= Len(Order)
      /\ Len(label) = Len(Mine) /\ emitted < Len(Mine)
      /\ UNCHANGED <<advs, pairs, turn, label, outcome>> /\ emitted' = k0
      /\ matched' = IF \E j \in 1..emitted : label[j] = label[k0] THEN matched ELSE Append(matched, new)
  BY DEF EmitGroup, Merging, Group
<1>2. Mine' = Mine /\ Order' = Order BY <1>1 DEF Mine, Order
<1>3. /\ IsASequence(label) /\ Len(label) \in Nat /\ DOMAIN label = 1..Len(label)
      /\ emitted \in Nat /\ IsASequence(matched) /\ Len(matched) \in Nat
  BY <1>1 DEF GroupInv, IsASequence
<1>4. k0 \in 1..Len(label) /\ \A j \in 1..k0 : j = k0 \/ j \in 1..emitted BY <1>1, <1>3
<1>5. /\ \A k \in 1..Len(advs) : \A t \in 1..Len(Order) :
           t < turn /\ advs[k].dep = Order[t] => Covered(matched, advs[k])
      /\ \A i \in 1..Len(label) : Emitted(i) => Covered(matched, Mine[i])
  BY <1>1 DEF CoverInv
<1>6. /\ \A a : Covered(matched, a) => Covered(matched', a)
      /\ \A i \in 1..Len(label) : label[k0] = label[i] => Covered(matched', Mine[i]) \/ Emitted(i)
  <2>1. CASE \E j \in 1..emitted : label[j] = label[k0]
    <3>1. matched' = matched BY <1>1, <2>1
    <3>2. QED BY <2>1, <3>1 DEF Emitted
  <2>2. CASE ~\E j \in 1..emitted : label[j] = label[k0]
    <3>1. matched' = Append(matched, new) BY <1>1, <2>2
    <3>2. \A i \in Group(k0) : Covers(new, Mine[i])
      <4>1. k0 \in Group(k0) /\ Group(k0) \subseteq 1..Len(Mine) BY <1>1, <1>3, <1>4 DEF Group
      <4>2. Group(k0) # {} BY <4>1
      <4>3. QED BY <4>1, <4>2, MergedCovers
    <3>3. \A i \in 1..Len(label) : label[k0] = label[i] => i \in Group(k0) BY <1>3 DEF Group
    <3> HIDE DEF new
    <3>4. /\ Len(matched') = Len(matched) + 1
          /\ \A n \in 1..Len(matched) : matched'[n] = matched[n]
          /\ matched'[Len(matched) + 1] = new
      BY <1>3, <3>1, Appending
    <3>5. Len(matched) + 1 \in 1..Len(matched') /\ 1..Len(matched) \subseteq 1..Len(matched')
      BY <1>3, <3>4
    <3>6. \A a : Covered(matched, a) => Covered(matched', a) BY <3>4, <3>5 DEF Covered
    <3>7. \A i \in Group(k0) : Covered(matched', Mine[i]) BY <3>2, <3>4, <3>5 DEF Covered
    <3>8. QED BY <3>3, <3>6, <3>7
  <2>3. QED BY <2>1, <2>2
<1>7. \A k \in 1..Len(advs) : \A t \in 1..Len(Order) :
        t < turn /\ advs[k].dep = Order[t] => Covered(matched', advs[k])
  BY <1>5, <1>6
<1>8. \A i \in 1..Len(label) : (\E j \in 1..k0 : label[j] = label[i]) => Covered(matched', Mine[i])
  <2> SUFFICES ASSUME NEW i \in 1..Len(label), NEW j \in 1..k0, label[j] = label[i]
               PROVE  Covered(matched', Mine[i]) OBVIOUS
  <2>1. Emitted(i) => Covered(matched', Mine[i]) BY <1>5, <1>6
  <2>2. CASE j = k0 BY <1>6, <2>1, <2>2
  <2>3. CASE j \in 1..emitted BY <2>1, <2>3 DEF Emitted
  <2>4. QED BY <1>4, <2>2, <2>3
<1>9. outcome' = "ok" => outcome = "ok" BY <1>1
<1>10. outcome = "ok" => \A k \in 1..Len(advs) : \A t \in 1..Len(Order) :
        advs[k].dep = Order[t] => Covered(matched', advs[k])
  BY <1>6 DEF CoverInv
<1> HIDE DEF k0, new
<1>11. \A i \in 1..Len(label) : Emitted(i)' => Covered(matched', Mine[i])
  BY <1>1, <1>8 DEF Emitted
<1>12. QED BY <1>1, <1>2, <1>7, <1>10, <1>11 DEF CoverInv

LEMMA CoverStep ==
  ASSUME ListInv, AskedInv, RatingInv, GroupInv, CoverInv, [Next]_scaVars
  PROVE  CoverInv'
<1> DEFINE Kept == <<matched, advs, pairs>>
<1>0. turn \in Nat /\ Len(Order) \in Nat BY OrderIsOnce DEF ListInv
<1>1. ASSUME UNCHANGED <<Kept, label, emitted, phase, turn, outcome>> PROVE CoverInv'
  <2>1. Mine' = Mine /\ Order' = Order BY <1>1 DEF Mine, Order
  <2>2. QED BY <1>1, <2>1 DEF CoverInv, Emitted
<1>2. ASSUME phase' # "merge", outcome' # "ok" PROVE CoverInv'
  BY <1>2 DEF CoverInv
<1>3. CASE UNCHANGED scaVars BY <1>1, <1>3 DEF scaVars, osvVars, matchVars
<1>4. CASE ScanStep
  <2>1. CASE UNCHANGED osvVars BY <1>1, <2>1 DEF osvVars, matchVars
  <2>2. CASE StartMatch(inventory')
    <3>1. outcome' = outcome /\ phase = "idle" /\ phase' = "batch" BY <2>2 DEF StartMatch, Query
    <3>2. QED BY <1>2, <3>1 DEF AskedInv
  <2>3. QED BY <1>4, <2>1, <2>2
       DEF ScanStep, StartScan, SkipManifest, ReadManifest, TakeInventory, ReportMatched, ReportFailure
<1>5. CASE ExpireDeadline BY <1>1, <1>5 DEF ExpireDeadline, matchVars
<1>6. CASE \E r \in Fetchers \cup {Caller} : RequestStep(r)
  BY <1>1, <1>6 DEF RequestStep, Answered, Refused, Retryable, DeadlineFails, TryAgain, matchVars
<1>7. CASE \E w \in Fetchers : FetcherStep(w)
  BY <1>1, <1>7 DEF FetcherStep, HandOver, BeginFetch, EndFetch, LeavePool, matchVars
<1>8. CASE MatchStep
  <2>1. CASE \/ QueryAnswered \/ QueryFails \/ TakePage \/ NextBatch \/ StopHanding \/ PrefetchEnds
             \/ Resolve \/ FetchAgain \/ ReportAnyway
    <3>1. /\ phase \in {"batch", "page", "results", "prefetch", "hydrate"} /\ phase' # "merge"
          /\ outcome' = outcome \/ outcome' = "error"
      BY <2>1 DEF QueryAnswered, QueryFails, TakePage, NextBatch, StopHanding, PrefetchEnds, Prefetched,
                  Fail, Query, Resolve, FetchAgain, ReportAnyway, matchVars
    <3>2. QED BY <1>2, <3>1 DEF AskedInv
  <2>2. CASE StartMerge
    <3>1. /\ phase = "hydrate" /\ phase' = "merge" /\ turn' = 1
          /\ UNCHANGED <<label, emitted, outcome>>
      BY <2>2 DEF StartMerge
    <3>2. label = <<>> /\ Len(label) = 0 /\ outcome # "ok"
      BY <3>1, EmptySeq DEF GroupInv, Early, AskedInv
    <3>3. 1..Len(label') = {} /\ \A t \in 1..Len(Order') : ~(t < turn') BY <3>1, <3>2
    <3>4. QED BY <3>1, <3>2, <3>3 DEF CoverInv
  <2>3. CASE LinkNext
    <3>1. /\ phase = "merge" /\ phase' = "merge" /\ Len(label) < Len(Mine)
          /\ UNCHANGED <<Kept, turn, emitted, outcome>>
      BY <2>3 DEF LinkNext, Merging
    <3>2. Mine' = Mine /\ Order' = Order BY <3>1 DEF Mine, Order
    <3>3. emitted = 0
      <4>1. Len(Mine) \in Nat /\ Len(label) \in Nat /\ emitted \in Nat /\ (emitted > 0 => Len(label) = Len(Mine))
        BY <3>1, MineIsMine DEF GroupInv, IsASequence
      <4>2. QED BY <3>1, <4>1
    <3>4. \A i : ~Emitted(i)' BY <3>1, <3>3 DEF Emitted
    <3>5. QED BY <3>1, <3>2, <3>4 DEF CoverInv
  <2>4. CASE EmitGroup BY <2>4, EmitKeepsCover
  <2>5. CASE NextDependency
    <3>1. /\ phase = "merge" /\ phase' = "merge" /\ turn <= Len(Order) /\ turn' = turn + 1
          /\ Len(label) = Len(Mine) /\ emitted = Len(Mine) /\ label' = <<>>
          /\ UNCHANGED <<Kept, outcome>>
      BY <2>5 DEF NextDependency, Merging
    <3>2. Order' = Order BY <3>1 DEF Order
    <3>3. \A i \in 1..Len(Mine) : Covered(matched, Mine[i])
      <4>1. \A i \in 1..Len(label) : Emitted(i) => Covered(matched, Mine[i]) BY <3>1 DEF CoverInv
      <4>2. \A i \in 1..Len(label) : Emitted(i) BY <3>1 DEF Emitted
      <4>3. QED BY <3>1, <4>1, <4>2
    <3>4. \A k \in 1..Len(advs) : advs[k].dep = Order[turn] => Covered(matched, advs[k])
      BY <3>3, MineIsAll DEF RatingInv
    <3>5. \A t \in 1..Len(Order) : t < turn' => t < turn \/ t = turn BY <1>0, <3>1
    <3>6. \A k \in 1..Len(advs) : \A t \in 1..Len(Order) :
            t < turn' /\ advs[k].dep = Order[t] => Covered(matched, advs[k])
      BY <3>1, <3>4, <3>5 DEF CoverInv
    <3>7. outcome' # "ok" /\ 1..Len(label') = {} BY <3>1, EmptySeq DEF AskedInv
    <3>8. QED BY <3>1, <3>2, <3>6, <3>7 DEF CoverInv
  <2>6. CASE ReturnMatched
    <3>1. phase = "merge" /\ phase' = "done" /\ turn > Len(Order) /\ UNCHANGED Kept
      BY <2>6 DEF ReturnMatched
    <3>2. Order' = Order BY <3>1 DEF Order
    <3>3. \A t \in 1..Len(Order) : t < turn BY <1>0, <3>1
    <3>4. QED BY <3>1, <3>2, <3>3 DEF CoverInv
  <2>7. QED BY <1>8, <2>1, <2>2, <2>3, <2>4, <2>5, <2>6 DEF MatchStep
<1>9. QED BY <1>3, <1>4, <1>5, <1>6, <1>7, <1>8 DEF Next, OsvStep

LEMMA ReportStep ==
  ASSUME AskedInv, ReportInv, [Next]_scaVars
  PROVE  ReportInv'
<1>1. ASSUME UNCHANGED <<scanVars, deps>>, outcome = "ok" => UNCHANGED <<outcome, matched>> PROVE ReportInv'
  BY <1>1 DEF ReportInv, scanVars
<1>2. CASE UNCHANGED scaVars BY <1>1, <1>2 DEF scaVars, osvVars, matchVars
<1>3. CASE ScanStep
  <2>1. CASE at' \in {"idle", "reading"} BY <2>1 DEF ReportInv
  <2>2. CASE TakeInventory
    <3>1. CASE inventory' = <<>>
      <4>1. at' = "done" BY <2>2, <3>1 DEF TakeInventory
      <4>2. QED BY <3>1, <4>1 DEF ReportInv
    <3>2. CASE inventory' # <<>>
      <4>1. at' = "matching" /\ deps' = inventory' BY <2>2, <3>2 DEF TakeInventory, StartMatch
      <4>2. QED BY <4>1 DEF ReportInv
    <3>3. QED BY <3>1, <3>2
  <2>3. CASE ReportMatched
    <3>1. /\ at = "matching" /\ at' = "done" /\ outcome = "ok"
          /\ findings' = [n \in DOMAIN matched |-> Finding(matched[n])]
          /\ UNCHANGED <<inventory, deps, outcome, matched>>
      BY <2>3 DEF ReportMatched, osvVars, matchVars
    <3>2. inventory = deps BY <3>1 DEF ReportInv
    <3>3. QED BY <3>1, <3>2 DEF ReportInv
  <2>4. CASE ReportFailure
    <3>1. at' = "done" /\ (result' # "ok" \/ <<"osv", "skipped">> \in diags')
      BY <2>4 DEF ReportFailure
    <3>2. QED BY <3>1 DEF ReportInv
  <2>5. CASE StartScan \/ \E f \in Manifests : SkipManifest(f) \/ ReadManifest(f)
    <3>1. at' = "reading" BY <2>5 DEF StartScan, SkipManifest, ReadManifest, Reading
    <3>2. QED BY <2>1, <3>1
  <2>6. QED BY <1>3, <2>2, <2>3, <2>4, <2>5 DEF ScanStep
<1>4. CASE ExpireDeadline /\ UNCHANGED scanVars BY <1>1, <1>4 DEF ExpireDeadline, matchVars
<1>5. CASE OsvStep /\ UNCHANGED scanVars
  <2>1. CASE \E r \in Fetchers \cup {Caller} : RequestStep(r)
    BY <1>1, <1>5, <2>1 DEF RequestStep, Answered, Refused, Retryable, DeadlineFails, TryAgain, matchVars
  <2>2. CASE \E w \in Fetchers : FetcherStep(w)
    BY <1>1, <1>5, <2>2 DEF FetcherStep, HandOver, BeginFetch, EndFetch, LeavePool, matchVars
  <2>3. CASE MatchStep
    <3>1. phase # "done" /\ deps' = deps
      BY <2>3 DEF MatchStep, QueryAnswered, QueryFails, TakePage, NextBatch, StopHanding, PrefetchEnds,
                  Prefetched, Resolve, FetchAgain, ReportAnyway, StartMerge, LinkNext, EmitGroup,
                  NextDependency, ReturnMatched, Merging, Fail, matchVars
    <3>2. outcome # "ok" BY <3>1 DEF AskedInv
    <3>3. QED BY <1>1, <1>5, <3>1, <3>2
  <2>4. QED BY <1>5, <2>1, <2>2, <2>3 DEF OsvStep
<1>6. QED BY <1>2, <1>3, <1>4, <1>5 DEF Next

\* When a scan has reported, each ID listed is in one finding, rated high enough.
LEMMA ReportedIsComplete ==
  ASSUME ListInv, QueryInv, RatingInv, GroupInv, CoverInv, ReportInv
  PROVE  NoAdvisoryIsLost
<1> SUFFICES ASSUME at = "done", result = "ok", <<"osv", "skipped">> \notin diags,
                    NEW d \in ToSet(inventory), NEW id \in ListedIds(d)
             PROVE  LET covering == {n \in DOMAIN findings : findings[n].dep = d /\ id \in findings[n].ids}
                        least == IF Unresolved(d, id) THEN "high" ELSE ParseSeverity(body[id]).severity
                    IN  \/ Skipped(body[id]) /\ ~Unresolved(d, id)
                        \/ /\ Cardinality(covering) = 1
                           /\ \A n \in covering :
                                SeverityRank[findings[n].severity] >= SeverityRank[least]
  BY DEF NoAdvisoryIsLost
<1> DEFINE least == IF Unresolved(d, id) THEN "high" ELSE ParseSeverity(body[id]).severity
           covering == {n \in DOMAIN findings : findings[n].dep = d /\ id \in findings[n].ids}
<1>1. /\ inventory = deps /\ outcome = "ok"
      /\ findings = [n \in DOMAIN matched |-> Finding(matched[n])]
  <2>1. inventory # <<>> BY DEF ToSet
  <2>2. QED BY <2>1 DEF ReportInv
<1>2. IsASequence(deps) /\ IsASequence(advs) /\ IsASequence(matched) /\ IsASequence(pairs)
  BY DEF ListInv, QueryInv, GroupInv
\* OSV listed it: there is a pair for it.
<1>3. PICK n0 \in 1..Len(pairs) : pairs[n0].dep = d /\ pairs[n0].id = id
  <2>1. PICK k \in 1..Len(deps) : d = deps[k] BY <1>1, <1>2 DEF ToSet, IsASequence
  <2>2. HasAll(pairs, d) BY <1>1, <2>1 DEF QueryInv
  <2>3. PICK p \in DOMAIN Listing(d) : id \in ToSet(Listing(d)[p]) BY DEF ListedIds
  <2>4. p \in 1..Len(Listing(d))
    <3>1. Listing(d) \in Seq(Seq(Ids)) \ {<<>>}
      <4>1. CASE <<d.package, d.version>> \in DOMAIN Pages BY <4>1, OsvAssumption DEF Listing
      <4>2. CASE <<d.package, d.version>> \notin DOMAIN Pages
        <5>1. <<>> \in Seq(Ids) BY EmptySeq
        <5>2. QED BY <4>2, <5>1 DEF Listing
      <4>3. QED BY <4>1, <4>2
    <3>2. QED BY <2>3, <3>1, LenProperties
  <2>5. QED BY <2>2, <2>3, <2>4 DEF HasAll, HasPage
<1>4. PICK t \in 1..Len(Order) : Order[t] = d BY <1>3, OrderHasAll
<1>5. DOMAIN advs = 1..Len(advs) /\ DOMAIN matched = 1..Len(matched) BY <1>2 DEF IsASequence
\* An advisory resolved for it is covered by what Match returned.
<1>6. ASSUME NEW k \in 1..Len(advs), advs[k].dep = d, advs[k].id = id,
             Unresolved(d, id) => advs[k].unavailable
      PROVE  Cardinality(covering) = 1 /\ \A n \in covering : SeverityRank[findings[n].severity] >= SeverityRank[least]
  <2>1. RatedRight(advs[k]) BY DEF RatingInv
  <2>2. advs[k].severity = least /\ id \in advs[k].ids /\ least \in Severities
    <3>1. CASE Unresolved(d, id) BY <1>6, <2>1, <3>1 DEF RatedRight
    <3>2. CASE ~Unresolved(d, id)
      <4>1. ~advs[k].unavailable BY <1>5, <1>6, <3>2 DEF Unresolved
      <4>2. QED BY <1>6, <2>1, <3>2, <4>1 DEF RatedRight
    <3>3. QED BY <3>1, <3>2
  <2>3. PICK m \in 1..Len(matched) : Covers(matched[m], advs[k])
    BY <1>1, <1>4, <1>6 DEF CoverInv, Covered
  <2>4. /\ DOMAIN findings = 1..Len(matched)
        /\ \A n \in 1..Len(matched) : /\ findings[n].dep = matched[n].dep
                                      /\ findings[n].ids = matched[n].ids
                                      /\ findings[n].severity = matched[n].severity
    BY <1>1, <1>5 DEF Finding
  <2>5. m \in covering BY <1>6, <2>2, <2>3, <2>4 DEF Covers
  <2>6. ASSUME NEW n \in covering PROVE n = m
    <3>1. /\ n \in 1..Len(matched) /\ matched[n].dep = matched[m].dep
          /\ id \in matched[n].ids \cap matched[m].ids
      BY <2>4, <2>5
    <3>2. QED BY <1>5, <3>1 DEF GroupInv, GroupsShareNoId
  <2>7. covering = {m} BY <2>5, <2>6
  <2>8. Cardinality({m}) = 1 BY FS_Singleton
  <2> HIDE DEF covering, least
  <2>9. SeverityRank[least] <= SeverityRank[findings[m].severity] BY <2>2, <2>3, <2>4 DEF Covers
  <2>10. SeverityRank[findings[m].severity] >= SeverityRank[least] BY <2>9
  <2>11. QED BY <2>7, <2>8, <2>10
<1>7. CASE \E k \in 1..Len(advs) : advs[k].dep = d /\ advs[k].id = id
  <2>1. PICK k \in 1..Len(advs) : advs[k].dep = d /\ advs[k].id = id /\ (Unresolved(d, id) => advs[k].unavailable)
    BY <1>5, <1>7 DEF Unresolved
  <2>2. QED BY <1>6, <2>1
<1>8. CASE ~\E k \in 1..Len(advs) : advs[k].dep = d /\ advs[k].id = id
  <2>1. Resolved(advs, pairs[n0]) BY <1>1 DEF RatingInv
  <2>2. Skipped(body[id]) BY <1>3, <1>8, <2>1 DEF Resolved
  <2>3. ~Unresolved(d, id) BY <1>5, <1>8 DEF Unresolved
  <2>4. QED BY <2>2, <2>3
<1>9. QED BY <1>7, <1>8

ReportingInv ==
  /\ ListInv /\ PoolInv /\ AskedInv /\ GroupInv
  /\ IsASequence(readDeps) /\ QueryInv /\ RatingInv /\ CoverInv /\ ReportInv

\* A dropped advisory reads exactly like a clean dependency, and none is dropped:
\* whatever OSV lists for whatever was read, on however many pages, and however
\* its bodies come or fail to come, an advisory is in one finding of its dependency,
\* rated no lower than its body says, and no lower than high for want of one;
\* unless its body says it is withdrawn or lacks its ID.
THEOREM AdvisoriesAreReported == Spec => []NoAdvisoryIsLost
<1>1. Init => ReportingInv
  <2>1. Init => IsASequence(readDeps) BY EmptyIsASequence DEF Init
  <2>2. Init => ReportInv BY DEF Init, ReportInv
  <2>3. QED BY <2>1, <2>2, ListInit, PoolInit, AskedInit, GroupInit, QueryInit, RatingInit, CoverInit
            DEF ReportingInv
<1>2. ReportingInv /\ [Next]_scaVars => ReportingInv'
  BY ListStep, PoolStep, AskedStep, GroupStep, ReadStep, QueryStep, RatingStep, CoverStep, ReportStep
     DEF ReportingInv
<1>3. ReportingInv => NoAdvisoryIsLost BY ReportedIsComplete DEF ReportingInv
<1>4. QED BY <1>1, <1>2, <1>3, PTL DEF Spec

------------------------------------------------------------------------------
(* Types.                                                                     *)

\* A request is one of MaxAttempts, and one that waits to try again has an
\* attempt left; the caller's never waits in the pool.
PostureInv ==
  /\ \A r \in Requesters :
       /\ request[r].tries \in 0..MaxAttempts
       /\ request[r].at = "backoff" => request[r].tries < MaxAttempts
  /\ Main.at \notin {"ready", "took", "gone"}

\* The caller has a request under way only while it needs one: none between two
\* queries, none while the pool works, and then one for the pair at hand.
CallerInv ==
  /\ phase \in {"idle", "results", "prefetch"} => Main.at = "idle"
  /\ phase = "hydrate" /\ Main.at # "idle" => turn <= Len(pairs)

\* The types the other invariants leave out.
ScanInv ==
  /\ phase \in Phases /\ expired \in BOOLEAN /\ outcome \in {"none", "ok", "error"}
  /\ body \in Bodies /\ page \in Nat /\ emitted \in Nat
  /\ asked \subseteq Ids
  /\ onError \in OnError /\ at \in {"idle", "reading", "matching", "done"}
  /\ nextFile \in Nat /\ result \in {"none", "ok", "error"}

\* What is resolved and merged is well formed, and of a dependency asked about.
AdvisoryInv ==
  /\ \A n \in 1..Len(pairs) : pairs[n].dep \in ToSet(deps)
  /\ phase = "idle" => pairs = <<>> /\ advs = <<>>
  /\ \A n \in 1..Len(advs) : advs[n] \in Ratings
  /\ \A n \in 1..Len(matched) : matched[n] \in Ratings

\* The pool has no more fetchers than there are, and none that is not one.
LEMMA CrewIsOfFetchers ==
  ASSUME NEW size \in Nat
  PROVE  Crew(size) \in SUBSET Fetchers
<1> DEFINE all == Cardinality(Fetchers)
           n == Min2({size, all})
<1>1. all \in Nat /\ ExistsBijection(1..all, Fetchers) BY OsvAssumption, FS_CardinalityType
<1> HIDE DEF all
<1>2. n \in Nat /\ n <= all
  <2>1. {size, all} \subseteq Nat /\ {size, all} # {} BY <1>1
  <2>2. \E m \in {size, all} : \A k \in {size, all} : m <= k BY <1>1
  <2>3. n \in {size, all} /\ \A k \in {size, all} : n <= k BY <2>2 DEF Min2
  <2>4. QED BY <1>1, <2>3
<1> HIDE DEF n
<1>3. PICK f \in Bijection(1..all, Fetchers) : TRUE BY <1>1 DEF ExistsBijection
<1>4. f \in [1..all -> Fetchers] /\ \A a, b \in 1..all : f[a] = f[b] => a = b
  BY <1>3 DEF Bijection, Injection, IsInjective
<1> DEFINE team == {f[i] : i \in 1..n}
           g == [i \in 1..n |-> f[i]]
<1>5. 1..n \subseteq 1..all BY <1>1, <1>2
<1>6. team \subseteq Fetchers BY <1>4, <1>5
<1>7. g \in Bijection(1..n, team)
  <2>1. g \in [1..n -> team] OBVIOUS
  <2>2. \A a, b \in 1..n : g[a] = g[b] => a = b BY <1>4, <1>5
  <2>3. \A t \in team : \E i \in 1..n : g[i] = t OBVIOUS
  <2> HIDE DEF g, team
  <2>4. DOMAIN g = 1..n BY <2>1
  <2>5. QED BY <2>1, <2>2, <2>3, <2>4 DEF Bijection, Injection, Surjection, IsInjective
<1>8. Cardinality(team) = n BY <1>2, <1>7, FS_CountingElements DEF ExistsBijection
<1>9. \E t \in SUBSET Fetchers : Cardinality(t) = n BY <1>6, <1>8
<1>10. QED BY <1>9 DEF Crew, n, all

\* The pool starts without the goroutine that called Match.
LEMMA CallerIsNoFetcher ==
  ASSUME ListInv, PoolInv, NextBatch, ~(chunk' < Len(deps))
  PROVE  request'[Caller] = request[Caller]
<1>1. /\ queue' = FirstSeen(Advised)
      /\ request' = [r \in DOMAIN request |->
           IF r \in Crew(Len(queue')) THEN [Gone EXCEPT !.at = "ready"] ELSE request[r]]
  BY DEF NextBatch
<1>2. Len(queue') \in Nat
  <2>1. IsASequence(pairs) BY DEF ListInv
  <2>2. Advised = [n \in DOMAIN pairs |-> Advised[n]] BY DEF Advised
  <2>3. IsASequence(Advised) BY <2>1, <2>2, SameLength
  <2>4. QED BY <1>1, <2>3, SeenOnce DEF IsASequence
<1>3. Caller \notin Fetchers /\ Caller \in DOMAIN request BY OsvAssumption DEF PoolInv, Requesters
<1>4. Caller \notin Crew(Len(queue')) BY <1>2, <1>3, CrewIsOfFetchers
<1>5. QED BY <1>1, <1>3, <1>4

LEMMA PostureInit == Init => PostureInv
<1>1. SUFFICES ASSUME Init PROVE PostureInv OBVIOUS
<1>2. request = [r \in Requesters |-> IF r = Caller THEN Idle ELSE Gone]
  BY <1>1 DEF Init, OsvInit, Requesters
<1>3. MaxAttempts \in Nat BY OsvAssumption
<1>4. QED BY <1>2, <1>3 DEF PostureInv, Main, Idle, Gone, Requesters

LEMMA PostureStep ==
  ASSUME ListInv, PoolInv, PostureInv, [Next]_scaVars
  PROVE  PostureInv'
<1> DEFINE Right(q) == q.tries \in 0..MaxAttempts /\ (q.at = "backoff" => q.tries < MaxAttempts)
           ready == [Gone EXCEPT !.at = "ready"]
<1>1. MaxAttempts \in Nat \ {0} /\ Caller \in Requesters /\ Caller \notin Fetchers
      /\ \A w \in Fetchers : w \in Requesters
  BY OsvAssumption DEF Requesters
<1>2. /\ \A id : Right(Asking(id)) /\ Asking(id).at = "ask"
      /\ Right(Idle) /\ Idle.at = "idle" /\ Right(Gone) /\ Right(ready)
      /\ \A id : Right([at |-> "took", id |-> id, tries |-> 0])
  BY <1>1 DEF Asking, Idle, Gone
<1>3. DOMAIN request = Requesters BY DEF PoolInv
<1>4. ASSUME NEW r \in Requesters, NEW q, request' = [request EXCEPT ![r] = q], Right(q),
             r = Caller => q.at \notin {"ready", "took", "gone"}
      PROVE  PostureInv'
  <2> HIDE DEF Right
  <2>1. \A s \in Requesters : Right(request[s]) BY DEF PostureInv, Right
  <2>2. \A s \in Requesters : request'[s] = IF s = r THEN q ELSE request[s] BY <1>3, <1>4
  <2>3. \A s \in Requesters : Right(request'[s]) BY <1>4, <2>1, <2>2
  <2>4. request'[Caller].at \notin {"ready", "took", "gone"} BY <1>1, <1>4, <2>2 DEF PostureInv, Main
  <2>5. QED BY <2>3, <2>4 DEF PostureInv, Main, Right
<1>5. ASSUME UNCHANGED request PROVE PostureInv' BY <1>5 DEF PostureInv, Main
<1>6. CASE UNCHANGED scaVars BY <1>5, <1>6 DEF scaVars, osvVars
<1>7. CASE ScanStep
  <2>1. CASE UNCHANGED osvVars BY <1>5, <2>1 DEF osvVars
  <2>2. CASE StartMatch(inventory')
    <3>1. request' = [request EXCEPT ![Caller] = Asking(NoId)] BY <2>2 DEF StartMatch, Query
    <3> HIDE DEF Right
    <3>2. QED BY <1>1, <1>2, <1>4, <3>1
  <2>3. QED BY <1>7, <2>1, <2>2
       DEF ScanStep, StartScan, SkipManifest, ReadManifest, TakeInventory, ReportMatched, ReportFailure
<1>8. CASE ExpireDeadline BY <1>5, <1>8 DEF ExpireDeadline
<1>9. ASSUME NEW r \in Requesters, RequestStep(r) PROVE PostureInv'
  <2>1. /\ request[r] \in [at : Postures, id : Ids \cup {NoId}, tries : Nat]
        /\ request[r].tries \in 0..MaxAttempts
        /\ request[r].at = "backoff" => request[r].tries < MaxAttempts
    BY DEF PoolInv, PostureInv
  <2>2. ASSUME NEW a \in {"got", "failed", "backoff"}, request' = [request EXCEPT ![r].at = a],
               a = "backoff" => request[r].tries # MaxAttempts
        PROVE  PostureInv'
    <3> DEFINE q == [request[r] EXCEPT !.at = a]
    <3>1. request' = [request EXCEPT ![r] = q] BY <2>2
    <3>2. q.at = a /\ q.tries = request[r].tries BY <2>1
    <3>3. Right(q) BY <1>1, <2>1, <2>2, <3>2
    <3> HIDE DEF q, Right
    <3>4. QED BY <1>4, <3>1, <3>2, <3>3
  <2>3. CASE Answered(r) BY <2>2, <2>3 DEF Answered
  <2>4. CASE Refused(r) BY <2>2, <2>4 DEF Refused
  <2>5. CASE Retryable(r)
    <3>1. CASE request[r].tries = MaxAttempts BY <2>2, <2>5, <3>1 DEF Retryable
    <3>2. CASE request[r].tries # MaxAttempts BY <2>2, <2>5, <3>2 DEF Retryable
    <3>3. QED BY <3>1, <3>2
  <2>6. CASE DeadlineFails(r) BY <2>2, <2>6 DEF DeadlineFails
  <2>7. CASE TryAgain(r)
    <3> DEFINE q == [at |-> "ask", id |-> request[r].id, tries |-> request[r].tries + 1]
    <3>1. request' = [request EXCEPT ![r] = q] /\ request[r].at = "backoff" BY <2>7 DEF TryAgain
    <3>2. q.at = "ask" /\ Right(q) BY <1>1, <2>1, <3>1
    <3> HIDE DEF q, Right
    <3>3. QED BY <1>4, <3>1, <3>2
  <2>8. QED BY <1>9, <2>3, <2>4, <2>5, <2>6, <2>7 DEF RequestStep
<1>10. ASSUME NEW w \in Fetchers, FetcherStep(w) PROVE PostureInv'
  <2> DEFINE took == [at |-> "took", id |-> Head(queue), tries |-> 0]
  <2>1. w \in Requesters /\ w # Caller BY <1>1
  <2>2. \E q : request' = [request EXCEPT ![w] = q] /\ (q \in {took, Gone, ready} \/ \E id : q = Asking(id))
    <3>1. CASE HandOver(w) BY <3>1 DEF HandOver
    <3>2. CASE BeginFetch(w) BY <3>2 DEF BeginFetch
    <3>3. CASE EndFetch(w) BY <3>3 DEF EndFetch
    <3>4. CASE LeavePool(w) BY <3>4 DEF LeavePool
    <3>5. QED BY <1>10, <3>1, <3>2, <3>3, <3>4 DEF FetcherStep
  <2>3. PICK q : request' = [request EXCEPT ![w] = q] /\ (q \in {took, Gone, ready} \/ \E id : q = Asking(id))
    BY <2>2
  <2> HIDE DEF Right
  <2>4. Right(q) BY <1>2, <2>3
  <2>5. QED BY <1>4, <2>1, <2>3, <2>4
<1>11. CASE MatchStep
  <2>1. CASE UNCHANGED request BY <1>5, <2>1
  <2>2. CASE request' = [request EXCEPT ![Caller] = Idle] \/ \E id : request' = [request EXCEPT ![Caller] = Asking(id)]
    <3> HIDE DEF Right
    <3>1. QED BY <1>1, <1>2, <1>4, <2>2
  <2>3. CASE NextBatch /\ ~(chunk' < Len(deps))
    <3>1. /\ queue' = FirstSeen(Advised)
          /\ request' = [r \in DOMAIN request |-> IF r \in Crew(Len(queue')) THEN ready ELSE request[r]]
      BY <2>3 DEF NextBatch
    <3>4. \A r \in Requesters : request'[r] = ready \/ request'[r] = request[r] BY <1>3, <3>1
    <3>5. request'[Caller] = request[Caller] BY <2>3, CallerIsNoFetcher
    <3>6. \A r \in Requesters : Right(request[r]) BY DEF PostureInv
    <3> HIDE DEF Right
    <3>7. \A r \in Requesters : Right(request'[r]) BY <1>2, <3>4, <3>6
    <3>8. QED BY <3>5, <3>7 DEF PostureInv, Main, Right
  <2>4. CASE QueryAnswered BY <2>2, <2>4 DEF QueryAnswered
  <2>5. CASE QueryFails BY <2>2, <2>5 DEF QueryFails, Fail
  <2>6. CASE TakePage BY <2>1, <2>2, <2>6 DEF TakePage, Query
  <2>7. CASE NextBatch BY <2>2, <2>3, <2>7 DEF NextBatch, Query
  <2>8. CASE PrefetchEnds BY <2>1, <2>2, <2>8 DEF PrefetchEnds, Fail
  <2>9. CASE Resolve \/ FetchAgain \/ ReportAnyway BY <2>2, <2>9 DEF Resolve, FetchAgain, ReportAnyway
  <2>10. CASE StopHanding \/ StartMerge \/ LinkNext \/ EmitGroup \/ NextDependency \/ ReturnMatched
    BY <2>1, <2>10 DEF StopHanding, StartMerge, LinkNext, EmitGroup, NextDependency, ReturnMatched
  <2>11. QED BY <1>11, <2>4, <2>5, <2>6, <2>7, <2>8, <2>9, <2>10 DEF MatchStep
<1>12. QED BY <1>6, <1>7, <1>8, <1>9, <1>10, <1>11 DEF Next, OsvStep, Requesters

LEMMA CallerInit == Init => CallerInv
<1>1. SUFFICES ASSUME Init PROVE CallerInv OBVIOUS
<1>2. phase = "idle" /\ request[Caller] = Idle BY <1>1 DEF Init, OsvInit
<1>3. QED BY <1>2 DEF CallerInv, Main, Idle

LEMMA CallerStep ==
  ASSUME ListInv, PoolInv, CallerInv, [Next]_scaVars
  PROVE  CallerInv'
<1>1. Caller \in Requesters /\ Caller \notin Fetchers /\ DOMAIN request = Requesters
  BY OsvAssumption DEF Requesters, PoolInv
<1>2. ASSUME UNCHANGED <<phase, turn, pairs>>, Main.at = "idle" => Main'.at = "idle" PROVE CallerInv'
  BY <1>2 DEF CallerInv
<1>3. ASSUME request' = [request EXCEPT ![Caller] = Idle] PROVE CallerInv'
  <2>1. Main'.at = "idle" BY <1>1, <1>3 DEF Main, Idle
  <2>2. QED BY <2>1 DEF CallerInv
<1>4. ASSUME phase' \in {"batch", "page", "merge", "done"} PROVE CallerInv' BY <1>4 DEF CallerInv
<1>5. CASE UNCHANGED scaVars BY <1>2, <1>5 DEF scaVars, osvVars, matchVars, Main
<1>6. CASE ScanStep
  <2>1. CASE UNCHANGED osvVars BY <1>2, <2>1 DEF osvVars, matchVars, Main
  <2>2. CASE StartMatch(inventory') BY <1>4, <2>2 DEF StartMatch, Query
  <2>3. QED BY <1>6, <2>1, <2>2
       DEF ScanStep, StartScan, SkipManifest, ReadManifest, TakeInventory, ReportMatched, ReportFailure
<1>7. CASE ExpireDeadline BY <1>2, <1>7 DEF ExpireDeadline, matchVars, Main
<1>8. ASSUME NEW r \in Requesters, RequestStep(r) PROVE CallerInv'
  <2>1. UNCHANGED <<phase, turn, pairs>> /\ request[r].at \in {"ask", "backoff"}
        /\ \A s \in Requesters \ {r} : request'[s] = request[s]
    BY <1>1, <1>8 DEF RequestStep, Answered, Refused, Retryable, DeadlineFails, TryAgain, matchVars
  <2>2. Main.at = "idle" => Main'.at = "idle" BY <1>1, <2>1 DEF Main
  <2>3. QED BY <1>2, <2>1, <2>2
<1>9. ASSUME NEW w \in Fetchers, FetcherStep(w) PROVE CallerInv'
  <2>1. UNCHANGED <<phase, turn, pairs>> /\ request'[Caller] = request[Caller]
    BY <1>1, <1>9 DEF FetcherStep, HandOver, BeginFetch, EndFetch, LeavePool, matchVars
  <2>2. QED BY <1>2, <2>1 DEF Main
<1>10. CASE MatchStep
  <2>1. CASE QueryAnswered \/ Resolve \/ ReportAnyway
    BY <1>3, <2>1 DEF QueryAnswered, Resolve, ReportAnyway
  <2>2. CASE QueryFails BY <1>4, <2>2 DEF QueryFails, Fail
  <2>3. CASE TakePage
    <3>1. CASE phase' = "page" BY <1>4, <3>1
    <3>2. CASE UNCHANGED <<phase, request>>
      <4>1. phase = "results" BY <2>3 DEF TakePage
      <4>2. QED BY <3>2, <4>1 DEF CallerInv, Main
    <3>3. QED BY <2>3, <3>1, <3>2 DEF TakePage, Query
  <2>4. CASE NextBatch
    <3>1. CASE phase' = "batch" BY <1>4, <3>1
    <3>2. CASE ~(chunk' < Len(deps))
      <4>1. phase = "results" /\ phase' = "prefetch" BY <2>4, <3>2 DEF NextBatch
      <4>2. request'[Caller] = request[Caller] BY <2>4, <3>2, CallerIsNoFetcher
      <4>3. QED BY <4>1, <4>2 DEF CallerInv, Main
    <3>3. QED BY <2>4, <3>1, <3>2 DEF NextBatch, Query
  <2>5. CASE PrefetchEnds
    <3>1. CASE Fail BY <1>4, <3>1 DEF Fail
    <3>2. CASE phase' = "hydrate" /\ UNCHANGED request
      <4>1. phase = "prefetch" BY <2>5 DEF PrefetchEnds, Prefetched
      <4>2. QED BY <3>2, <4>1 DEF CallerInv, Main
    <3>3. QED BY <2>5, <3>1, <3>2 DEF PrefetchEnds
  <2>6. CASE FetchAgain BY <2>6 DEF FetchAgain, CallerInv, matchVars
  <2>7. CASE StopHanding BY <1>2, <2>7 DEF StopHanding, Main
  <2>8. CASE StartMerge \/ LinkNext \/ EmitGroup \/ NextDependency \/ ReturnMatched
    BY <1>4, <2>8 DEF StartMerge, LinkNext, EmitGroup, NextDependency, ReturnMatched, Merging
  <2>9. QED BY <1>10, <2>1, <2>2, <2>3, <2>4, <2>5, <2>6, <2>7, <2>8 DEF MatchStep
<1>11. QED BY <1>5, <1>6, <1>7, <1>8, <1>9, <1>10 DEF Next, OsvStep, Requesters

LEMMA ScanInit == Init => ScanInv
<1>1. SUFFICES ASSUME Init PROVE ScanInv OBVIOUS
<1>2. /\ phase \in Phases /\ expired \in BOOLEAN /\ outcome \in {"none", "ok", "error"}
      /\ body \in Bodies /\ page \in Nat /\ emitted \in Nat /\ asked \subseteq Ids
  BY <1>1 DEF Init, OsvInit, Phases
<1>3. /\ onError \in OnError /\ at \in {"idle", "reading", "matching", "done"}
      /\ nextFile \in Nat /\ result \in {"none", "ok", "error"}
  BY <1>1 DEF Init
<1>4. QED BY <1>2, <1>3 DEF ScanInv

LEMMA ScanKept ==
  ASSUME PoolInv, ScanInv, [Next]_scaVars
  PROVE  ScanInv'
<1> DEFINE Osv == <<phase, expired, outcome, body, page, emitted, asked>>
           Scan == <<onError, at, nextFile, result>>
           OsvTyped == /\ phase \in Phases /\ expired \in BOOLEAN /\ outcome \in {"none", "ok", "error"}
                       /\ body \in Bodies /\ page \in Nat /\ emitted \in Nat /\ asked \subseteq Ids
           ScanTyped == /\ onError \in OnError /\ at \in {"idle", "reading", "matching", "done"}
                        /\ nextFile \in Nat /\ result \in {"none", "ok", "error"}
<1>1. OsvTyped /\ ScanTyped BY DEF ScanInv
<1>2. ASSUME UNCHANGED Osv PROVE OsvTyped' BY <1>1, <1>2
<1>3. ASSUME UNCHANGED Scan PROVE ScanTyped' BY <1>1, <1>3
<1>4. CASE UNCHANGED scaVars
  <2>1. OsvTyped' /\ ScanTyped' BY <1>2, <1>3, <1>4 DEF scaVars, scanVars, osvVars, matchVars
  <2>2. QED BY <2>1 DEF ScanInv
<1>5. CASE ScanStep
  <2>1. OsvTyped'
    <3>1. CASE UNCHANGED osvVars BY <1>2, <3>1 DEF osvVars, matchVars
    <3>2. CASE StartMatch(inventory') BY <1>1, <3>2 DEF StartMatch, Query, Phases
    <3>3. QED BY <1>5, <3>1, <3>2
         DEF ScanStep, StartScan, SkipManifest, ReadManifest, TakeInventory, ReportMatched, ReportFailure
  <2>2. ScanTyped'
    BY <1>1, <1>5 DEF ScanStep, StartScan, SkipManifest, ReadManifest, TakeInventory, ReportMatched, ReportFailure
  <2>3. QED BY <2>1, <2>2 DEF ScanInv
<1>6. CASE (OsvStep \/ ExpireDeadline) /\ UNCHANGED scanVars
  <2>1. ScanTyped' BY <1>3, <1>6 DEF scanVars
  <2>2. CASE ExpireDeadline
    <3>1. OsvTyped' BY <1>1, <2>2 DEF ExpireDeadline, matchVars
    <3>2. QED BY <2>1, <3>1 DEF ScanInv
  <2>3. CASE \E r \in Requesters : RequestStep(r)
    <3>1. PICK r \in Requesters : RequestStep(r) BY <2>3
    <3>2. UNCHANGED <<phase, expired, outcome, body, page, emitted>>
      BY <3>1 DEF RequestStep, Answered, Refused, Retryable, DeadlineFails, TryAgain, matchVars
    <3>3. request[r].id \in Ids \cup {NoId} BY DEF PoolInv
    <3>4. asked' \subseteq asked \cup ({request[r].id} \ {NoId})
      BY <3>1 DEF RequestStep, Answered, Refused, Retryable, DeadlineFails, TryAgain
    <3>5. OsvTyped' BY <1>1, <3>2, <3>3, <3>4
    <3>6. QED BY <2>1, <3>5 DEF ScanInv
  <2>4. CASE \E w \in Fetchers : FetcherStep(w)
    <3>1. OsvTyped' BY <1>2, <2>4 DEF FetcherStep, HandOver, BeginFetch, EndFetch, LeavePool, matchVars
    <3>2. QED BY <2>1, <3>1 DEF ScanInv
  <2>5. CASE MatchStep
    <3>1. OsvTyped'
      <4>1. CASE QueryAnswered BY <1>1, <4>1 DEF QueryAnswered, matchVars, Phases
      <4>2. CASE QueryFails BY <1>1, <4>2 DEF QueryFails, Fail, Phases
      <4>3. CASE TakePage BY <1>1, <4>3 DEF TakePage, Query, Phases
      <4>4. CASE NextBatch BY <1>1, <4>4 DEF NextBatch, Query, Phases
      <4>5. CASE PrefetchEnds BY <1>1, <4>5 DEF PrefetchEnds, Fail, matchVars, Phases
      <4>6. CASE EmitGroup BY <1>1, <4>6 DEF EmitGroup
      <4>7. CASE StartMerge \/ ReturnMatched BY <1>1, <4>7 DEF StartMerge, ReturnMatched, Phases
      <4>8. CASE StopHanding \/ Resolve \/ FetchAgain \/ ReportAnyway \/ LinkNext \/ NextDependency
        BY <1>1, <4>8 DEF StopHanding, Resolve, FetchAgain, ReportAnyway, LinkNext, NextDependency, matchVars
      <4>9. QED BY <2>5, <4>1, <4>2, <4>3, <4>4, <4>5, <4>6, <4>7, <4>8 DEF MatchStep
    <3>2. QED BY <2>1, <3>1 DEF ScanInv
  <2>6. QED BY <1>6, <2>2, <2>3, <2>4, <2>5 DEF OsvStep, Requesters
<1>7. QED BY <1>4, <1>5, <1>6 DEF Next

------------------------------------------------------------------------------
(* Advisories are well formed.                                                *)

\* An advisory of a dependency asked about is well formed, with its body or
\* without.
LEMMA ResolvedIsFormed ==
  ASSUME body \in Bodies, NEW id \in Ids, NEW dep \in ToSet(deps)
  PROVE  /\ Skipped(body[id]) \/ Hydrated(body[id], dep) \in Ratings
         /\ WithoutDetails(id, dep) \in Ratings
<1> DEFINE rated == ParseSeverity(body[id])
           range == ExtractRange(body[id].affected, OwnPackage(body[id], dep), dep.version)
<1>1. body[id].aliases \subseteq Ids /\ AreAffected(body[id].affected) /\ body[id].id \in {id, NoId}
  BY OsvAssumption DEF IsABody
<1>2. OwnPackage(body[id], dep) \subseteq DOMAIN body[id].affected BY DEF OwnPackage
<1>3. range \in Displayed BY <1>1, <1>2, BracketingIsDisplayed
<1>4. rated.severity \in Severities \ {"none"} /\ rated.confidence \in Confidences \ {"none"}
  BY BodiesAreRated
<1>5. Hydrated(body[id], dep) =
        [dep |-> dep, id |-> body[id].id, ids |-> {body[id].id} \cup body[id].aliases, unavailable |-> FALSE,
         severity |-> rated.severity, confidence |-> rated.confidence, range |-> range]
  BY DEF Hydrated
<1>6. "high" \in Severities \ {"none"} /\ "low" \in Confidences \ {"none"}
  BY DEF Severities, Confidences, SeverityRank, ConfidenceRank
<1> HIDE DEF rated, range
<1>7. Skipped(body[id]) \/ Hydrated(body[id], dep) \in Ratings
  BY <1>1, <1>3, <1>4, <1>5 DEF Ratings, Displayed, Skipped
<1>8. WithoutDetails(id, dep) \in Ratings BY <1>6, NothingIsDisplayed DEF WithoutDetails, Ratings, Displayed
<1>9. QED BY <1>7, <1>8

\* A smallest of some IDs is one of them.
LEMMA SmallestIsOne ==
  ASSUME NEW S, S \subseteq Nat, S # {}
  PROVE  Min2(S) \in S
<1>1. \E n \in S : \A k \in S : n <= k BY LeastOf
<1>2. QED BY <1>1 DEF Min2

\* What a group of well-formed advisories is merged into is one.
LEMMA MergedIsFormed ==
  ASSUME NEW all, NEW S, S \subseteq Nat, S # {}, \A k \in S : all[k] \in Ratings
  PROVE  MergeGroup(all, S) \in Ratings
<1> DEFINE M == {all[k] : k \in S}
           listed == {m.id : m \in M}
           rep == RepresentativeId(listed)
           worst == WorstMember(M)
           ranged == {k \in S : all[k].range # NoRange}
           own == {k \in ranged : all[k].id = rep}
           range == IF ranged = {} THEN NoRange
                    ELSE all[Min2(IF own # {} THEN own ELSE ranged)].range
<1>1. M # {} /\ \A m \in M : m \in Ratings OBVIOUS
<1>2. \A m \in Ratings : /\ m.dep \in ToSet(deps) /\ m.id \in Ids /\ m.ids \subseteq Ids
                         /\ m.severity \in Severities \ {"none"} /\ m.confidence \in Confidences \ {"none"}
                         /\ m.range \in Displayed
  BY DEF Ratings, Displayed
<1>3. rep \in Ids
  <2>1. listed \subseteq Ids /\ listed # {} BY <1>1, <1>2
  <2>2. listed \subseteq Nat /\ listed \cap Ghsa \subseteq Nat BY <2>1, IdsAssumption
  <2> HIDE DEF listed
  <2>3. CASE listed \cap Ghsa # {} BY <2>1, <2>2, <2>3, SmallestIsOne DEF RepresentativeId
  <2>4. CASE listed \cap Ghsa = {} BY <2>1, <2>2, <2>4, SmallestIsOne DEF RepresentativeId
  <2>5. QED BY <2>3, <2>4
<1>4. worst \in M
  <2> HIDE DEF M
  <2>1. QED BY <1>1, <1>2, WorstIsWorst
<1>5. range \in Displayed
  <2>1. CASE ranged = {} BY <2>1, NothingIsDisplayed
  <2>2. CASE ranged # {}
    <3> DEFINE from == IF own # {} THEN own ELSE ranged
    <3>1. from \subseteq S /\ from # {} BY <2>2
    <3>2. range = all[Min2(from)].range BY <2>2
    <3> HIDE DEF from, range
    <3>3. Min2(from) \in S BY <3>1, SmallestIsOne
    <3>4. QED BY <1>2, <3>2, <3>3
  <2>3. QED BY <2>1, <2>2
<1>6. all[Min2(S)] \in Ratings BY SmallestIsOne
<1>7. UNION {m.ids : m \in M} \subseteq Ids BY <1>1, <1>2
<1>8. (\A m \in M : m.unavailable) \in BOOLEAN OBVIOUS
<1>9. MergeGroup(all, S) =
        [dep |-> all[Min2(S)].dep, id |-> rep, ids |-> UNION {m.ids : m \in M},
         unavailable |-> \A m \in M : m.unavailable,
         severity |-> worst.severity, confidence |-> worst.confidence, range |-> range]
  BY DEF MergeGroup
<1>10. /\ worst.severity \in Severities \ {"none"} /\ worst.confidence \in Confidences \ {"none"}
  BY <1>1, <1>2, <1>4
<1>11. all[Min2(S)].dep \in ToSet(deps) BY <1>2, <1>6
<1> DEFINE dep == all[Min2(S)].dep
           ids == UNION {m.ids : m \in M}
           unavailable == \A m \in M : m.unavailable
<1> HIDE DEF M, rep, worst, range, dep, ids, unavailable
<1>12. MergeGroup(all, S) =
         [dep |-> dep, id |-> rep, ids |-> ids, unavailable |-> unavailable,
          severity |-> worst.severity, confidence |-> worst.confidence, range |-> range]
  BY <1>9 DEF dep, ids, unavailable
<1>13. /\ dep \in ToSet(deps) /\ ids \in SUBSET Ids /\ unavailable \in BOOLEAN
  BY <1>7, <1>8, <1>11 DEF dep, ids, unavailable
<1>14. QED BY <1>3, <1>5, <1>10, <1>12, <1>13 DEF Ratings, Displayed

------------------------------------------------------------------------------
(* Of the dependencies asked about.                                           *)

\* A page is listed for a dependency of the batch.
LEMMA PageIsOfADependency ==
  ASSUME ListInv, QueryInv, AdvisoryInv, TakePage
  PROVE  AdvisoryInv'
<1> DEFINE d == Chunk[turn]
           listed == Listing(d)[page]
           new == [n \in DOMAIN listed |-> [dep |-> d, id |-> listed[n]]]
<1>1. phase = "results" /\ phase' # "idle" /\ UNCHANGED <<deps, advs, matched>> /\ pairs' = pairs \o new
  BY DEF TakePage, Query
<1>2. MoreResults /\ turn \in Nat \ {0} BY DEF TakePage, ListInv
<1>3. d \in ToSet(deps)
  <2>1. /\ Len(Chunk) \in Nat
        /\ \A k \in 1..Len(Chunk) : chunk + k \in 1..Len(deps) /\ Chunk[k] = deps[chunk + k]
    BY <1>1, ChunkIsNext DEF QueryInv, Querying
  <2>2. turn \in 1..Len(Chunk) BY <1>2, <2>1 DEF MoreResults
  <2>3. d = deps[chunk + turn] /\ chunk + turn \in DOMAIN deps BY <2>1, <2>2 DEF QueryInv, IsASequence
  <2>4. QED BY <2>3 DEF ToSet
<1>4. IsASequence(new) /\ \A n \in 1..Len(new) : new[n].dep = d
  <2>1. /\ Len(Listing(d)) \in Nat \ {0}
        /\ \A n \in 1..Len(Listing(d)) : Listing(d)[n] \in Seq(Ids)
    BY ListingIsPaged
  <2>2. page \in 1..Len(Listing(d)) BY <1>1, <2>1 DEF ListInv
  <2>3. IsASequence(listed) BY <2>1, <2>2, LenProperties DEF IsASequence
  <2>4. new = [n \in DOMAIN listed |-> new[n]] /\ \A n \in DOMAIN listed : new[n].dep = d OBVIOUS
  <2> HIDE DEF new, listed, d
  <2>5. IsASequence(new) /\ Len(new) = Len(listed) BY <2>3, <2>4, SameLength
  <2>6. DOMAIN listed = 1..Len(listed) BY <2>3 DEF IsASequence
  <2>7. QED BY <2>4, <2>5, <2>6
<1> HIDE DEF new, d
<1>5. \A n \in 1..Len(pairs') : pairs'[n].dep \in ToSet(deps)
  <2>1. /\ Len(pairs') = Len(pairs) + Len(new)
        /\ \A n \in 1..Len(pairs) + Len(new) :
             pairs'[n] = IF n <= Len(pairs) THEN pairs[n] ELSE new[n - Len(pairs)]
    BY <1>1, <1>4, Concatenating DEF ListInv
  <2>2. Len(pairs) \in Nat /\ Len(new) \in Nat BY <1>4 DEF ListInv, IsASequence
  <2>3. ASSUME NEW n \in 1..Len(pairs') PROVE pairs'[n].dep \in ToSet(deps)
    <3>1. CASE n <= Len(pairs)
      <4>1. n \in 1..Len(pairs) /\ pairs'[n] = pairs[n] BY <2>1, <2>2, <3>1
      <4>2. QED BY <4>1 DEF AdvisoryInv
    <3>2. CASE ~(n <= Len(pairs))
      <4>1. n - Len(pairs) \in 1..Len(new) /\ pairs'[n] = new[n - Len(pairs)] BY <2>1, <2>2, <3>2
      <4>2. QED BY <1>3, <1>4, <4>1
    <3>3. QED BY <3>1, <3>2
  <2>4. QED BY <2>3
<1>6. Ratings' = Ratings BY <1>1 DEF Ratings
<1>7. QED BY <1>1, <1>5, <1>6 DEF AdvisoryInv

\* A group is merged into an advisory, once.
LEMMA EmittedIsFormed ==
  ASSUME GroupInv, AdvisoryInv, EmitGroup
  PROVE  AdvisoryInv'
<1> DEFINE S == {j \in DOMAIN label : label[j] = label[emitted + 1]}
           merged == MergeGroup(Mine, S)
<1>1. phase = "merge" /\ phase' = phase /\ UNCHANGED <<deps, pairs, advs>>
      /\ (matched' = matched \/ matched' = Append(matched, merged))
  BY DEF EmitGroup, Merging
<1>2. /\ IsASequence(advs) /\ IsASequence(matched) /\ IsASequence(label)
      /\ emitted \in Nat /\ Len(label) = Len(Mine) /\ emitted < Len(Mine)
  BY <1>1 DEF GroupInv, EmitGroup
<1>3. DOMAIN label = 1..Len(Mine) /\ Len(Mine) \in Nat BY <1>2 DEF IsASequence
<1>4. S \subseteq 1..Len(Mine) /\ S # {} BY <1>2, <1>3
<1>5. \A i \in 1..Len(Mine) : Mine[i] \in Ratings BY <1>2, MineIsAll DEF AdvisoryInv
<1> HIDE DEF S
<1>6. merged \in Ratings
  <2>1. S \subseteq Nat /\ \A k \in S : Mine[k] \in Ratings BY <1>3, <1>4, <1>5
  <2>2. QED BY <1>4, <2>1, MergedIsFormed
<1> HIDE DEF merged
<1>7. \A n \in 1..Len(matched') : matched'[n] \in Ratings
  BY <1>1, <1>2, <1>6, AppendedAre DEF AdvisoryInv
<1>8. Ratings' = Ratings BY <1>1 DEF Ratings
<1>9. QED BY <1>1, <1>7, <1>8 DEF AdvisoryInv

LEMMA AdvisoryInit == Init => AdvisoryInv
<1>1. SUFFICES ASSUME Init PROVE AdvisoryInv OBVIOUS
<1>2. pairs = <<>> /\ advs = <<>> /\ matched = <<>> BY <1>1 DEF Init, OsvInit
<1>3. QED BY <1>2, EmptyIsASequence DEF AdvisoryInv

LEMMA AdvisoryStep ==
  ASSUME ListInv, QueryInv, GroupInv, CallerInv, ScanInv, AdvisoryInv, [Next]_scaVars
  PROVE  AdvisoryInv'
<1>1. ASSUME UNCHANGED <<deps, pairs, advs, matched>>, phase' = "idle" => phase = "idle" PROVE AdvisoryInv'
  BY <1>1 DEF AdvisoryInv, Ratings
<1>2. ASSUME UNCHANGED <<deps, pairs, matched>>, phase' # "idle",
             advs' = advs \/ \E a \in Ratings : advs' = Append(advs, a)
      PROVE  AdvisoryInv'
  <2>1. IsASequence(advs) BY DEF GroupInv
  <2>2. \A n \in 1..Len(advs') : advs'[n] \in Ratings
    <3>1. CASE advs' = advs BY <3>1 DEF AdvisoryInv
    <3>2. CASE \E a \in Ratings : advs' = Append(advs, a)
      <4>1. PICK a \in Ratings : advs' = Append(advs, a) BY <3>2
      <4>2. QED BY <2>1, <4>1, AppendedAre DEF AdvisoryInv
    <3>3. QED BY <1>2, <3>1, <3>2
  <2>3. Ratings' = Ratings BY <1>2 DEF Ratings
  <2>4. QED BY <1>2, <2>2, <2>3 DEF AdvisoryInv
<1>3. CASE UNCHANGED scaVars BY <1>1, <1>3 DEF scaVars, osvVars, matchVars
<1>4. CASE ScanStep
  <2>1. CASE UNCHANGED osvVars BY <1>1, <2>1 DEF osvVars, matchVars
  <2>2. CASE StartMatch(inventory')
    <3>1. phase = "idle" /\ phase' = "batch" /\ UNCHANGED <<pairs, advs, matched>>
      BY <2>2 DEF StartMatch, Query
    <3>2. pairs = <<>> /\ advs = <<>> /\ matched = <<>> BY <3>1 DEF AdvisoryInv, GroupInv, Early
    <3>3. QED BY <3>1, <3>2, EmptyIsASequence DEF AdvisoryInv
  <2>3. QED BY <1>4, <2>1, <2>2
       DEF ScanStep, StartScan, SkipManifest, ReadManifest, TakeInventory, ReportMatched, ReportFailure
<1>5. CASE ExpireDeadline BY <1>1, <1>5 DEF ExpireDeadline, matchVars
<1>6. CASE \E r \in Fetchers \cup {Caller} : RequestStep(r)
  BY <1>1, <1>6 DEF RequestStep, Answered, Refused, Retryable, DeadlineFails, TryAgain, matchVars
<1>7. CASE \E w \in Fetchers : FetcherStep(w)
  BY <1>1, <1>7 DEF FetcherStep, HandOver, BeginFetch, EndFetch, LeavePool, matchVars
<1>8. CASE MatchStep
  <2>1. CASE TakePage BY <2>1, PageIsOfADependency
  <2>2. CASE QueryAnswered \/ QueryFails \/ NextBatch \/ StopHanding \/ PrefetchEnds \/ FetchAgain
             \/ StartMerge \/ LinkNext \/ NextDependency \/ ReturnMatched
    BY <1>1, <2>2 DEF QueryAnswered, QueryFails, NextBatch, StopHanding, PrefetchEnds, Prefetched, FetchAgain,
         StartMerge, LinkNext, NextDependency, ReturnMatched, Fail, Query, matchVars
  <2>3. CASE Resolve \/ ReportAnyway
    <3> DEFINE p == pairs[turn]
    <3>1. phase = "hydrate" /\ phase' = "hydrate" /\ turn <= Len(pairs) /\ UNCHANGED <<deps, pairs, matched>>
      BY <2>3 DEF Resolve, ReportAnyway, CallerInv
    <3>2. p.id \in Ids /\ p.dep \in ToSet(deps)
      <4>1. turn \in 1..Len(pairs) BY <3>1 DEF ListInv, IsASequence
      <4>2. QED BY <4>1 DEF ListInv, PairIds, AdvisoryInv
    <3>3. \/ advs' = advs
          \/ ~Skipped(body[p.id]) /\ advs' = Append(advs, Hydrated(body[p.id], p.dep))
          \/ advs' = Append(advs, WithoutDetails(p.id, p.dep))
      BY <2>3 DEF Resolve, ReportAnyway
    <3>4. /\ Skipped(body[p.id]) \/ Hydrated(body[p.id], p.dep) \in Ratings
          /\ WithoutDetails(p.id, p.dep) \in Ratings
      BY <3>2, ResolvedIsFormed DEF ScanInv
    <3>5. QED BY <1>2, <3>1, <3>3, <3>4
  <2>4. CASE EmitGroup BY <2>4, EmittedIsFormed
  <2>5. QED BY <1>8, <2>1, <2>2, <2>3, <2>4 DEF MatchStep
<1>9. QED BY <1>3, <1>4, <1>5, <1>6, <1>7, <1>8 DEF Next, OsvStep

TypeInv ==
  /\ ListInv /\ PoolInv /\ AskedInv /\ GroupInv /\ IsASequence(readDeps) /\ QueryInv
  /\ PostureInv /\ CallerInv /\ ScanInv /\ AdvisoryInv

\* The state of a scan is well typed: of MaxAttempts attempts none is exceeded,
\* the caller's request never waits in the pool, and every advisory resolved or
\* merged is of a dependency asked about, under IDs that OSV or a body names,
\* with a severity, a confidence and a range.
THEOREM ScaTypeCorrect == Spec => []ScaTypeOK
<1>1. Init => TypeInv
  <2>1. Init => IsASequence(readDeps) BY EmptyIsASequence DEF Init
  <2>2. QED BY <2>1, ListInit, PoolInit, AskedInit, GroupInit, QueryInit, PostureInit, CallerInit, ScanInit,
            AdvisoryInit
            DEF TypeInv
<1>2. TypeInv /\ [Next]_scaVars => TypeInv'
  BY ListStep, PoolStep, AskedStep, GroupStep, ReadStep, QueryStep, PostureStep, CallerStep, ScanKept,
     AdvisoryStep
     DEF TypeInv
<1>3. TypeInv => ScaTypeOK
  <2>1. SUFFICES ASSUME TypeInv PROVE ScaTypeOK OBVIOUS
  <2>2. request \in [Fetchers \cup {Caller} -> [at : Postures, id : Ids \cup {NoId}, tries : 0..MaxAttempts]]
    <3>1. request \in [Requesters -> [at : Postures, id : Ids \cup {NoId}, tries : Nat]]
          /\ \A r \in Requesters : request[r].tries \in 0..MaxAttempts
      BY <2>1 DEF TypeInv, PoolInv, PostureInv
    <3>2. \A r \in Requesters : request[r] \in [at : Postures, id : Ids \cup {NoId}, tries : 0..MaxAttempts]
      BY <3>1
    <3>3. QED BY <3>1, <3>2 DEF Requesters
  <2>3. \A a \in ToSet(advs) \cup ToSet(matched) : a \in Ratings
    <3>1. DOMAIN advs = 1..Len(advs) /\ DOMAIN matched = 1..Len(matched)
      BY <2>1 DEF TypeInv, GroupInv, IsASequence
    <3>2. QED BY <2>1, <3>1 DEF TypeInv, AdvisoryInv, ToSet
  <2>4. QED BY <2>1, <2>2, <2>3 DEF TypeInv, ListInv, QueryInv, PoolInv, PostureInv, ScanInv, ScaTypeOK
<1>4. QED BY <1>1, <1>2, <1>3, PTL DEF Spec

==============================================================================
