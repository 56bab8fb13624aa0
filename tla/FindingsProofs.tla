---------------------------- MODULE FindingsProofs ----------------------------
(***************************************************************************)
(* Deduplicate has one row for each fact, and notes every duplicate where  *)
(* it belongs; the row shows the report of the fact that does not depend   *)
(* on which scanner was faster; and from there to the report no fact is    *)
(* lost and no chain is broken: for any batches of any scanners in any     *)
(* order.                                                                  *)
(***************************************************************************)
EXTENDS Findings, ListsProofs

\* A row before chains are drawn.
Rows == [f : Given, also : SUBSET {g.rule : g \in Given}, chain : {NoChain}]

\* What holds until the loop of Deduplicate is over.
InvWhileMerging ==
  /\ rows \in Seq(Rows)
  /\ SeenIsTheRow
  /\ AlsoIsGenuine

Inv ==
  /\ batch \in [Scanners -> Seq(Given)] /\ waiting \subseteq Scanners
  /\ arrived \in Seq(Given)
  /\ step \in {"collect", "dedup", "tier", "allow", "chain", "exempt", "done"}
  /\ next \in Nat \ {0} /\ next <= Len(arrived) + 1
  /\ step = "collect" => next = 1 /\ rows = <<>> /\ seen = [k \in {} |-> 0]
  /\ step \in {"collect", "dedup"} => InvWhileMerging

\* The finding the loop has come to is read by its step, and nothing else is.
LEMMA ReadGrows ==
  ASSUME Inv, next <= Len(arrived), next' = next + 1, arrived' = arrived
  PROVE  /\ arrived[next] \in Given
         /\ Read' = Read \cup {arrived[next]}
<1>1. next \in 1..Len(arrived) BY DEF Inv
<1>2. arrived[next] \in Given BY <1>1 DEF Inv
<1>3. 1..next' - 1 = (1..next - 1) \cup {next} BY <1>1
<1>4. Read' = Read \cup {arrived[next]} BY <1>3 DEF Read
<1>5. QED BY <1>2, <1>4

\* Appending a row for a key not seen before.
LEMMA NewIsKept ==
  ASSUME Inv, step = "dedup", next <= Len(arrived), next' = next + 1,
         arrived' = arrived, KeepNew(arrived[next])
  PROVE  InvWhileMerging'
<1> DEFINE f == arrived[next]
           k0 == Key(f)
<1> f \in Given /\ Read' = Read \cup {f} BY ReadGrows
<1> InvWhileMerging BY DEF Inv
<1> k0 \notin DOMAIN seen BY DEF KeepNew
<1> HIDE DEF f, k0
<1> k0 = Key(f) BY DEF k0
<1>1. Row(f) \in Rows BY DEF Row, Rows
<1>2. /\ rows' = Append(rows, Row(f)) /\ rows' \in Seq(Rows)
      /\ Len(rows') = Len(rows) + 1
      /\ \A i \in DOMAIN rows : rows'[i] = rows[i]
      /\ rows'[Len(rows) + 1] = Row(f)
      /\ DOMAIN rows = 1..Len(rows) /\ DOMAIN rows' = 1..Len(rows) + 1
      /\ Len(rows) \in Nat
  BY <1>1 DEF KeepNew, InvWhileMerging, f
<1>3. /\ DOMAIN seen' = DOMAIN seen \cup {k0}
      /\ seen'[k0] = Len(rows) + 1
      /\ \A k \in DOMAIN seen : seen'[k] = seen[k]
  BY DEF KeepNew, f, k0
<1>4. SeenIsTheRow'
  <2>1. DOMAIN seen' = {Key(g) : g \in Read'}
    BY <1>3 DEF InvWhileMerging, SeenIsTheRow
  <2>2. ASSUME NEW k \in DOMAIN seen' PROVE seen'[k] \in DOMAIN rows' /\ Key(rows'[seen'[k]].f) = k
    <3>1. CASE k = k0 BY <3>1, <1>2, <1>3 DEF Row
    <3>2. CASE k \in DOMAIN seen
      <4>1. seen[k] \in DOMAIN rows /\ Key(rows[seen[k]].f) = k
        BY <3>2 DEF InvWhileMerging, SeenIsTheRow
      <4>2. QED BY <4>1, <3>2, <1>2, <1>3
    <3>3. QED BY <3>1, <3>2, <1>3
  <2>3. ASSUME NEW i \in DOMAIN rows' PROVE rows'[i].f \in Read' /\ seen'[Key(rows'[i].f)] = i
    <3>1. CASE i = Len(rows) + 1 BY <3>1, <1>2, <1>3 DEF Row
    <3>2. CASE i \in DOMAIN rows
      <4>1. rows[i].f \in Read /\ seen[Key(rows[i].f)] = i
        BY <3>2 DEF InvWhileMerging, SeenIsTheRow
      <4>2. Key(rows[i].f) \in DOMAIN seen
        BY <4>1 DEF InvWhileMerging, SeenIsTheRow
      <4>3. QED BY <4>1, <4>2, <3>2, <1>2, <1>3
    <3>3. QED BY <3>1, <3>2, <1>2
  <2>4. QED BY <2>1, <2>2, <2>3 DEF SeenIsTheRow
<1>5. AlsoIsGenuine'
  <2>1. SUFFICES ASSUME NEW i \in DOMAIN rows', NEW r \in rows'[i].also
                 PROVE  r # rows'[i].f.rule /\ \E g \in Read' : g.rule = r /\ Key(g) = Key(rows'[i].f)
    BY DEF AlsoIsGenuine
  <2>2. i # Len(rows) + 1 BY <1>2 DEF Row
  <2>3. i \in DOMAIN rows BY <2>2, <1>2
  <2>4. rows'[i] = rows[i] BY <2>3, <1>2
  <2>5. r # rows[i].f.rule /\ \E g \in Read : g.rule = r /\ Key(g) = Key(rows[i].f)
    BY <2>3, <2>4 DEF InvWhileMerging, AlsoIsGenuine
  <2>6. QED BY <2>4, <2>5
<1>6. QED BY <1>2, <1>4, <1>5 DEF InvWhileMerging

\* Merging two reports of one fact, whichever of them is kept: the row stays one
\* for its fact, and a rule it gains is that of a report of the fact.
LEMMA MergeIsGenuine ==
  ASSUME NEW row \in Rows, NEW f \in Given
  PROVE  /\ Merge(row, f) \in Rows
         /\ Merge(row, f).f = row.f
         /\ \A r \in Merge(row, f).also : r \in row.also \/ (r = f.rule /\ r # row.f.rule)
BY DEF Merge, Rows

\* A duplicate changes one row, and not the fact the row is about.
LEMMA DuplicateIsMerged ==
  ASSUME Inv, step = "dedup", next <= Len(arrived), next' = next + 1,
         arrived' = arrived, MergeSeen(arrived[next])
  PROVE  InvWhileMerging'
<1> DEFINE f == arrived[next]
           i0 == seen[Key(f)]
           m == IF Preferred(f, rows[i0].f) THEN Merge(Row(f), rows[i0].f) ELSE Merge(rows[i0], f)
<1> f \in Given /\ Read' = Read \cup {f} BY ReadGrows
<1> InvWhileMerging BY DEF Inv
<1> /\ Key(f) \in DOMAIN seen /\ seen' = seen
    /\ rows' = [rows EXCEPT ![i0] = m]
  BY DEF MergeSeen
<1> HIDE DEF f, i0, m
<1>1. i0 \in DOMAIN rows /\ Key(rows[i0].f) = Key(f)
  BY DEF i0, InvWhileMerging, SeenIsTheRow
<1>2. rows[i0] \in Rows /\ rows[i0].f \in Given /\ Row(f) \in Rows
  <2>1. rows[i0] \in Rows BY <1>1 DEF InvWhileMerging
  <2>2. rows[i0].f \in Given BY <2>1 DEF Rows
  <2>3. Row(f) \in Rows BY DEF Row, Rows
  <2>4. QED BY <2>1, <2>2, <2>3
<1>3. /\ m \in Rows
      /\ m.f \in {f, rows[i0].f}
      /\ \A r \in m.also : /\ r # m.f.rule
                           /\ \E g \in Read' : g.rule = r /\ Key(g) = Key(f)
  <2>1. rows[i0].f \in Read BY <1>1 DEF InvWhileMerging, SeenIsTheRow
  <2>2. CASE Preferred(f, rows[i0].f)
    <3>1. m = Merge(Row(f), rows[i0].f) BY <2>2 DEF m
    <3>2. Row(f).f = f /\ Row(f).also = {} BY DEF Row
    <3>3. m \in Rows /\ m.f = f /\ \A r \in m.also : r = rows[i0].f.rule /\ r # f.rule
      <4> DEFINE row == Row(f)
      <4> HIDE DEF row
      <4>1. row \in Rows /\ row.f = f /\ row.also = {} BY <3>2, <1>2 DEF row
      <4>2. m = Merge(row, rows[i0].f) BY <3>1 DEF row
      <4>3. m \in Rows /\ m.f = row.f /\ \A r \in m.also : r \in row.also \/ (r = rows[i0].f.rule /\ r # row.f.rule)
        BY <4>1, <4>2, <1>2, MergeIsGenuine
      <4>4. QED BY <4>1, <4>3
    <3>4. QED BY <3>3, <2>1, <1>1
  <2>3. CASE ~Preferred(f, rows[i0].f)
    <3>1. m = Merge(rows[i0], f) BY <2>3 DEF m
    <3>2. /\ m \in Rows /\ m.f = rows[i0].f
          /\ \A r \in m.also : r \in rows[i0].also \/ (r = f.rule /\ r # rows[i0].f.rule)
      BY <3>1, <1>2, MergeIsGenuine
    <3>3. \A r \in rows[i0].also : r # rows[i0].f.rule
                                   /\ \E g \in Read : g.rule = r /\ Key(g) = Key(f)
      BY <1>1 DEF InvWhileMerging, AlsoIsGenuine
    <3>4. QED BY <3>2, <3>3
  <2>4. QED BY <2>2, <2>3
<1>4. Key(m.f) = Key(f) BY <1>1, <1>3
<1>5. /\ rows' \in Seq(Rows) /\ DOMAIN rows' = DOMAIN rows
      /\ rows'[i0] = m
      /\ \A i \in DOMAIN rows : i # i0 => rows'[i] = rows[i]
  BY <1>1, <1>3 DEF InvWhileMerging
<1>6. SeenIsTheRow'
  <2>1. DOMAIN seen' = {Key(g) : g \in Read'}
    BY DEF InvWhileMerging, SeenIsTheRow
  <2>2. ASSUME NEW k \in DOMAIN seen PROVE seen[k] \in DOMAIN rows' /\ Key(rows'[seen[k]].f) = k
    <3>1. seen[k] \in DOMAIN rows /\ Key(rows[seen[k]].f) = k
      BY DEF InvWhileMerging, SeenIsTheRow
    <3>2. QED BY <3>1, <1>1, <1>4, <1>5
  <2>3. ASSUME NEW i \in DOMAIN rows PROVE rows'[i].f \in Read' /\ seen[Key(rows'[i].f)] = i
    <3>1. rows[i].f \in Read /\ seen[Key(rows[i].f)] = i
      BY DEF InvWhileMerging, SeenIsTheRow
    <3>2. CASE i = i0 BY <3>1, <3>2, <1>1, <1>3, <1>4, <1>5
    <3>3. CASE i # i0 BY <3>1, <3>3, <1>5
    <3>4. QED BY <3>2, <3>3
  <2>4. QED BY <2>1, <2>2, <2>3, <1>5 DEF SeenIsTheRow
<1>7. AlsoIsGenuine'
  <2>1. SUFFICES ASSUME NEW i \in DOMAIN rows, NEW r \in rows'[i].also
                 PROVE  r # rows'[i].f.rule /\ \E g \in Read' : g.rule = r /\ Key(g) = Key(rows'[i].f)
    BY <1>5 DEF AlsoIsGenuine
  <2>2. CASE i = i0 BY <2>2, <1>3, <1>4, <1>5
  <2>3. CASE i # i0
    <3>1. rows'[i] = rows[i] BY <2>3, <1>5
    <3>2. r # rows[i].f.rule /\ \E g \in Read : g.rule = r /\ Key(g) = Key(rows[i].f)
      BY <3>1 DEF InvWhileMerging, AlsoIsGenuine
    <3>3. QED BY <3>1, <3>2
  <2>4. QED BY <2>2, <2>3
<1>8. QED BY <1>5, <1>6, <1>7 DEF InvWhileMerging

\* Nothing has arrived: there is nothing to merge.
LEMMA InitInv == Init => Inv
<1> SUFFICES ASSUME Init PROVE Inv OBVIOUS
<1>1. batch \in [Scanners -> Seq(Given)] BY BatchesAssumption DEF Init
<1>2. Read = {} BY DEF Init, Read
<1>3. SeenIsTheRow BY <1>2 DEF Init, SeenIsTheRow
<1>4. AlsoIsGenuine BY DEF Init, AlsoIsGenuine
<1>5. QED BY <1>1, <1>3, <1>4 DEF Init, Inv, InvWhileMerging

\* The invariant survives the arrival of a batch and every step of the loop; the
\* later steps only have to keep what is about the batches.
LEMMA NextInv == Inv /\ [Next]_vars => Inv'
<1> SUFFICES ASSUME Inv, [Next]_vars PROVE Inv' OBVIOUS
<1>1. ASSUME NEW s \in Scanners, Add(s) PROVE Inv'
  <2>1. batch[s] \in Seq(Given) BY DEF Inv
  <2>2. /\ arrived' \in Seq(Given)
        /\ Len(arrived') >= Len(arrived) /\ Len(arrived) \in Nat /\ Len(arrived') \in Nat
    BY <1>1, <2>1 DEF Add, Inv
  <2>3. Read = {} /\ Read' = {} BY <1>1 DEF Add, Inv, Read
  <2>4. SeenIsTheRow' /\ AlsoIsGenuine'
    BY <1>1, <2>3 DEF Add, Inv, SeenIsTheRow, AlsoIsGenuine
  <2>5. rows' \in Seq(Rows) BY <1>1 DEF Add, Inv, InvWhileMerging
  <2>6. InvWhileMerging' BY <2>4, <2>5 DEF InvWhileMerging
  <2>7. next' = next /\ rows' = rows /\ seen' = seen /\ step' = step /\ batch' = batch /\ waiting' \subseteq Scanners
    BY <1>1 DEF Add, Inv
  <2>8. next' <= Len(arrived') + 1 BY <2>2, <2>7 DEF Inv
  <2>9. QED BY <2>2, <2>6, <2>7, <2>8 DEF Inv
<1>2. CASE CollectAll
  <2>1. InvWhileMerging' BY <1>2 DEF CollectAll, Inv, InvWhileMerging, SeenIsTheRow, AlsoIsGenuine, Read
  <2>2. QED BY <1>2, <2>1 DEF CollectAll, Inv
<1>3. CASE Dedup
  <2>1. step = "dedup" /\ next <= Len(arrived) /\ next' = next + 1 /\ arrived' = arrived
    BY <1>3 DEF Dedup
  <2>2. KeepNew(arrived[next]) \/ MergeSeen(arrived[next]) BY <1>3 DEF Dedup
  <2>3. InvWhileMerging' BY <2>1, <2>2, NewIsKept, DuplicateIsMerged
  <2>4. next' \in Nat \ {0} /\ next' <= Len(arrived') + 1 BY <2>1 DEF Inv
  <2>5. QED BY <1>3, <2>1, <2>3, <2>4 DEF Dedup, Inv
<1>4. CASE DedupEnds BY <1>4 DEF DedupEnds, Inv
<1>5. CASE ExcludeTiers BY <1>5 DEF ExcludeTiers, Inv
<1>6. CASE Suppress BY <1>6 DEF Suppress, Inv
<1>7. CASE Correlate BY <1>7 DEF Correlate, Inv
<1>8. CASE Exempt BY <1>8 DEF Exempt, Inv
<1>9. CASE UNCHANGED vars
  BY <1>9 DEF vars, Inv, InvWhileMerging, SeenIsTheRow, AlsoIsGenuine, Read
<1>10. QED BY <1>1, <1>2, <1>3, <1>4, <1>5, <1>6, <1>7, <1>8, <1>9 DEF Next

\* One row for each fact Deduplicate has been told of, each duplicate noted in
\* the row of its own fact, whatever the scanners return and in what order.
THEOREM RowsAreFacts == Spec => []OneRowPerFact
<1>1. Inv => OneRowPerFact BY DEF Inv, InvWhileMerging, OneRowPerFact
<1>2. QED BY <1>1, InitInv, NextInv, PTL DEF Spec

------------------------------------------------------------------------------
(* From the arrival of the batches to the report *)

\* Each scanner that has returned has its findings in one run of arrived, in
\* their order, and nothing else is there.
ArrivedIsBatches ==
  \E at \in [Scanners -> 0..Len(arrived)] :
    /\ \A s \in Scanners \ waiting :
         /\ at[s] + Len(batch[s]) <= Len(arrived)
         /\ \A j \in 1..Len(batch[s]) : arrived[at[s] + j] = batch[s][j]
    /\ \A i \in DOMAIN arrived : \E s \in Scanners \ waiting : i \in at[s] + 1..at[s] + Len(batch[s])

\* Of the first n reports, f is the first SAST one with its key, or else, if there
\* is none, the first one with its key.
IsBest(f, n) ==
  \E m \in 1..n :
    /\ arrived[m] = f
    /\ \A j \in 1..n : Key(arrived[j]) = Key(f) /\ arrived[j].kind = "sast" => f.kind = "sast" /\ m <= j
    /\ f.kind # "sast" => \A j \in 1..m - 1 : Key(arrived[j]) # Key(f)

RowsAreBest == \A i \in DOMAIN rows : IsBest(rows[i].f, next - 1)

Facts == {Key(arrived[i]) : i \in DOMAIN arrived}

\* Each fact is still a row, or was counted when its row was dropped.
Accounted ==
  step \notin {"collect", "dedup"} =>
    Len(rows) + Len(exempted) + tierExcluded + suppressed = Cardinality(Facts)

ChainsAreDrawn == \A i \in DOMAIN rows : rows[i].chain = ChainOf(rows, rows[i].f)

LaterInv ==
  /\ \A s \in Scanners : batch[s] \in Batches[s]
  /\ step # "collect" => waiting = {}
  /\ ArrivedIsBatches
  /\ step \in {"collect", "dedup"} => RowsAreBest
  /\ step \in {"tier", "allow", "chain"} => rows \in Seq(Rows)
  /\ rows \in Seq(ReportRows) /\ exempted \in Seq(ReportRows)
  /\ step # "done" => exempted = <<>>
  /\ step \in {"collect", "dedup", "tier"} => tierExcluded = 0
  /\ step \notin {"chain", "exempt", "done"} => suppressed = 0
  /\ tierExcluded \in Nat /\ suppressed \in Nat
  /\ RepresentativeIsStable
  /\ Accounted
  /\ step = "exempt" => ChainsAreDrawn
  /\ ChainsAreComplete

\* A scanner's finding is among those it may return, and so is of its kind.
LEMMA ItsOwn ==
  ASSUME Inv, LaterInv, NEW s \in Scanners, NEW j \in DOMAIN batch[s]
  PROVE  batch[s][j] \in Of(s) /\ (batch[s][j].kind = "sast" <=> s = "sast")
<1>1. batch[s] \in Batches[s] BY DEF LaterInv
<1>2. batch[s][j] \in Of(s) BY <1>1 DEF Of
<1>3. QED BY <1>2, KindsAssumption

\* A batch comes to stand behind those that arrived before it.
LEMMA BatchIsPlaced ==
  ASSUME Inv, LaterInv, NEW s \in Scanners, Add(s)
  PROVE  ArrivedIsBatches'
<1>1. /\ s \in waiting /\ waiting' = waiting \ {s} /\ arrived' = arrived \o batch[s]
      /\ batch' = batch
  BY DEF Add
<1>2. arrived \in Seq(Given) /\ batch[s] \in Seq(Given) /\ waiting \subseteq Scanners
  BY DEF Inv
<1> DEFINE n == Len(arrived)
           l == Len(batch[s])
<1>3. /\ n \in Nat /\ l \in Nat /\ Len(arrived') = n + l
      /\ DOMAIN arrived = 1..n /\ DOMAIN arrived' = 1..n + l
      /\ \A i \in 1..n + l : arrived'[i] = IF i <= n THEN arrived[i] ELSE batch[s][i - n]
  <2>1. arrived' \in Seq(Given) BY <1>1, <1>2, ConcatProperties
  <2>2. /\ Len(arrived') = n + l
        /\ \A i \in 1..n + l : arrived'[i] = IF i <= n THEN arrived[i] ELSE batch[s][i - n]
    BY <1>1, <1>2, ConcatProperties
  <2>3. QED BY <1>2, <2>1, <2>2, LenProperties
<1>4. PICK at \in [Scanners -> 0..n] :
        /\ \A t \in Scanners \ waiting :
             /\ at[t] + Len(batch[t]) <= n
             /\ \A j \in 1..Len(batch[t]) : arrived[at[t] + j] = batch[t][j]
        /\ \A i \in 1..n : \E t \in Scanners \ waiting : i \in at[t] + 1..at[t] + Len(batch[t])
  BY <1>3 DEF LaterInv, ArrivedIsBatches
<1> DEFINE new == [at EXCEPT ![s] = n]
<1> HIDE DEF n, l
<1>5. /\ new \in [Scanners -> 0..n + l] /\ new[s] = n
      /\ \A t \in Scanners \ waiting : t # s /\ new[t] = at[t] /\ at[t] \in Nat
  BY <1>1, <1>3
<1>6. ASSUME NEW t \in Scanners \ waiting'
      PROVE  /\ new[t] + Len(batch[t]) <= n + l
             /\ \A j \in 1..Len(batch[t]) : arrived'[new[t] + j] = batch[t][j]
  <2>1. CASE t = s
    <3>1. new[t] + Len(batch[t]) = n + l BY <1>5, <2>1 DEF l
    <3>2. ASSUME NEW j \in 1..l PROVE arrived'[n + j] = batch[s][j]
      <4> DEFINE i == n + j
      <4>1. i \in 1..n + l /\ ~(i <= n) /\ i - n = j BY <1>3
      <4> HIDE DEF i
      <4>2. arrived'[i] = batch[s][j] BY <1>3, <4>1
      <4>3. QED BY <4>2 DEF i
    <3>3. QED BY <1>3, <1>5, <2>1, <3>1, <3>2 DEF l
  <2>2. CASE t \in Scanners \ waiting
    <3>1. batch[t] \in Seq(Given) BY <2>2 DEF Inv
    <3>2. Len(batch[t]) \in Nat BY <3>1, LenProperties
    <3>3. new[t] = at[t] /\ at[t] \in Nat /\ at[t] + Len(batch[t]) <= n BY <1>4, <1>5, <2>2
    <3>4. ASSUME NEW j \in 1..Len(batch[t]) PROVE arrived'[at[t] + j] = batch[t][j]
      <4> DEFINE i == at[t] + j
      <4>1. i \in 1..n + l /\ i <= n BY <1>3, <3>2, <3>3
      <4>2. arrived[i] = batch[t][j] BY <1>4, <2>2
      <4> HIDE DEF i
      <4>3. arrived'[i] = arrived[i] BY <1>3, <4>1
      <4>4. QED BY <4>2, <4>3 DEF i
    <3>5. QED BY <1>3, <3>2, <3>3, <3>4
  <2>3. QED BY <1>1, <2>1, <2>2
<1>7. ASSUME NEW i \in 1..n + l
      PROVE  \E t \in Scanners \ waiting' : i \in new[t] + 1..new[t] + Len(batch[t])
  <2>1. CASE i <= n
    <3>1. i \in 1..n BY <1>3, <2>1
    <3>2. PICK t \in Scanners \ waiting : i \in at[t] + 1..at[t] + Len(batch[t]) BY <1>4, <3>1
    <3>3. new[t] = at[t] /\ t \in Scanners \ waiting' BY <1>1, <1>5
    <3>4. QED BY <3>2, <3>3
  <2>2. CASE ~(i <= n)
    <3>1. i \in n + 1..n + l BY <1>3, <2>2
    <3>2. s \in Scanners \ waiting' BY <1>1
    <3>3. QED BY <1>5, <3>1, <3>2 DEF l
  <2>3. QED BY <2>1, <2>2
<1>8. Len(arrived') = n + l /\ DOMAIN arrived' = 1..n + l BY <1>3
<1>9. QED
  <2> HIDE DEF new
  <2>1. new \in [Scanners -> 0..Len(arrived')] BY <1>5, <1>8
  <2>2. \A t \in Scanners \ waiting' :
          /\ new[t] + Len(batch'[t]) <= Len(arrived')
          /\ \A j \in 1..Len(batch'[t]) : arrived'[new[t] + j] = batch'[t][j]
    BY <1>1, <1>6, <1>8
  <2>3. \A i \in DOMAIN arrived' :
          \E t \in Scanners \ waiting' : i \in new[t] + 1..new[t] + Len(batch'[t])
    BY <1>1, <1>7, <1>8
  <2>4. QED BY <2>1, <2>2, <2>3 DEF ArrivedIsBatches

\* A report of another fact does not change which report of a fact is preferred.
LEMMA BestStays ==
  ASSUME NEW n \in Nat, NEW f, IsBest(f, n), Key(arrived[n + 1]) # Key(f)
  PROVE  IsBest(f, n + 1)
<1>1. PICK m \in 1..n :
        /\ arrived[m] = f
        /\ \A j \in 1..n : Key(arrived[j]) = Key(f) /\ arrived[j].kind = "sast" => f.kind = "sast" /\ m <= j
        /\ f.kind # "sast" => \A j \in 1..m - 1 : Key(arrived[j]) # Key(f)
  BY DEF IsBest
<1>2. m \in 1..n + 1 OBVIOUS
<1>3. ASSUME NEW j \in 1..n + 1, Key(arrived[j]) = Key(f), arrived[j].kind = "sast"
      PROVE  f.kind = "sast" /\ m <= j
  <2>1. j # n + 1 BY <1>3
  <2>2. j \in 1..n BY <2>1
  <2>3. QED BY <1>1, <1>3, <2>2
<1>4. QED BY <1>1, <1>2, <1>3 DEF IsBest

\* Neither does a later report of the fact itself, unless it is the first of the
\* SAST scanner.
LEMMA BestIsFound ==
  ASSUME NEW n \in Nat, NEW f, IsBest(f, n), NEW g, arrived[n + 1] = g, Key(g) = Key(f)
  PROVE  /\ ~Preferred(g, f) => IsBest(f, n + 1)
         /\ Preferred(g, f) => IsBest(g, n + 1)
<1>1. PICK m \in 1..n :
        /\ arrived[m] = f
        /\ \A j \in 1..n : Key(arrived[j]) = Key(f) /\ arrived[j].kind = "sast" => f.kind = "sast" /\ m <= j
        /\ f.kind # "sast" => \A j \in 1..m - 1 : Key(arrived[j]) # Key(f)
  BY DEF IsBest
<1>2. ASSUME ~Preferred(g, f) PROVE IsBest(f, n + 1)
  <2>1. g.kind = "sast" => f.kind = "sast" BY <1>2 DEF Preferred
  <2>2. ASSUME NEW j \in 1..n + 1, Key(arrived[j]) = Key(f), arrived[j].kind = "sast"
        PROVE  f.kind = "sast" /\ m <= j
    <3>1. CASE j = n + 1 BY <2>1, <2>2, <3>1
    <3>2. CASE j \in 1..n BY <1>1, <2>2, <3>2
    <3>3. QED BY <3>1, <3>2
  <2>3. m \in 1..n + 1 OBVIOUS
  <2>4. QED BY <1>1, <2>2, <2>3 DEF IsBest
<1>3. ASSUME Preferred(g, f) PROVE IsBest(g, n + 1)
  <2>1. g.kind = "sast" /\ f.kind # "sast" BY <1>3 DEF Preferred
  <2>2. ASSUME NEW j \in 1..n + 1, Key(arrived[j]) = Key(g), arrived[j].kind = "sast"
        PROVE  n + 1 <= j
    <3>1. j \notin 1..n BY <1>1, <2>1, <2>2
    <3>2. QED BY <3>1
  <2>3. n + 1 \in 1..n + 1 OBVIOUS
  <2>4. QED BY <2>1, <2>2, <2>3 DEF IsBest
<1>4. QED BY <1>2, <1>3

\* The loop keeps, for each fact it has read of, the preferred report.
LEMMA BestIsKept ==
  ASSUME Inv, LaterInv, Dedup
  PROVE  RowsAreBest'
<1> DEFINE n == next - 1
           f == arrived[next]
<1>1. /\ step = "dedup" /\ next <= Len(arrived) /\ next' = next + 1 /\ arrived' = arrived
      /\ n \in Nat /\ n + 1 = next /\ next' - 1 = n + 1
  BY DEF Dedup, Inv
<1>2. f \in Given /\ Read' = Read \cup {f} BY <1>1, ReadGrows
<1>3. InvWhileMerging /\ RowsAreBest BY <1>1 DEF Inv, LaterInv
<1>4. ASSUME NEW g, IsBest(g, n + 1) PROVE IsBest(g, next - 1)'
  <2>1. n + 1 = next' - 1 BY <1>1
  <2>2. QED BY <1>1, <1>4, <2>1 DEF IsBest
<1> HIDE DEF n, f
<1>5. CASE KeepNew(f)
  <2>1. Key(f) \notin DOMAIN seen /\ rows' = Append(rows, Row(f)) BY <1>5 DEF KeepNew
  <2>2. \A j \in 1..n : Key(arrived[j]) # Key(f)
    <3>1. \A j \in 1..n : arrived[j] \in Read BY DEF Read, n
    <3>2. QED BY <1>3, <2>1, <3>1 DEF InvWhileMerging, SeenIsTheRow
  <2>3. IsBest(f, n + 1)
    <3> DEFINE m == n + 1
    <3>1. m \in 1..m /\ arrived[m] = f /\ m \in Nat BY <1>1 DEF f
    <3>2. \A j \in 1..m : Key(arrived[j]) = Key(f) => j = m BY <1>1, <2>2
    <3> HIDE DEF m
    <3>3. \A j \in 1..m - 1 : Key(arrived[j]) # Key(f)
      <4>1. \A j \in 1..m - 1 : j \in 1..m /\ j # m BY <3>1
      <4>2. QED BY <3>2, <4>1
    <3>4. \A j \in 1..m : Key(arrived[j]) = Key(f) /\ arrived[j].kind = "sast" =>
            f.kind = "sast" /\ m <= j
      BY <3>1, <3>2
    <3>5. IsBest(f, m) BY <3>1, <3>3, <3>4 DEF IsBest
    <3>6. QED BY <3>5 DEF m
  <2>4. ASSUME NEW i \in DOMAIN rows PROVE IsBest(rows[i].f, n + 1)
    <3>1. IsBest(rows[i].f, n) BY <1>3 DEF RowsAreBest, n
    <3>2. Key(rows[i].f) \in DOMAIN seen BY <1>3 DEF InvWhileMerging, SeenIsTheRow
    <3>3. Key(arrived[n + 1]) # Key(rows[i].f) BY <1>1, <2>1, <3>2 DEF f
    <3>4. QED BY <1>1, <3>1, <3>3, BestStays
  <2>5. ASSUME NEW i \in DOMAIN rows' PROVE IsBest(rows'[i].f, n + 1)
    <3>1. rows \in Seq(Rows) /\ Row(f) \in Rows BY <1>2, <1>3 DEF InvWhileMerging, Row, Rows
    <3>2. (i \in DOMAIN rows /\ rows'[i] = rows[i]) \/ rows'[i] = Row(f) BY <2>1, <3>1
    <3>3. Row(f).f = f BY DEF Row
    <3>4. QED BY <2>3, <2>4, <3>2, <3>3
  <2>6. QED BY <1>4, <2>5 DEF RowsAreBest
<1>6. CASE MergeSeen(f)
  <2> DEFINE i0 == seen[Key(f)]
             old == rows[i0].f
  <2>1. /\ Key(f) \in DOMAIN seen
        /\ rows' = IF Preferred(f, old) THEN [rows EXCEPT ![i0] = Merge(Row(f), @.f)]
                                        ELSE [rows EXCEPT ![i0] = Merge(@, f)]
    BY <1>6 DEF MergeSeen
  <2>2. i0 \in DOMAIN rows /\ Key(old) = Key(f) BY <1>3, <2>1 DEF InvWhileMerging, SeenIsTheRow
  <2>3. IsBest(old, n) BY <1>3, <2>2 DEF RowsAreBest, n
  <2>4. rows[i0] \in Rows /\ old \in Given
    <3>1. rows[i0] \in Rows BY <1>3, <2>2 DEF InvWhileMerging
    <3>2. QED BY <3>1 DEF Rows
  <2>5. Merge(Row(f), old).f = f /\ Merge(rows[i0], f).f = old
    <3>1. Row(f) \in Rows /\ Row(f).f = f BY <1>2 DEF Row, Rows
    <3> HIDE DEF old
    <3>2. Merge(Row(f), old).f = Row(f).f BY <2>4, <3>1, MergeIsGenuine
    <3>3. Merge(rows[i0], f).f = rows[i0].f BY <1>2, <2>4, MergeIsGenuine
    <3>4. QED BY <3>1, <3>2, <3>3 DEF old
  <2>6. DOMAIN rows' = DOMAIN rows BY <2>1
  <2>7. /\ rows'[i0].f = IF Preferred(f, old) THEN f ELSE old
        /\ \A i \in DOMAIN rows : i # i0 => rows'[i] = rows[i]
    BY <2>1, <2>2, <2>5
  <2>8. arrived[n + 1] = f BY <1>1 DEF f
  <2>9. ASSUME NEW i \in DOMAIN rows PROVE IsBest(rows'[i].f, n + 1)
    <3> HIDE DEF i0, old
    <3>1. CASE i = i0 BY <1>1, <2>2, <2>3, <2>7, <2>8, <3>1, BestIsFound
    <3>2. CASE i # i0
      <4>1. IsBest(rows[i].f, n) BY <1>3 DEF RowsAreBest, n
      <4>2. Key(rows[i].f) # Key(f)
        <5>1. seen[Key(rows[i].f)] = i BY <1>3 DEF InvWhileMerging, SeenIsTheRow
        <5>2. QED BY <3>2, <5>1 DEF i0
      <4>3. QED BY <1>1, <2>7, <2>8, <3>2, <4>1, <4>2, BestStays
    <3>3. QED BY <3>1, <3>2
  <2>10. QED BY <1>4, <2>6, <2>9 DEF RowsAreBest
<1>7. QED BY <1>5, <1>6 DEF Dedup, f


\* The first finding with a key is the one FirstOf chooses.
LEMMA FirstIsChosen ==
  ASSUME Inv, NEW s \in Scanners, NEW k, NEW j \in DOMAIN batch[s], Key(batch[s][j]) = k,
         \A i \in 1..j - 1 : Key(batch[s][i]) # k
  PROVE  FirstOf(s, k) = batch[s][j]
<1> DEFINE First(i) == Key(batch[s][i]) = k /\ \A h \in 1..i - 1 : Key(batch[s][h]) # k
           c == CHOOSE i \in DOMAIN batch[s] : First(i)
<1>1. c \in DOMAIN batch[s] /\ First(c) OBVIOUS
<1>2. \A i \in DOMAIN batch[s] : i \in Nat \ {0} BY DEF Inv
<1> HIDE DEF c
<1>3. c = j
  <2>1. c \in Nat \ {0} /\ j \in Nat \ {0} BY <1>1, <1>2
  <2>2. c \notin 1..j - 1 /\ j \notin 1..c - 1 BY <1>1
  <2>3. QED BY <2>1, <2>2
<1>4. QED BY <1>3 DEF FirstOf, c

\* When everything is read, the preferred report of a fact depends on the
\* batches alone, and not on the order in which they arrived.
LEMMA BestIsRepresentative ==
  ASSUME Inv, LaterInv, step = "dedup", next > Len(arrived), NEW row \in DOMAIN rows
  PROVE  rows[row].f = Representative(Key(rows[row].f))
<1> DEFINE f == rows[row].f
           k == Key(f)
           n == Len(arrived)
<1>1. n \in Nat /\ next - 1 = n /\ DOMAIN arrived = 1..n BY DEF Inv
<1>2. PICK m \in 1..n :
        /\ arrived[m] = f
        /\ \A j \in 1..n : Key(arrived[j]) = k /\ arrived[j].kind = "sast" => f.kind = "sast" /\ m <= j
        /\ f.kind # "sast" => \A j \in 1..m - 1 : Key(arrived[j]) # k
  BY <1>1 DEF LaterInv, RowsAreBest, IsBest
<1>3. PICK at \in [Scanners -> 0..n] :
        /\ \A s \in Scanners :
             /\ at[s] + Len(batch[s]) <= n
             /\ \A j \in 1..Len(batch[s]) : arrived[at[s] + j] = batch[s][j]
        /\ \A i \in 1..n : \E s \in Scanners : i \in at[s] + 1..at[s] + Len(batch[s])
  BY <1>1 DEF LaterInv, ArrivedIsBatches
<1>4. \A s \in Scanners : Len(batch[s]) \in Nat /\ DOMAIN batch[s] = 1..Len(batch[s]) /\ at[s] \in Nat
  <2>1. \A s \in Scanners : batch[s] \in Seq(Given) BY DEF Inv
  <2>2. QED BY <1>1, <1>3, <2>1, LenProperties
<1>5. PICK s \in Scanners : m \in at[s] + 1..at[s] + Len(batch[s]) BY <1>3
<1> DEFINE j0 == m - at[s]
<1>6. j0 \in DOMAIN batch[s] /\ at[s] + j0 = m /\ batch[s][j0] = f
  <2>1. j0 \in 1..Len(batch[s]) /\ at[s] + j0 = m BY <1>4, <1>5
  <2> HIDE DEF j0
  <2>2. arrived[at[s] + j0] = batch[s][j0] BY <1>3, <2>1
  <2>3. QED BY <1>2, <1>4, <2>1, <2>2
<1> HIDE DEF f, k, n, j0
<1>7. f \in Of(s) /\ (f.kind = "sast" <=> s = "sast") BY <1>6, ItsOwn
<1>8. s \in Reporters(k) BY <1>6 DEF Reporters, k
<1>9. (\A i \in 1..m - 1 : i \in DOMAIN arrived /\ i > at[s] => Key(arrived[i]) # k) =>
        FirstOf(s, k) = f
  <2> SUFFICES ASSUME \A i \in 1..m - 1 : i \in DOMAIN arrived /\ i > at[s] => Key(arrived[i]) # k
               PROVE  FirstOf(s, k) = f
    OBVIOUS
  <2>1. ASSUME NEW i \in 1..j0 - 1 PROVE Key(batch[s][i]) # k
    <3> DEFINE p == at[s] + i
    <3>1. p \in 1..m - 1 /\ p > at[s] /\ p \in 1..n BY <1>1, <1>2, <1>4, <1>6
    <3>2. i \in 1..Len(batch[s]) BY <1>4, <1>6
    <3>3. arrived[p] = batch[s][i] BY <1>3, <3>2
    <3> HIDE DEF p
    <3>4. QED BY <1>1, <3>1, <3>3
  <2>2. Key(batch[s][j0]) = k BY <1>6 DEF k
  <2>3. FirstOf(s, k) = batch[s][j0] BY <1>6, <2>1, <2>2, FirstIsChosen
  <2>4. QED BY <1>6, <2>3
<1>10. CASE "sast" \in Reporters(k)
  <2>1. PICK q \in DOMAIN batch["sast"] : Key(batch["sast"][q]) = k BY <1>10 DEF Reporters
  <2>2. "sast" \in Scanners BY <1>10 DEF Reporters
  <2>3. batch["sast"][q].kind = "sast" BY <2>1, <2>2, ItsOwn
  <2> DEFINE p == at["sast"] + q
  <2>4. p \in 1..n /\ arrived[p] = batch["sast"][q]
    <3>1. q \in 1..Len(batch["sast"]) /\ at["sast"] + Len(batch["sast"]) <= n BY <1>3, <1>4, <2>2
    <3>2. arrived[p] = batch["sast"][q] BY <1>3, <2>2, <3>1
    <3>3. QED BY <1>1, <1>4, <2>2, <3>1, <3>2
  <2> HIDE DEF p
  <2>5. f.kind = "sast" BY <1>2, <2>1, <2>3, <2>4
  <2>6. s = "sast" BY <1>7, <2>5
  <2>7. ASSUME NEW i \in 1..m - 1, i \in DOMAIN arrived, i > at[s] PROVE Key(arrived[i]) # k
    <3>1. i \in 1..n /\ ~(m <= i) BY <1>1, <2>7
    <3>2. m <= n /\ m \in Nat BY <1>1
    <3>3. at[s] + Len(batch[s]) >= m BY <1>4, <1>5
    <3> DEFINE h == i - at[s]
    <3>4. h \in 1..Len(batch[s]) /\ at[s] + h = i BY <1>4, <2>7, <3>2, <3>3
    <3> HIDE DEF h
    <3>5. arrived[i] = batch[s][h] BY <1>3, <3>4
    <3>6. arrived[i].kind = "sast" BY <1>4, <2>6, <3>4, <3>5, ItsOwn
    <3>7. QED BY <1>2, <3>1, <3>6
  <2>8. FirstOf(s, k) = f BY <1>9, <2>7
  <2>9. QED BY <1>10, <2>6, <2>8 DEF Representative, f, k
<1>11. CASE "sast" \notin Reporters(k)
  <2>1. s # "sast" BY <1>8, <1>11
  <2>2. f.kind # "sast" BY <1>7, <2>1
  <2>3. FirstOf(s, k) = f BY <1>2, <1>9, <2>2
  <2> DEFINE t == CHOOSE t \in Reporters(k) : TRUE
  <2>4. t \in Reporters(k) BY <1>8
  <2> HIDE DEF t
  <2>5. t \in Scanners /\ \E i \in DOMAIN batch[t] : Key(batch[t][i]) = k BY <2>4 DEF Reporters
  <2>6. PICK i \in DOMAIN batch[t] : Key(batch[t][i]) = k BY <2>5
  <2>7. batch[t][i] \in Of(t) BY <2>5, <2>6, ItsOwn
  <2>8. t # "sast" BY <1>11, <2>4
  <2>9. t = s
    <3>1. s \in Scanners \ {"sast"} /\ t \in Scanners \ {"sast"} BY <2>1, <2>5, <2>8
    <3>2. Key(batch[t][i]) = Key(f) BY <2>6 DEF k
    <3>3. QED BY <1>7, <2>7, <3>1, <3>2, OwnFactsAssumption
  <2>10. QED BY <1>11, <2>3, <2>9 DEF Representative, t, f, k
<1>12. QED BY <1>10, <1>11

\* When everything is read there are as many rows as facts.
LEMMA RowsAreCounted ==
  ASSUME Inv, step = "dedup", next > Len(arrived)
  PROVE  Len(rows) = Cardinality(Facts) /\ Len(rows) \in Nat
<1>1. rows \in Seq(Rows) /\ SeenIsTheRow BY DEF Inv, InvWhileMerging
<1>2. Len(rows) \in Nat /\ DOMAIN rows = 1..Len(rows) BY <1>1, LenProperties
<1>3. Facts = DOMAIN seen
  <2>1. next - 1 = Len(arrived) /\ DOMAIN arrived = 1..Len(arrived) BY DEF Inv
  <2>2. Facts = {Key(f) : f \in Read} BY <2>1 DEF Facts, Read
  <2>3. QED BY <1>1, <2>2 DEF SeenIsTheRow
<1> DEFINE g == [k \in Facts |-> seen[k]]
<1>4. g \in [Facts -> DOMAIN rows] BY <1>1, <1>3 DEF SeenIsTheRow
<1>5. \A a, b \in Facts : g[a] = g[b] => a = b BY <1>1, <1>3 DEF SeenIsTheRow
<1>6. \A i \in DOMAIN rows : \E k \in Facts : g[k] = i
  <2> SUFFICES ASSUME NEW i \in DOMAIN rows PROVE \E k \in Facts : g[k] = i OBVIOUS
  <2>1. rows[i].f \in Read /\ seen[Key(rows[i].f)] = i BY <1>1 DEF SeenIsTheRow
  <2>2. Key(rows[i].f) \in Facts BY <1>1, <1>3, <2>1 DEF SeenIsTheRow
  <2>3. QED BY <2>1, <2>2
<1>7. IsFiniteSet(1..Len(rows)) /\ Cardinality(1..Len(rows)) = Len(rows)
  <2>1. Len(rows) \in Int /\ 1 \in Int BY <1>2
  <2>2. /\ IsFiniteSet(1..Len(rows))
        /\ Cardinality(1..Len(rows)) = IF 1 > Len(rows) THEN 0 ELSE Len(rows) - 1 + 1
    BY <2>1, FS_Interval
  <2>3. QED BY <1>2, <2>2
<1>8. Cardinality(Facts) = Cardinality(DOMAIN rows)
  <2> HIDE DEF g
  <2>1. IsFiniteSet(DOMAIN rows) BY <1>2, <1>7
  <2>2. QED BY <1>4, <1>5, <1>6, <2>1, CountedThrough
<1>9. QED BY <1>2, <1>7, <1>8


\* A filter's loop leaves some of the rows, each as it was.
LEMMA FilterKeeps ==
  ASSUME NEW T, NEW list \in Seq(T), NEW P, P \subseteq DOMAIN list
  PROVE  LET left == Picked(list, P) IN
         /\ left \in Seq(T)
         /\ Len(left) \in Nat /\ Len(list) \in Nat /\ Len(list) - Len(left) \in Nat
         /\ \A n \in DOMAIN left : \E k \in P : left[n] = list[k]
<1> DEFINE left == Picked(list, P)
<1>1. left \in Seq(T) /\ Len(left) = Cardinality(P) /\ EachOnce(left, list, P)
  BY PickedEach
<1>2. Len(list) \in Nat /\ DOMAIN list = 1..Len(list) BY LenProperties
<1>3. Cardinality(P) <= Len(list)
  <2>1. Len(list) \in Int /\ 1 \in Int BY <1>2
  <2>2. /\ IsFiniteSet(1..Len(list))
        /\ Cardinality(1..Len(list)) = IF 1 > Len(list) THEN 0 ELSE Len(list) - 1 + 1
    BY <2>1, FS_Interval
  <2>3. P \in SUBSET (1..Len(list)) BY <1>2
  <2>4. Cardinality(P) <= Cardinality(1..Len(list)) BY <2>2, <2>3, FS_Subset
  <2>5. QED BY <1>2, <2>2, <2>4
<1> HIDE DEF left
<1>4. Len(left) \in Nat BY <1>1, LenProperties
<1>5. Len(list) - Len(left) \in Nat BY <1>1, <1>2, <1>3, <1>4
<1>6. \A n \in DOMAIN left : \E k \in P : left[n] = list[k] BY <1>1 DEF EachOnce
<1>7. QED BY <1>1, <1>2, <1>4, <1>5, <1>6 DEF left

\* The representative of a fact changes only with the batches.
LEMMA SameRepresentative ==
  ASSUME batch' = batch, NEW CONSTANT f, Representative(Key(f)) = f
  PROVE  Representative(Key(f))' = f
BY DEF Representative, Reporters, FirstOf

\* Rows that show what rows showed before show the representatives still.
LEMMA RepresentativesAreKept ==
  ASSUME \A i \in DOMAIN rows : rows[i].f = Representative(Key(rows[i].f)), batch' = batch,
         \A n \in DOMAIN rows' : \E k \in DOMAIN rows : rows'[n].f = rows[k].f
  PROVE  RepresentativeIsStable'
<1> SUFFICES ASSUME NEW n \in DOMAIN rows'
             PROVE  (rows[n].f = Representative(Key(rows[n].f)))'
  BY DEF RepresentativeIsStable
<1>1. PICK k \in DOMAIN rows : rows'[n].f = rows[k].f OBVIOUS
<1>2. rows[k].f = Representative(Key(rows[k].f)) OBVIOUS
<1>3. PICK f : f = rows[k].f OBVIOUS
<1>4. Representative(Key(f))' = f BY <1>2, <1>3, SameRepresentative
<1>5. rows'[n].f = f BY <1>1, <1>3
<1>6. QED BY <1>4, <1>5

LEMMA StableIsKept ==
  ASSUME step \notin {"collect", "dedup"}, RepresentativeIsStable, batch' = batch,
         \A n \in DOMAIN rows' : \E k \in DOMAIN rows : rows'[n].f = rows[k].f
  PROVE  RepresentativeIsStable'
<1>1. \A i \in DOMAIN rows : rows[i].f = Representative(Key(rows[i].f)) BY DEF RepresentativeIsStable
<1>2. QED BY <1>1, RepresentativesAreKept

\* A step that leaves the rows alone leaves their chains drawn, and complete.
LEMMA ChainsStay ==
  ASSUME rows' = rows, exempted' = exempted, step' = step, ChainsAreComplete
  PROVE  (ChainsAreDrawn => ChainsAreDrawn') /\ ChainsAreComplete'
<1>1. ASSUME ChainsAreDrawn PROVE ChainsAreDrawn'
  <2> SUFFICES ASSUME NEW i \in DOMAIN rows' PROVE (rows[i].chain = ChainOf(rows, rows[i].f))'
    BY DEF ChainsAreDrawn
  <2>1. rows[i].chain = ChainOf(rows, rows[i].f) BY <1>1 DEF ChainsAreDrawn
  <2>2. QED BY <2>1
<1>2. ChainsAreComplete'
  <2> DEFINE Complete(shown) == \A i \in DOMAIN shown : shown[i].chain = ChainOf(shown, shown[i].f)
  <2>1. step = "done" => Complete(rows \o exempted) BY DEF ChainsAreComplete
  <2>2. step' = "done" => Complete(rows' \o exempted') BY <2>1
  <2>3. QED BY <2>2 DEF ChainsAreComplete
<1>3. QED BY <1>1, <1>2

\* The step of a filter, over the places P it lets pass.
LEMMA FilterIsSound ==
  ASSUME LaterInv, step \in {"tier", "allow"}, NEW P, P \subseteq DOMAIN rows, rows' = Picked(rows, P),
         batch' = batch
  PROVE  /\ rows' \in Seq(Rows) /\ rows' \in Seq(ReportRows)
         /\ Len(rows) \in Nat /\ Len(rows') \in Nat /\ Len(rows) - Len(rows') \in Nat
         /\ RepresentativeIsStable'
<1>1. rows \in Seq(Rows) BY DEF LaterInv
<1>2. /\ rows' \in Seq(Rows)
      /\ Len(rows) \in Nat /\ Len(rows') \in Nat /\ Len(rows) - Len(rows') \in Nat
      /\ \A n \in DOMAIN rows' : \E k \in P : rows'[n] = rows[k]
  BY <1>1, FilterKeeps
<1>3. Rows \subseteq ReportRows BY DEF Rows, ReportRows
<1>4. rows' \in Seq(ReportRows) BY <1>2, <1>3, SeqMonotonic
<1>5. \A n \in DOMAIN rows' : \E k \in DOMAIN rows : rows'[n].f = rows[k].f BY <1>2
<1>6. RepresentativeIsStable' BY <1>5, StableIsKept DEF LaterInv
<1>7. QED BY <1>2, <1>4, <1>6

\* Marking a row leaves the finding in it, and its rules.
LEMMA MarkIsDrawn ==
  ASSUME rows \in Seq(Rows), NEW i \in DOMAIN rows
  PROVE  /\ Chained(rows[i]) \in ReportRows
         /\ Chained(rows[i]).f = rows[i].f
         /\ Chained(rows[i]).chain = ChainOf(rows, rows[i].f)
<1> DEFINE row == rows[i]
           links == {j \in DOMAIN rows : Linked(rows[j].f, row.f)}
           mark == [size |-> Cardinality(links), rules |-> {rows[j].f.rule : j \in links}]
<1>1. DOMAIN rows = 1..Len(rows) /\ Len(rows) \in Nat /\ \A j \in DOMAIN rows : rows[j] \in Rows
  BY LenProperties
<1>2. row \in Rows BY <1>1
<1>3. Cardinality(links) \in Nat
  <2>1. IsFiniteSet(1..Len(rows)) BY <1>1, FS_Interval
  <2>2. links \in SUBSET (1..Len(rows)) BY <1>1
  <2> HIDE DEF links
  <2>3. QED BY <2>1, <2>2, FS_Subset, FS_CardinalityType
<1>4. \A j \in links : rows[j].f \in Given
  <2>1. \A j \in DOMAIN rows : rows[j].f \in Given BY <1>1 DEF Rows
  <2>2. QED BY <2>1
<1>5. {rows[j].f.rule : j \in links} \in SUBSET {g.rule : g \in Given} BY <1>4
<1>6. Chained(row) = IF Cardinality(links) < 2 THEN row ELSE [row EXCEPT !.chain = mark]
  BY DEF Chained
<1>7. ChainOf(rows, row.f) = IF Cardinality(links) < 2 THEN NoChain ELSE mark
  BY DEF ChainOf
<1>8. Cardinality(links) < 2 \/ mark \in [size : Nat \ {0, 1}, rules : SUBSET {g.rule : g \in Given}]
  <2> DEFINE size == Cardinality(links)
             rules == {rows[j].f.rule : j \in links}
  <2>1. size \in Nat /\ rules \in SUBSET {g.rule : g \in Given} BY <1>3, <1>5
  <2>2. mark = [size |-> size, rules |-> rules] OBVIOUS
  <2> HIDE DEF links, size, rules, mark
  <2>3. size < 2 \/ size \in Nat \ {0, 1} BY <2>1
  <2>4. size < 2 \/ mark \in [size : Nat \ {0, 1}, rules : SUBSET {g.rule : g \in Given}]
    BY <2>1, <2>2, <2>3
  <2>5. QED BY <2>4 DEF size
<1> HIDE DEF row, links, mark
<1>9. /\ Chained(row) \in ReportRows
      /\ Chained(row).f = row.f
      /\ Chained(row).chain = ChainOf(rows, row.f)
  <2>1. /\ row.f \in Given /\ row.also \in SUBSET {g.rule : g \in Given} /\ row.chain = NoChain
        /\ row = [f |-> row.f, also |-> row.also, chain |-> row.chain]
    BY <1>2 DEF Rows
  <2>2. CASE Cardinality(links) < 2 BY <1>6, <1>7, <2>1, <2>2 DEF ReportRows
  <2>3. CASE ~(Cardinality(links) < 2)
    <3>1. mark \in [size : Nat \ {0, 1}, rules : SUBSET {g.rule : g \in Given}] BY <1>8, <2>3
    <3>2. Chained(row) = [f |-> row.f, also |-> row.also, chain |-> mark] BY <1>6, <2>1, <2>3
    <3>3. QED BY <1>7, <2>1, <2>3, <3>1, <3>2 DEF ReportRows
  <2>4. QED BY <2>2, <2>3
<1>10. QED BY <1>9 DEF row

\* Chains look at the findings alone, which a mark does not touch.
LEMMA ChainsAreMarked ==
  ASSUME rows \in Seq(Rows), rows' = [i \in DOMAIN rows |-> Chained(rows[i])]
  PROVE  /\ rows' \in Seq(ReportRows) /\ Len(rows') = Len(rows)
         /\ \A i \in DOMAIN rows' : i \in DOMAIN rows /\ rows'[i].f = rows[i].f
         /\ ChainsAreDrawn'
<1>1. DOMAIN rows = 1..Len(rows) /\ Len(rows) \in Nat BY LenProperties
<1>2. \A i \in DOMAIN rows : /\ rows'[i] \in ReportRows /\ rows'[i].f = rows[i].f
                             /\ rows'[i].chain = ChainOf(rows, rows[i].f)
  BY MarkIsDrawn
<1>3. rows' \in [1..Len(rows) -> ReportRows] BY <1>1, <1>2
<1>4. rows' \in Seq(ReportRows) BY <1>1, <1>3, SeqDef
<1>5. DOMAIN rows' = DOMAIN rows /\ Len(rows') = Len(rows) BY <1>1, <1>3, <1>4, LenProperties
<1>6. ASSUME NEW i \in DOMAIN rows' PROVE (rows[i].chain = ChainOf(rows, rows[i].f))'
  <2> DEFINE f == rows[i].f
             links == {j \in DOMAIN rows : Linked(rows[j].f, f)}
             new == {j \in DOMAIN rows' : Linked(rows'[j].f, f)}
  <2>1. new = links BY <1>2, <1>5
  <2>2. {rows'[j].f.rule : j \in new} = {rows[j].f.rule : j \in links} BY <1>2, <2>1
  <2>3. rows'[i].f = f /\ rows'[i].chain = ChainOf(rows, f) BY <1>2, <1>5
  <2>4. ChainOf(rows, f) = IF Cardinality(links) < 2 THEN NoChain
                           ELSE [size |-> Cardinality(links), rules |-> {rows[j].f.rule : j \in links}]
    BY DEF ChainOf
  <2>5. ChainOf(rows', f) = IF Cardinality(new) < 2 THEN NoChain
                            ELSE [size |-> Cardinality(new), rules |-> {rows'[j].f.rule : j \in new}]
    BY DEF ChainOf
  <2> HIDE DEF f, links, new
  <2>6. ChainOf(rows', f) = ChainOf(rows, f) BY <2>1, <2>2, <2>4, <2>5
  <2>7. QED BY <2>3, <2>6
<1>7. QED BY <1>2, <1>4, <1>5, <1>6 DEF ChainsAreDrawn

\* Chains do not depend on the order of the rows.
LEMMA ChainsSurvive ==
  ASSUME NEW list \in Seq(ReportRows), NEW whole, EachOnce(whole, list, DOMAIN list),
         \A i \in DOMAIN list : list[i].chain = ChainOf(list, list[i].f)
  PROVE  \A n \in DOMAIN whole : whole[n].chain = ChainOf(whole, whole[n].f)
<1>1. PICK at \in [DOMAIN whole -> DOMAIN list] :
        /\ \A n \in DOMAIN whole : whole[n] = list[at[n]]
        /\ \A m, n \in DOMAIN whole : at[m] = at[n] => m = n
        /\ \A k \in DOMAIN list : \E n \in DOMAIN whole : at[n] = k
  BY DEF EachOnce
<1> SUFFICES ASSUME NEW n \in DOMAIN whole PROVE whole[n].chain = ChainOf(whole, whole[n].f)
  OBVIOUS
<1> DEFINE f == whole[n].f
           A == {j \in DOMAIN whole : Linked(whole[j].f, f)}
           B == {k \in DOMAIN list : Linked(list[k].f, f)}
           g == [a \in A |-> at[a]]
<1>2. IsFiniteSet(B)
  <2>1. DOMAIN list = 1..Len(list) /\ Len(list) \in Nat BY LenProperties
  <2>2. IsFiniteSet(1..Len(list)) BY <2>1, FS_Interval
  <2>3. B \in SUBSET (1..Len(list)) BY <2>1
  <2> HIDE DEF B
  <2>4. QED BY <2>2, <2>3, FS_Subset
<1>3. g \in [A -> B] BY <1>1
<1>4. \A a, b \in A : g[a] = g[b] => a = b BY <1>1
<1>5. \A b \in B : \E a \in A : g[a] = b
  <2> SUFFICES ASSUME NEW b \in B PROVE \E a \in A : g[a] = b OBVIOUS
  <2>1. PICK a \in DOMAIN whole : at[a] = b BY <1>1
  <2>2. whole[a] = list[b] BY <1>1, <2>1
  <2>3. a \in A BY <2>2
  <2>4. QED BY <2>1, <2>3
<1>6. Cardinality(A) = Cardinality(B)
  <2> HIDE DEF A, B, g
  <2>1. QED BY <1>2, <1>3, <1>4, <1>5, CountedThrough
<1>7. {whole[j].f.rule : j \in A} = {list[k].f.rule : k \in B}
  <2>1. \A j \in A : at[j] \in B /\ whole[j].f.rule = list[at[j]].f.rule BY <1>1
  <2>2. \A k \in B : \E j \in A : at[j] = k BY <1>5
  <2> HIDE DEF A, B
  <2>3. QED BY <2>1, <2>2
<1>8. whole[n].chain = ChainOf(list, f)
  <2>1. at[n] \in DOMAIN list /\ whole[n] = list[at[n]] BY <1>1
  <2>2. QED BY <2>1
<1>9. ChainOf(list, f) = IF Cardinality(B) < 2 THEN NoChain
                         ELSE [size |-> Cardinality(B), rules |-> {list[k].f.rule : k \in B}]
  BY DEF ChainOf
<1>10. ChainOf(whole, f) = IF Cardinality(A) < 2 THEN NoChain
                           ELSE [size |-> Cardinality(A), rules |-> {whole[j].f.rule : j \in A}]
  BY DEF ChainOf
<1> HIDE DEF f, A, B
<1>11. ChainOf(whole, f) = ChainOf(list, f) BY <1>6, <1>7, <1>9, <1>10
<1>12. QED BY <1>8, <1>11 DEF f


\* After the collection nothing arrives.
LEMMA NothingArrives ==
  ASSUME arrived' = arrived, batch' = batch, waiting' = waiting, LaterInv
  PROVE  /\ ArrivedIsBatches' /\ Facts' = Facts
         /\ \A s \in Scanners : batch'[s] \in Batches[s]
BY DEF LaterInv, ArrivedIsBatches, Facts

\* The exempted rows leave the count, and no chain breaks over them.
LEMMA ExemptIsSound ==
  ASSUME LaterInv, Exempt
  PROVE  /\ rows' \in Seq(ReportRows) /\ exempted' \in Seq(ReportRows)
         /\ Len(rows') + Len(exempted') = Len(rows)
         /\ RepresentativeIsStable' /\ ChainsAreComplete'
<1> DEFINE P == {i \in DOMAIN rows : IsExempted(rows[i])}
           Q == {i \in DOMAIN rows : IsReported(rows[i])}
<1>1. /\ step = "exempt" /\ exempted' = Picked(rows, P) /\ rows' = Picked(rows, Q)
      /\ batch' = batch /\ step' = "done"
  BY DEF Exempt, RowsThat
<1>2. rows \in Seq(ReportRows) /\ ChainsAreDrawn /\ RepresentativeIsStable
  BY <1>1 DEF LaterInv
<1>3. P \cup Q = DOMAIN rows /\ P \cap Q = {} BY DEF IsExempted, IsReported
<1>4. P \subseteq DOMAIN rows /\ Q \subseteq DOMAIN rows OBVIOUS
<1> HIDE DEF P, Q
<1> DEFINE whole == Picked(rows, Q) \o Picked(rows, P)
<1>5. whole \in Seq(ReportRows) /\ Len(whole) = Len(rows) /\ EachOnce(whole, rows, DOMAIN rows)
  BY <1>2, <1>3, Rearranged
<1>6. exempted' \in Seq(ReportRows) BY <1>1, <1>2, <1>4, FilterKeeps
<1>7. rows' \in Seq(ReportRows) /\ \A n \in DOMAIN rows' : \E k \in Q : rows'[n] = rows[k]
  BY <1>1, <1>2, <1>4, FilterKeeps
<1>8. whole = rows' \o exempted' BY <1>1
<1>9. Len(rows') + Len(exempted') = Len(rows)
  <2>1. Len(rows' \o exempted') = Len(rows') + Len(exempted') BY <1>6, <1>7, ConcatProperties
  <2>2. QED BY <1>5, <1>8, <2>1
<1>10. RepresentativeIsStable'
  <2>1. \A n \in DOMAIN rows' : \E k \in DOMAIN rows : rows'[n].f = rows[k].f BY <1>4, <1>7
  <2>2. QED BY <1>1, <1>2, <2>1, StableIsKept
<1>11. ChainsAreComplete'
  <2>1. \A i \in DOMAIN rows : rows[i].chain = ChainOf(rows, rows[i].f) BY <1>2 DEF ChainsAreDrawn
  <2> HIDE DEF whole
  <2>2. \A n \in DOMAIN whole : whole[n].chain = ChainOf(whole, whole[n].f)
    BY <1>2, <1>5, <2>1, ChainsSurvive
  <2>3. QED BY <1>8, <2>2 DEF ChainsAreComplete
<1>12. QED BY <1>6, <1>7, <1>9, <1>10, <1>11

LEMMA LaterInit == Init => LaterInv
<1> SUFFICES ASSUME Init PROVE LaterInv OBVIOUS
<1>1. \A s \in Scanners : batch[s] \in Batches[s] BY DEF Init
<1>2. rows = <<>> /\ exempted = <<>> /\ arrived = <<>> /\ waiting = Scanners /\ step = "collect"
      /\ tierExcluded = 0 /\ suppressed = 0
  BY DEF Init
<1>3. ArrivedIsBatches
  <2> DEFINE at == [s \in Scanners |-> 0]
  <2>1. at \in [Scanners -> 0..Len(arrived)] BY <1>2
  <2>2. DOMAIN arrived = {} /\ Scanners \ waiting = {} BY <1>2
  <2> HIDE DEF at
  <2>3. QED BY <2>1, <2>2 DEF ArrivedIsBatches
<1>4. DOMAIN rows = {} /\ rows \in Seq(ReportRows) /\ exempted \in Seq(ReportRows) BY <1>2
<1>5. RowsAreBest BY <1>4 DEF RowsAreBest
<1>6. RepresentativeIsStable /\ Accounted /\ ChainsAreComplete
  BY <1>2 DEF RepresentativeIsStable, Accounted, ChainsAreComplete
<1>7. QED BY <1>1, <1>2, <1>3, <1>4, <1>5, <1>6 DEF LaterInv

\* Every step from the first batch to the report keeps the facts, the reports that
\* stand for them, and their chains.
LEMMA LaterNext == Inv /\ LaterInv /\ [Next]_vars => LaterInv'
<1> SUFFICES ASSUME Inv, LaterInv, [Next]_vars PROVE LaterInv' OBVIOUS
<1>0. Inv' BY NextInv
<1>1. Rows \subseteq ReportRows BY DEF Rows, ReportRows
<1>2. ASSUME NEW s \in Scanners, Add(s) PROVE LaterInv'
  <2>1. ArrivedIsBatches' BY <1>2, BatchIsPlaced
  <2>2. /\ step = "collect" /\ step' = "collect" /\ batch' = batch /\ rows' = rows /\ exempted' = exempted
        /\ tierExcluded' = tierExcluded /\ suppressed' = suppressed
    BY <1>2 DEF Add
  <2>3. rows' = <<>> BY <2>2 DEF Inv
  <2>4. RowsAreBest' BY <2>3 DEF RowsAreBest
  <2>5. RepresentativeIsStable' /\ Accounted' /\ ChainsAreComplete'
    BY <2>2 DEF RepresentativeIsStable, Accounted, ChainsAreComplete
  <2>6. QED BY <2>1, <2>2, <2>4, <2>5 DEF LaterInv
<1>3. CASE CollectAll
  <2>1. /\ step = "collect" /\ step' = "dedup" /\ waiting = {} /\ waiting' = waiting /\ arrived' = arrived
        /\ batch' = batch /\ rows' = rows /\ exempted' = exempted
        /\ tierExcluded' = tierExcluded /\ suppressed' = suppressed
    BY <1>3 DEF CollectAll
  <2>2. ArrivedIsBatches' /\ \A s \in Scanners : batch'[s] \in Batches[s] BY <2>1, NothingArrives
  <2>3. rows' = <<>> BY <2>1 DEF Inv
  <2>4. RowsAreBest' BY <2>3 DEF RowsAreBest
  <2>5. RepresentativeIsStable' /\ Accounted' /\ ChainsAreComplete'
    BY <2>1 DEF RepresentativeIsStable, Accounted, ChainsAreComplete
  <2>6. QED BY <2>1, <2>2, <2>4, <2>5 DEF LaterInv
<1>4. CASE Dedup
  <2>1. /\ step = "dedup" /\ step' = "dedup" /\ waiting' = waiting /\ arrived' = arrived
        /\ batch' = batch /\ exempted' = exempted
        /\ tierExcluded' = tierExcluded /\ suppressed' = suppressed
    BY <1>4 DEF Dedup
  <2>2. ArrivedIsBatches' /\ \A s \in Scanners : batch'[s] \in Batches[s] BY <2>1, NothingArrives
  <2>3. RowsAreBest' BY <1>4, BestIsKept
  <2>4. rows' \in Seq(Rows) BY <1>0, <2>1 DEF Inv, InvWhileMerging
  <2>5. rows' \in Seq(ReportRows) BY <1>1, <2>4, SeqMonotonic
  <2>6. RepresentativeIsStable' /\ Accounted' /\ ChainsAreComplete'
    BY <2>1 DEF RepresentativeIsStable, Accounted, ChainsAreComplete
  <2>7. QED BY <2>1, <2>2, <2>3, <2>5, <2>6 DEF LaterInv
<1>5. CASE DedupEnds
  <2>1. /\ step = "dedup" /\ next > Len(arrived) /\ step' = "tier" /\ waiting' = waiting
        /\ arrived' = arrived /\ batch' = batch /\ rows' = rows /\ exempted' = exempted
        /\ tierExcluded' = tierExcluded /\ suppressed' = suppressed
    BY <1>5 DEF DedupEnds
  <2>2. /\ ArrivedIsBatches' /\ Facts' = Facts
        /\ \A s \in Scanners : batch'[s] \in Batches[s]
    BY <2>1, NothingArrives
  <2>3. rows \in Seq(Rows) BY <2>1 DEF Inv, InvWhileMerging
  <2>4. RepresentativeIsStable'
    <3>1. \A i \in DOMAIN rows : rows[i].f = Representative(Key(rows[i].f))
      BY <2>1, BestIsRepresentative
    <3>2. QED BY <2>1, <3>1, RepresentativesAreKept
  <2>5. Accounted'
    <3>1. Len(rows) = Cardinality(Facts) /\ Len(rows) \in Nat BY <2>1, RowsAreCounted
    <3>2. exempted = <<>> /\ tierExcluded = 0 /\ suppressed = 0 BY <2>1 DEF LaterInv
    <3>3. Len(exempted) = 0 BY <3>2
    <3>4. QED BY <2>1, <2>2, <3>1, <3>2, <3>3 DEF Accounted
  <2>6. ChainsAreComplete' BY <2>1 DEF ChainsAreComplete
  <2>7. QED BY <2>1, <2>2, <2>3, <2>4, <2>5, <2>6 DEF LaterInv
<1>6. CASE ExcludeTiers
  <2> DEFINE P == {i \in DOMAIN rows : InShownTier(rows[i])}
  <2>1. /\ step = "tier" /\ step' = "allow" /\ waiting' = waiting /\ arrived' = arrived
        /\ batch' = batch /\ rows' = Picked(rows, P) /\ exempted' = exempted
        /\ tierExcluded' = Len(rows) - Len(rows') /\ suppressed' = suppressed
    BY <1>6 DEF ExcludeTiers, RowsThat
  <2>2. P \subseteq DOMAIN rows OBVIOUS
  <2> HIDE DEF P
  <2>3. /\ ArrivedIsBatches' /\ Facts' = Facts
        /\ \A s \in Scanners : batch'[s] \in Batches[s]
    BY <2>1, NothingArrives
  <2>4. /\ rows' \in Seq(Rows) /\ rows' \in Seq(ReportRows)
        /\ Len(rows) \in Nat /\ Len(rows') \in Nat /\ Len(rows) - Len(rows') \in Nat
        /\ RepresentativeIsStable'
    BY <2>1, <2>2, FilterIsSound
  <2>5. Accounted'
    <3>1. Len(rows) + Len(exempted) + tierExcluded + suppressed = Cardinality(Facts)
      BY <2>1 DEF LaterInv, Accounted
    <3>2. exempted = <<>> /\ tierExcluded = 0 /\ suppressed = 0 BY <2>1 DEF LaterInv
    <3>3. Len(exempted) = 0 BY <3>2
    <3>4. Len(rows') + Len(exempted') + tierExcluded' + suppressed' = Cardinality(Facts')
      BY <2>1, <2>3, <2>4, <3>1, <3>2, <3>3
    <3>5. QED BY <3>4 DEF Accounted
  <2>6. ChainsAreComplete' BY <2>1 DEF ChainsAreComplete
  <2>7. QED BY <2>1, <2>3, <2>4, <2>5, <2>6 DEF LaterInv
<1>7. CASE Suppress
  <2> DEFINE P == {i \in DOMAIN rows : Counts(rows[i])}
  <2>1. /\ step = "allow" /\ step' = "chain" /\ waiting' = waiting /\ arrived' = arrived
        /\ batch' = batch /\ rows' = Picked(rows, P) /\ exempted' = exempted
        /\ suppressed' = Len(rows) - Len(rows') /\ tierExcluded' = tierExcluded
    BY <1>7 DEF Suppress, RowsThat
  <2>2. P \subseteq DOMAIN rows OBVIOUS
  <2> HIDE DEF P
  <2>3. /\ ArrivedIsBatches' /\ Facts' = Facts
        /\ \A s \in Scanners : batch'[s] \in Batches[s]
    BY <2>1, NothingArrives
  <2>4. /\ rows' \in Seq(Rows) /\ rows' \in Seq(ReportRows)
        /\ Len(rows) \in Nat /\ Len(rows') \in Nat /\ Len(rows) - Len(rows') \in Nat
        /\ RepresentativeIsStable'
    BY <2>1, <2>2, FilterIsSound
  <2>5. Accounted'
    <3>1. Len(rows) + Len(exempted) + tierExcluded + suppressed = Cardinality(Facts)
      BY <2>1 DEF LaterInv, Accounted
    <3>2. exempted = <<>> /\ suppressed = 0 /\ tierExcluded \in Nat BY <2>1 DEF LaterInv
    <3>3. Len(exempted) = 0 BY <3>2
    <3>4. Len(rows') + Len(exempted') + tierExcluded' + suppressed' = Cardinality(Facts')
      BY <2>1, <2>3, <2>4, <3>1, <3>2, <3>3
    <3>5. QED BY <3>4 DEF Accounted
  <2>6. ChainsAreComplete' BY <2>1 DEF ChainsAreComplete
  <2>7. QED BY <2>1, <2>3, <2>4, <2>5, <2>6 DEF LaterInv
<1>8. CASE Correlate
  <2>1. /\ step = "chain" /\ step' = "exempt" /\ waiting' = waiting /\ arrived' = arrived
        /\ batch' = batch /\ rows' = [i \in DOMAIN rows |-> Chained(rows[i])] /\ exempted' = exempted
        /\ suppressed' = suppressed /\ tierExcluded' = tierExcluded
    BY <1>8 DEF Correlate
  <2>2. /\ ArrivedIsBatches' /\ Facts' = Facts
        /\ \A s \in Scanners : batch'[s] \in Batches[s]
    BY <2>1, NothingArrives
  <2>3. rows \in Seq(Rows) /\ RepresentativeIsStable BY <2>1 DEF LaterInv
  <2>4. /\ rows' \in Seq(ReportRows) /\ Len(rows') = Len(rows)
        /\ \A i \in DOMAIN rows' : i \in DOMAIN rows /\ rows'[i].f = rows[i].f
        /\ ChainsAreDrawn'
    BY <2>1, <2>3, ChainsAreMarked
  <2>5. RepresentativeIsStable'
    <3>1. \A n \in DOMAIN rows' : \E k \in DOMAIN rows : rows'[n].f = rows[k].f BY <2>4
    <3>2. QED BY <2>1, <2>3, <3>1, StableIsKept
  <2>6. Accounted' BY <2>1, <2>2, <2>4 DEF LaterInv, Accounted
  <2>7. ChainsAreComplete' BY <2>1 DEF ChainsAreComplete
  <2>8. QED BY <2>1, <2>2, <2>4, <2>5, <2>6, <2>7 DEF LaterInv
<1>9. CASE Exempt
  <2>1. /\ step = "exempt" /\ step' = "done" /\ waiting' = waiting /\ arrived' = arrived
        /\ batch' = batch /\ suppressed' = suppressed /\ tierExcluded' = tierExcluded
    BY <1>9 DEF Exempt
  <2>2. /\ ArrivedIsBatches' /\ Facts' = Facts
        /\ \A s \in Scanners : batch'[s] \in Batches[s]
    BY <2>1, NothingArrives
  <2>3. /\ rows' \in Seq(ReportRows) /\ exempted' \in Seq(ReportRows)
        /\ Len(rows') + Len(exempted') = Len(rows)
        /\ RepresentativeIsStable' /\ ChainsAreComplete'
    BY <1>9, ExemptIsSound
  <2>4. Accounted'
    <3>1. Len(rows) + Len(exempted) + tierExcluded + suppressed = Cardinality(Facts)
      BY <2>1 DEF LaterInv, Accounted
    <3>2. exempted = <<>> BY <2>1 DEF LaterInv
    <3>3. Len(exempted) = 0 BY <3>2
    <3>4. Len(rows') \in Nat /\ Len(exempted') \in Nat /\ tierExcluded \in Nat /\ suppressed \in Nat
      BY <2>3, LenProperties DEF LaterInv
    <3>5. Len(rows') + Len(exempted') + tierExcluded' + suppressed' = Cardinality(Facts')
      BY <2>1, <2>2, <2>3, <3>1, <3>3, <3>4
    <3>6. QED BY <3>5 DEF Accounted
  <2>5. QED BY <2>1, <2>2, <2>3, <2>4 DEF LaterInv
<1>10. CASE UNCHANGED vars
  <2>1. /\ step' = step /\ next' = next /\ waiting' = waiting /\ arrived' = arrived
        /\ batch' = batch /\ rows' = rows /\ exempted' = exempted
        /\ suppressed' = suppressed /\ tierExcluded' = tierExcluded
    BY <1>10 DEF vars
  <2>2. /\ ArrivedIsBatches' /\ Facts' = Facts
        /\ \A s \in Scanners : batch'[s] \in Batches[s]
    BY <2>1, NothingArrives
  <2>3. RowsAreBest => RowsAreBest' BY <2>1 DEF RowsAreBest, IsBest
  <2>4. RepresentativeIsStable'
    <3>1. CASE step \in {"collect", "dedup"} BY <2>1, <3>1 DEF RepresentativeIsStable
    <3>2. CASE step \notin {"collect", "dedup"} BY <2>1, <3>2, StableIsKept DEF LaterInv
    <3>3. QED BY <3>1, <3>2
  <2>5. Accounted' BY <2>1, <2>2 DEF LaterInv, Accounted
  <2>6. (ChainsAreDrawn => ChainsAreDrawn') /\ ChainsAreComplete'
    BY <2>1, ChainsStay DEF LaterInv
  <2>7. QED BY <2>1, <2>2, <2>3, <2>4, <2>5, <2>6 DEF LaterInv
<1>11. QED
  BY <1>2, <1>3, <1>4, <1>5, <1>6, <1>7, <1>8, <1>9, <1>10 DEF Next

\* What holds throughout a run of the pipeline over any batches.
LEMMA FindingsInvariance == Spec => [](Inv /\ LaterInv)
<1>1. Init => Inv /\ LaterInv BY InitInv, LaterInit
<1>2. Inv /\ LaterInv /\ [Next]_vars => (Inv /\ LaterInv)' BY NextInv, LaterNext
<1>3. QED BY <1>1, <1>2, PTL DEF Spec

\* The model of the post-processing is type correct, marks included.
THEOREM FindingsTypeCorrect == Spec => []FindingsTypeOK
<1>1. Inv /\ LaterInv => FindingsTypeOK
  <2> SUFFICES ASSUME Inv, LaterInv PROVE FindingsTypeOK OBVIOUS
  <2>1. Len(arrived) \in Nat BY LenProperties DEF Inv
  <2>2. next \in 1..Len(arrived) + 1 BY <2>1 DEF Inv
  <2>3. QED BY <2>2 DEF Inv, LaterInv, FindingsTypeOK
<1>2. QED BY <1>1, FindingsInvariance, PTL

\* Which of the reports of a fact the user sees does not depend on which scanner
\* was faster, for any batches in which each scanner reports of its own kind.
THEOREM RepresentativesAreStable == Spec => []RepresentativeIsStable
<1>1. LaterInv => RepresentativeIsStable BY DEF LaterInv
<1>2. QED BY <1>1, FindingsInvariance, PTL

\* The four counts of a report add up to the facts that the scanners reported.
THEOREM FactsAreAccounted == Spec => []EveryFactIsAccounted
<1>1. LaterInv => EveryFactIsAccounted BY DEF LaterInv, Accounted, EveryFactIsAccounted, Facts
<1>2. QED BY <1>1, FindingsInvariance, PTL

\* A chain in the report is of the findings in the report, exempted ones included,
\* and of all of them.
THEOREM ChainsAreWhole == Spec => []ChainsAreComplete
<1>1. LaterInv => ChainsAreComplete BY DEF LaterInv
<1>2. QED BY <1>1, FindingsInvariance, PTL

===============================================================================
