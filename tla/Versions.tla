-------------------------------- MODULE Versions --------------------------------
(***************************************************************************)
(* How the OSV client orders versions, and the affected range it displays  *)
(* for an advisory.                                                        *)
(*                                                                         *)
(* A version is what versionTokens leaves of it: a sequence of runs of     *)
(* digits, as numbers without bound (runs are compared by length and then  *)
(* text, never parsed), and of runs of letters, as their place in the      *)
(* case-blind alphabetical order.  The empty sequence is the empty string. *)
(***************************************************************************)
EXTENDS Integers, SequencesExt

Num(n) == [digits |-> TRUE, rank |-> n]
Tag(n) == [digits |-> FALSE, rank |-> n]
Tokens == [digits : BOOLEAN, rank : Nat]

AllVersions == Seq(Tokens)
NoVersion == <<>>
Zero == <<Num(0)>>

\* compareToken: a number outranks a pre-release tag at the same position.
CompareToken(a, b) ==
  IF a.digits # b.digits THEN (IF a.digits THEN 1 ELSE -1)
  ELSE IF a.rank = b.rank THEN 0
  ELSE IF a.rank < b.rank THEN -1 ELSE 1

\* a and b agree on their first n runs.
Agree(a, b, n) == \A i \in 1..n : CompareToken(a[i], b[i]) = 0

\* The sign of a longer version against its own prefix of n runs: a further
\* number is a later patch, further letters a pre-release.
TailSign(a, n) == IF a[n + 1].digits THEN 1 ELSE -1

CompareVersions(a, b) ==
  LET shared == IF Len(a) < Len(b) THEN Len(a) ELSE Len(b) IN
  IF Agree(a, b, shared)
  THEN IF Len(a) = Len(b) THEN 0
       ELSE IF Len(a) > Len(b) THEN TailSign(a, Len(b)) ELSE -TailSign(b, Len(a))
  ELSE LET i == CHOOSE i \in 1..shared :
                  CompareToken(a[i], b[i]) # 0 /\ Agree(a, b, i - 1)
       IN  CompareToken(a[i], b[i])

------------------------------------------------------------------------------
(* Affected ranges: each a sequence of events [introduced, fixed, last], at    *)
(* most one of the three set.                                                 *)

VersionInRange(v, i) ==
  /\ i.intro \in {NoVersion, Zero} \/ CompareVersions(v, i.intro) >= 0
  /\ IF i.fixed # NoVersion THEN CompareVersions(v, i.fixed) < 0
     ELSE i.last = NoVersion \/ CompareVersions(v, i.last) <= 0

\* describeRange, with what it prints in place of the text.
DescribeRange(i) ==
  [from  |-> IF i.intro = Zero THEN NoVersion ELSE i.intro,
   below |-> i.fixed,
   upTo  |-> IF i.fixed = NoVersion THEN i.last ELSE NoVersion]

NoRange == [from |-> NoVersion, below |-> NoVersion, upTo |-> NoVersion]

Events == [introduced : AllVersions, fixed : AllVersions, last : AllVersions]

IsAnArray(s) == Len(s) \in Nat /\ DOMAIN s = 1..Len(s)

\* The affected entries of a body, as they are decoded.
AreAffected(affected) ==
  /\ IsAnArray(affected)
  /\ \A a \in DOMAIN affected :
       /\ IsAnArray(affected[a].ranges)
       /\ \A r \in DOMAIN affected[a].ranges : affected[a].ranges[r].events \in Seq(Events)

Closes(ev) == ev.introduced = NoVersion /\ (ev.fixed # NoVersion \/ ev.last # NoVersion)

\* The version introduced last before event n, if no interval has been closed
\* since.
Intro(events, n) ==
  LET opening == {m \in 1..(n - 1) : events[m].introduced # NoVersion
                                     /\ \A k \in m..(n - 1) : ~Closes(events[k])}
  IN  IF opening = {} THEN NoVersion
      ELSE events[CHOOSE m \in opening : \A k \in opening : k <= m].introduced

\* Where an interval of a range ends: at an event that closes it, or after the
\* last one for an interval still open.
Ends(events) ==
  {n \in DOMAIN events : Closes(events[n])}
    \cup {n \in {Len(events) + 1} : Intro(events, n) # NoVersion}

IntervalTo(events, n) ==
  [intro |-> Intro(events, n),
   fixed |-> IF n \in DOMAIN events THEN events[n].fixed ELSE NoVersion,
   last  |-> IF n \in DOMAIN events THEN events[n].last ELSE NoVersion]

\* The three nested loops of extractRanges, over the affected packages that are
\* the dependency's own, their ranges that are not commit ranges, and the ends of
\* their intervals: each interval with the place the loops come to it; and the
\* first of a set of intervals.
Intervals(affected, own) ==
  UNION {UNION {{[at |-> <<a, r, n>>, bounds |-> IntervalTo(affected[a].ranges[r].events, n)] :
                   n \in Ends(affected[a].ranges[r].events)} :
                 r \in {r \in DOMAIN affected[a].ranges : ~affected[a].ranges[r].git}} : a \in own}

Precedes(p, q) ==
  \/ p[1] < q[1]
  \/ p[1] = q[1] /\ p[2] < q[2]
  \/ p[1] = q[1] /\ p[2] = q[2] /\ p[3] <= q[3]
FirstInterval(S) == CHOOSE i \in S : \A j \in S : Precedes(i.at, j.at)

\* extractRanges: the first interval that brackets the version, else the first
\* that has a description.
ExtractRange(affected, own, version) ==
  LET all == Intervals(affected, own)
      bracketing == {i \in all : version # NoVersion /\ VersionInRange(version, i.bounds)}
      described == {i \in all : DescribeRange(i.bounds) # NoRange}
  IN  IF bracketing # {} THEN DescribeRange(FirstInterval(bracketing).bounds)
      ELSE IF described # {} THEN DescribeRange(FirstInterval(described).bounds)
      ELSE NoRange
==============================================================================
