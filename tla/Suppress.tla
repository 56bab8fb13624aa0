-------------------------------- MODULE Suppress --------------------------------
(***************************************************************************)
(* Inline suppression comments.  A line of text is a sequence of words, of *)
(* which the package tells apart those that start a comment, the markers,  *)
(* the words that end the list of identifiers after a marker (prose, a     *)
(* quote, a parenthesis, "--"), and all others, which it reads as          *)
(* identifiers.                                                            *)
(***************************************************************************)
EXTENDS Integers, Sequences, SequencesExt

Markers == {"zerostrike-ignore", "zs-ignore", "nosemgrep", "nosec", "noqa"}
CommentStarters == {"#", "//", "/*", "--", "<!--"}
Stops == {"--", "-", "prose"}

\* The words of a line from its first comment starter on; none without one.
CommentPart(words) ==
  LET n == SelectInSeq(words, LAMBDA w : w \in CommentStarters)
  IN  IF n = 0 THEN <<>> ELSE SubSeq(words, n, Len(words))

ParseIDs(rest) ==
  LET n == SelectInSeq(rest, LAMBDA w : w \in Stops)
  IN  ToSet(IF n = 0 THEN rest ELSE SubSeq(rest, 1, n - 1))

\* A marker with nothing after it silences every rule, one with identifiers
\* those rules only; each marker counts where it first stands.
LineSuppresses(words, rule) ==
  LET comment == CommentPart(words) IN
  \E m \in Markers \cap ToSet(comment) :
    LET ids == ParseIDs(SubSeq(comment, SelectInSeq(comment, LAMBDA w : w = m) + 1, Len(comment)))
    IN  ids = {} \/ rule \in ids

\* Mutant of Suppressed: the lines of the finding, and not the one above.
SuppressedOnItsLines(lines, first, last, rule) ==
  \E n \in first..last : n \in DOMAIN lines /\ LineSuppresses(lines[n], rule)

\* The line above a finding, and every line of it.
Suppressed(lines, first, last, rule) ==
  first > 0 /\ \E n \in first - 1..IF last < first THEN first ELSE last :
    n \in DOMAIN lines /\ LineSuppresses(lines[n], rule)
==============================================================================
