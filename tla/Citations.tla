------------------------------ MODULE Citations ------------------------------
(***************************************************************************)
(* The citations of an answer, resolved from the markers in its text.  The *)
(* text arrives in deltas that cut anywhere: it is the sequence of its     *)
(* pieces, where Open and Close are the brackets of a marker and any other *)
(* piece is a number.                                                      *)
(***************************************************************************)
EXTENDS Integers, Sequences, SequencesExt, FiniteSetsExt

Open == -1
Close == -2

\* A complete marker is around the i-th piece, a number.
Marked(pieces, i) ==
  i \in 2 .. Len(pieces) - 1 /\ pieces[i - 1] = Open /\ pieces[i] > 0 /\ pieces[i + 1] = Close

\* The numbers of the complete markers in a text, in the order they appear.
Numbers(pieces) ==
  FoldLeft(LAMBDA found, i : IF Marked(pieces, i) THEN Append(found, pieces[i]) ELSE found,
           <<>>, [i \in 1 .. Len(pieces) |-> i])

Cite(s, n) == [number |-> n, source |-> s[n]]

\* Unknown numbers and repetitions are dropped, the order of first mention stays.
ResolveAll(s, numbers) ==
  FoldLeft(LAMBDA done, n : IF n \in DOMAIN s THEN Append(done, Cite(s, n)) ELSE done, <<>>, numbers)
Resolve(s, numbers) ==
  FoldLeft(LAMBDA done, n : IF n \in DOMAIN s /\ \A i \in DOMAIN done : done[i].number # n
                              THEN Append(done, Cite(s, n)) ELSE done,
           <<>>, numbers)
=============================================================================
