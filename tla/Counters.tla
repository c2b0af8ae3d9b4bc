------------------------------ MODULE Counters ------------------------------
(* Page counters that are read now and then (api/src/common/counter.util.ts)*)
(* as operators on sequences of readings.                                   *)
EXTENDS Integers, Sequences, SequencesExt

\* The rows of s at the positions in I, and the sum of numbers.
Chosen(s, I) ==
  LET upto[i \in 0 .. Len(s)] ==
        IF i = 0 THEN <<>> ELSE IF i \in I THEN Append(upto[i - 1], s[i]) ELSE upto[i - 1]
  IN upto[Len(s)]
Total(h) ==
  LET upto[i \in 0 .. Len(h)] == IF i = 0 THEN 0 ELSE upto[i - 1] + h[i]
  IN upto[Len(h)]

\* filterTransientDropoutsBy: a reading below the last one kept is skipped
\* when a later one climbs back to that level.
Filtered(s, counter) ==
  LET Recovers(i, level) == \E j \in (i + 1) .. Len(s) : s[j][counter] >= level
      kept[i \in 0 .. Len(s)] ==
        IF i = 0 THEN <<>>
        ELSE IF /\ i > 1
                /\ s[i][counter] < Last(kept[i - 1])[counter]
                /\ Recovers(i, Last(kept[i - 1])[counter])
             THEN kept[i - 1] ELSE Append(kept[i - 1], s[i])
  IN kept[Len(s)]

\* sumWithResetHandling and bucketDeltas: after a drop the reading itself is
\* what was counted since.
Hop(a, b) == IF b >= a THEN b - a ELSE b
=============================================================================
