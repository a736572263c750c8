----------------------------- MODULE Timestamps -----------------------------
(* The hybrid timestamps of tso.go: milliseconds and a logical counter. *)
EXTENDS Naturals

CONSTANT MaxLogical  \* MAX_LOGICAL

\* Reset
Reset(physical) == [physical |-> physical, logical |-> 0]

\* Incr
Incr(ts) == [ts EXCEPT !.logical = @ + 1]

\* ExceedLogicalMax
\* (Late is a mutant: the comparison is off by one.)
ExceedLogicalMaxLate(ts) == ts.logical > MaxLogical + 1
ExceedLogicalMax(ts) == ts.logical > MaxLogical

\* Compose: (physical << LOGICAL_BITS) | logical.  The carry of a counter beyond
\* MaxLogical is or-ed onto the lowest bit of physical.
Compose(ts) ==
  LET span == MaxLogical + 1
  IN  IF ts.logical <= MaxLogical THEN ts.physical * span + ts.logical
      ELSE (IF ts.physical % 2 = 0 THEN ts.physical + 1 ELSE ts.physical) * span
             + (ts.logical - span)
=============================================================================
