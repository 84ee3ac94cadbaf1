----------------------------- MODULE AnswerList -----------------------------
(***************************************************************************)
(* What the statements and the code make of the rows of an answer: a list   *)
(* in the order of a time, and the part of it that a page shows.            *)
(***************************************************************************)
EXTENDS Integers, Sequences, FiniteSets, SequencesExt

\* OFFSET start LIMIT count, or list[start:start + count] in Python: at most
\* `count` entries from offset `start` on, counted from 0.
Slice(list, start, count) == SubSeq(list, start + 1, Min({start + count, Len(list)}))

\* ORDER BY ... DESC of rows whose times differ.
Later(rows, Times, r) == {q \in rows : Times[q] > Times[r]}
Ranked(rows, Times) ==
  [n \in 1..Cardinality(rows) |-> CHOOSE r \in rows : Cardinality(Later(rows, Times, r)) = n - 1]
=============================================================================
