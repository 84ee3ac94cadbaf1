--------------------------- MODULE MCMessageIndex ---------------------------
(* Small instances of MessageIndex. *)
EXTENDS MessageIndex

CONSTANTS m1, m2, p1, p2, w1, w2

OneMessage == {m1}
TwoMessages == {m1, m2}
Months == {3, 4}

\* m1 has two pictures and an extendInfo; m2 has no text, and is revoked in
\* the month after.
Shapes ==
  [m \in TwoMessages |->
     IF m = m1
     THEN [body |-> "text", tag |-> "bulk", objects |-> 2, form |-> "dict", extends |-> 1,
           month |-> 3, revokeMonth |-> 3]
     ELSE [body |-> "empty", tag |-> "none", objects |-> 0, form |-> "none", extends |-> 0,
           month |-> 3, revokeMonth |-> 4]]
\* One file with a list of two extendInfo items.
File ==
  [m \in OneMessage |->
     [body |-> "text", tag |-> "dict", objects |-> 1, form |-> "list", extends |-> 2,
      month |-> 3, revokeMonth |-> 3]]

OnePartition == {p1}
TwoPartitions == {p1, p2}
OneWorker == {w1}
TwoWorkers == {w1, w2}
AllToOne == [p \in OnePartition |-> w1]
EachItsOwn == [p \in TwoPartitions |-> IF p = p1 THEN w1 ELSE w2]
InP1 == [m \in TwoMessages |-> p1]
ChatInP1 == [m \in OneMessage |-> p1]
RevokeInP2 == [m \in OneMessage |-> p2]
=============================================================================
