------------------------------ MODULE RedisList ------------------------------
(***************************************************************************)
(* The commands service/cache/cache.py sends to a Redis list key, as        *)
(* operators on the list's value.  A key that does not exist has the empty  *)
(* list.  Index 1 is the head of the list, the side LPUSH pushes to.        *)
(***************************************************************************)
EXTENDS Integers, Sequences, SequencesExt

\* LPUSH key v1 ... vn: every value goes to the head in turn.
LPush(list, values) == Reverse(values) \o list

\* LTRIM key 0 size-1: keep the `size` values nearest the head.
LTrim(list, size) ==
  SubSeq(list, 1, IF Len(list) < size THEN Len(list) ELSE size)

\* What one LPUSH(*contacts[::-1], value) onto the deleted key leaves, when
\* contacts is the list read before, value removed from it.
MoveToFront(contacts, value) ==
  LPush(<<>>, Append(Reverse(RemoveFirst(contacts, value)), value))
=============================================================================
