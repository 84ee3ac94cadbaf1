--------------------------- MODULE MCSearchRequest ---------------------------
(* Instances of SearchRequest: every action, and every way to give none.     *)
EXTENDS SearchRequest

Requests ==
  [action : 0..63, group : {None}, platform : {FALSE}, short : {FALSE}]
  \cup [action : {None}, group : Groups \cup {None}, platform : BOOLEAN, short : {FALSE}]
  \cup [action : {0, 2, None}, group : {None, "Q07"}, platform : BOOLEAN, short : {TRUE}]
=============================================================================
