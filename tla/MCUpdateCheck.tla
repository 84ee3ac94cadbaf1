---------------------------- MODULE MCUpdateCheck ----------------------------
(* An instance of UpdateCheck. *)
EXTENDS UpdateCheck

CONSTANTS u, a, b, u1, u2, a1, b2, b3, w1, w2, c

Names == {u, a, b}
Contents == {u1, u2, a1, b2, b3}
TwoWorkers == {w1, w2}
OneClient == {c}

Holding(uc, ac, bc) == [f \in Names |-> CASE f = u -> uc [] f = a -> ac [] f = b -> bc]

\* The second product release replaces a file, removes one and adds one; the
\* testers' only release lacks a file of the first and shares none with the second.
ReleasesOf ==
  [h \in Channel |-> IF h = "product"
                     THEN <<Holding(u1, a1, Absent), Holding(u2, Absent, b2)>>
                     ELSE <<Holding(u1, Absent, b3)>>]

Installed == {Nothing, Holding(u1, Absent, Absent)}

Says(user, channel, platform) ==
  [user |-> user, channel |-> channel, platform |-> platform, lists |-> TRUE, via |-> "public"]
Plain == Says("plain", "product", "served")
Users ==
  {Plain, Says("white", "product", "served"),
   Says("plain", "none", "served"), Says("black", "product", "linux"),
   Says("plain", "other", "served"), Says("plain", "product", "unknown"),
   [Plain EXCEPT !.lists = FALSE], [Plain EXCEPT !.via = "other"]}
=============================================================================
