--------------------------- MODULE MCContactPaging ---------------------------
(* Instances of ContactPaging: five users or rooms, of whom the key matches   *)
(* any in the database, and some among the habits by one or two criteria.    *)
EXTENDS ContactPaging, TLC

CONSTANTS a, b, c, d, e

People == {a, b, c, d, e}
Sorted == <<a, b, c, d, e>>
LastChanged == <<d, b, e, a, c>>
OftenSpokenTo == <<b>>
Hired == {a, b, c}

\* The searcher is in all rooms but e; the members that match joined b last.
InRooms == (a :> 1) @@ (b :> 3) @@ (c :> 5) @@ (d :> 7) @@ (e :> 0)
MembersIn == (a :> 4) @@ (b :> 8) @@ (c :> 2) @@ (d :> 6) @@ (e :> 10)

UsersBy(matching, names) ==
  [form |-> "user", origin |-> TRUE, common |-> TRUE, words |-> TRUE,
   matching |-> matching, names |-> names, members |-> {}]
RoomsBy(origin, common, words, matching, names, members) ==
  [form |-> "muc", origin |-> origin, common |-> common, words |-> words,
   matching |-> matching, names |-> names, members |-> members]

UserSearches ==
  {UsersBy(matching, names) : matching \in {<<{}>>, <<{a, b}>>, <<{b}, {a, b}>>, <<{c, a}, {b}>>},
                              names \in SUBSET {b, c, d, e}}
RoomSearches ==
  {RoomsBy(TRUE, TRUE, TRUE, matching, {b, c, e}, members) :
     matching \in {<<{}>>, <<{b}, {b, c}>>}, members \in {{}, {a, d}, {b, d, e}}}
  \cup {RoomsBy(FALSE, TRUE, TRUE, <<{b, c}>>, {b, c}, {a, c, d, e}),
        RoomsBy(FALSE, TRUE, FALSE, <<{b, c}>>, {b, c}, {a, d}),
        RoomsBy(TRUE, FALSE, TRUE, <<{b}>>, {b, c, d, e}, {a})}
AnySearches == UserSearches \cup RoomSearches

Concurrent == Permutations(Request)
=============================================================================
