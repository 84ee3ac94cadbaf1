-------------------------- MODULE MCRecentContacts --------------------------
(* Small instances of RecentContacts. *)
EXTENDS RecentContacts

CONSTANTS a, b, c, x, r, q

Users == {a, b, c, x}
Rooms == {r, q}
NoRooms == {}
\* x lives on a host this deployment does not serve.
Hosts == [id \in Users \cup Rooms |-> IF id = x THEN "remote" ELSE "local"]
LocalOnly == {"local"}

Chat(u, v) == [kind |-> "chat", from |-> u, to |-> v]
Group(u, us, m) == [kind |-> "groupchat", from |-> u, users |-> us, room |-> m]
Skipped == [kind |-> "skipped", topic |-> "single"]
Garbled == [kind |-> "undecodable", topic |-> "single"]
GarbledGroup == [kind |-> "undecodable", topic |-> "muc"]

\* Two correspondents and the user itself compete for a's list of two.
ChatEvents == {Chat(a, b), Chat(c, a), Chat(a, a), Chat(x, a), Garbled}

\* Two rooms compete for a's list, beside a chat in the other topic.
RoomEvents == {Group(a, <<a, b>>, r), Group(b, <<a>>, q), Chat(a, b), Skipped, GarbledGroup}
=============================================================================
