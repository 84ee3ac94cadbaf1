---------------------------- MODULE HistoryPaging ----------------------------
(***************************************************************************)
(* The history search without Elasticsearch (if_es = False, as shipped): a  *)
(* page is made of the conversations with single users and the rooms in     *)
(* which the key occurs, each with its newest match and the number of       *)
(* matches; or of the matches in one conversation (to_user) or room         *)
(* (to_muc); or of files (service/search/lookback.py, lookback_sql.py, and   *)
(* history_user, history_muc, history_file and handle_sql_result of         *)
(* utils/common_sql.py).                                                   *)
(*                                                                         *)
(* Only messages that match the key and files are modelled.  The position   *)
(* of one in `log` is its time, and orders the ids of its table as well.     *)
(***************************************************************************)
EXTENDS AnswerList

CONSTANTS
  Peer,        \* users the searcher exchanged messages with
  Room,        \* rooms the searcher is in
  Anyone,      \* no to_user or to_muc
  Searcher,    \* the user who searches
  Part,        \* the pieces of user ids between '_'
  Parts,       \* Parts[u]: the id of a user, name@host, split at '_'
  Message,     \* what may be said, see MessageType
  Asked,       \* what a client may ask for, see RequestType
  Limit,       \* the length it asks for
  MaxMessages  \* bound: messages

\* kind: a text with the key in it, a file with the key in its name, which is a
\* text with the key in it as well, or a file with another name.
MessageType ==
  [side : {"single"}, with : Peer, way : {"sent", "received"}, kind : {"text", "named", "other"}]
  \cup [side : {"muc"}, with : Room, way : {"received"}, kind : {"text", "named", "other"}]
\* Files are searched for in a task of their own.
RequestType ==
  [sides : (SUBSET {"single", "muc"}) \ {{}}, with : {Anyone}]
  \cup [sides : {{"single"}}, with : Peer] \cup [sides : {{"muc"}}, with : Room]
  \cup [sides : {{"file"}}, with : {Anyone}]

ASSUME NamesAssumption == Anyone \notin Peer \cup Room /\ Peer \cap Room = {}
\* A host has no '_', so the piece with the '@' in it is the last.
ASSUME PartsAssumption ==
  /\ Searcher \notin Peer
  /\ Parts \in [Peer \cup {Searcher} -> Seq(Part) \ {<<>>}] /\ IsInjective(Parts)
  /\ \A u, v \in Peer \cup {Searcher} : \A i \in 1..(Len(Parts[u]) - 1) :
       Parts[u][i] # Parts[v][Len(Parts[v])]
ASSUME AskedAssumption == Message \subseteq MessageType /\ Asked \subseteq RequestType
ASSUME BoundAssumption == Limit \in Nat \ {0} /\ MaxMessages \in Nat

VARIABLES
  log,   \* the messages, oldest first
  walk   \* the pages a client has been shown, and whether nothing disturbed them

vars == <<log, walk>>

-----------------------------------------------------------------------------
(* The rows of the two statements                                          *)

Newest(hits) == Ranked(hits, [h \in hits |-> h.time])
Oldest(hits) == Reverse(Newest(hits))

\* The rows a key matches, by table.
Hits(side) == {t \in DOMAIN log : log[t].side = side /\ log[t].kind # "other"}

Row(t, count) == [side |-> log[t].side, with |-> log[t].with, time |-> t, count |-> count]

\* One group per conversation and direction, or per room: its newest message
\* and how many there are.
Groups(side) ==
  LET Same(t) == {s \in Hits(side) : log[s].with = log[t].with /\ log[s].way = log[t].way}
  IN {Row(Max(Same(t)), Cardinality(Same(t))) : t \in Hits(side)}

\* GROUP BY ... ORDER BY id DESC OFFSET ... LIMIT ...
Rows(side, offset, limit) == Slice(Newest(Groups(side)), offset, limit)

\* The conversation of a row is '<from>_<to>'.
Conversation(h) ==
  LET m == log[h.time]
  IN IF m.way = "sent" THEN Parts[Searcher] \o Parts[m.with] ELSE Parts[m.with] \o Parts[Searcher]

\* What handle_sql_result takes for its two users: the first two pieces of it.
Pair(h) == {Conversation(h)[1], Conversation(h)[2]}

SamePair(rows, h) == {g \in rows : Pair(g) = Pair(h)}
Newer(rows) == {h \in rows : \A g \in SamePair(rows, h) : g.time <= h.time}

\* The counts of some rows together.
SumOf(rows) == Cardinality(UNION {{g} \X (1..g.count) : g \in rows})

\* Mutated forms: the two directions left apart; the newer one counted twice.
UnmergedDirections(rows) == Oldest(rows)
MergeCountingTwice(rows) ==
  Oldest({[h EXCEPT !.count = @ + SumOf(SamePair(rows, h))] : h \in Newer(rows)})

\* handle_sql_result: the groups of one pair become one entry, the newest one
\* with the sum of the counts; the entries are sorted by id, oldest first.
MergeDirections(rows) ==
  Oldest({[h EXCEPT !.count = SumOf(SamePair(rows, h))] : h \in Newer(rows)})

-----------------------------------------------------------------------------
(* One answer                                                              *)

\* make_result of one side: cut to the length asked for.
MakeResult(array) == [more |-> Len(array) > Limit, info |-> Slice(array, 0, Limit)]

\* The matches in the conversation with one user, newest first, or in one
\* room, oldest first.
Inside(side, with) == {Row(t, 1) : t \in {t \in Hits(side) : log[t].with = with}}

HistoryUser(with, offset) ==
  MakeResult(IF with = Anyone THEN MergeDirections(ToSet(Rows("single", offset, Limit + 1)))
             ELSE Slice(Newest(Inside("single", with)), offset, Limit + 1))

\* Mutated form: no row more than asked for.
HistoryMucExact(with, offset) ==
  MakeResult(IF with = Anyone THEN Rows("muc", offset, Limit)
             ELSE Slice(Oldest(Inside("muc", with)), offset, Limit))

HistoryMuc(with, offset) ==
  MakeResult(IF with = Anyone THEN Rows("muc", offset, Limit + 1)
             ELSE Slice(Oldest(Inside("muc", with)), offset, Limit + 1))

\* The key is a condition of the second SELECT of the UNION only: files of
\* rooms are found whatever their names.
Files ==
  {Row(t, 1) : t \in {t \in DOMAIN log :
     log[t].kind = "named" \/ (log[t].kind = "other" /\ log[t].side = "muc")}}

HistoryFile(offset) == MakeResult(Slice(Newest(Files), offset, Limit + 1))

Results(sides, with, offset) ==
  {HistoryUser(with, offset) : s \in sides \cap {"single"}}
  \cup {HistoryMuc(with, offset) : s \in sides \cap {"muc"}}
  \cup {HistoryFile(offset) : s \in sides \cap {"file"}}

\* Mutated form: the sides together not cut again.
PageUncut(sides, with, offset) ==
  LET results == Results(sides, with, offset)
  IN [more |-> \E r \in results : r.more, info |-> Newest(UNION {ToSet(r.info) : r \in results})]

\* lookback_coro and handle_result: the sides together, newest first, cut to
\* the length asked for; more if either side has more.
Page(sides, with, offset) ==
  LET results == Results(sides, with, offset)
  IN [more |-> \E r \in results : r.more,
      info |-> Slice(Newest(UNION {ToSet(r.info) : r \in results}), 0, Limit)]

-----------------------------------------------------------------------------
Entry == [side : {"single", "muc"}, with : Peer \cup Room, time : Nat, count : Nat]
NoRequest == [sides |-> {}, with |-> Anyone]
NotStarted == [asked |-> NoRequest, offset |-> 0, shown |-> <<>>, more |-> TRUE, kept |-> TRUE]

Init ==
  /\ log = <<>>
  /\ walk = NotStarted

\* A message arrives; the offsets of a walk under way shift.
Receive(m) ==
  /\ Len(log) < MaxMessages
  /\ log' = Append(log, m)
  /\ walk' = [walk EXCEPT !.kept = (walk = NotStarted)]

\* The client asks for its first page, or for the one after the last.  A side
\* that has not answered at the timeout is cancelled and left out.
Show(asked, answered) ==
  /\ walk.more
  /\ LET page == Page(answered, asked.with, walk.offset)
     IN walk' = [walk EXCEPT !.asked = asked, !.offset = @ + Limit, !.shown = @ \o page.info,
                             !.more = page.more, !.kept = @ /\ answered = asked.sides]
  /\ log' = log

Search ==
  \E asked \in IF walk.asked = NoRequest THEN Asked ELSE {walk.asked} :
    \E answered \in SUBSET asked.sides : Show(asked, answered)

Next == Search \/ \E m \in Message : Receive(m)

Spec == Init /\ [][Next]_vars

-----------------------------------------------------------------------------
TypeOK ==
  /\ log \in Seq(Message) /\ Len(log) <= MaxMessages
  /\ walk.asked \in Asked \cup {NoRequest}
  /\ walk.shown \in Seq(Entry) /\ Len(walk.shown) <= walk.offset
  /\ walk.more \in BOOLEAN /\ walk.kept \in BOOLEAN

\* The matches of the side of `who`.
Said(who) == {t \in Hits("single") \cup Hits("muc") : log[t].with = who}

\* Everything a search of one side has to show, in the order of its statement.
Whole(asked) ==
  IF asked.sides = {"file"} THEN Newest(Files)
  ELSE IF asked.with \in Peer THEN Newest(Inside("single", asked.with))
  ELSE IF asked.with \in Room THEN Oldest(Inside("muc", asked.with))
  ELSE Newest(Groups("muc"))

\* The pages of a search of rooms, of files, and inside a conversation or a room
\* are consecutive pieces of all there is to show, and hasMore says whether it
\* goes on.  Inside a room, where the statement has the oldest first and a page
\* the newest first, this is so of what the pages hold and not of its order.
PagesTile ==
  walk.kept /\ (walk.asked.sides \in {{"muc"}, {"file"}} \/ walk.asked.with \in Peer) =>
    LET whole == Whole(walk.asked)
        shown == walk.shown
    IN /\ Len(shown) <= Len(whole)
       /\ ToSet(shown) = ToSet(SubSeq(whole, 1, Len(shown)))
       /\ walk.asked.with \notin Room => IsPrefix(shown, whole)
       /\ walk.more <=> Len(shown) < Len(whole)

\* A room, or a user whose conversation is '<from>_<to>' with no '_' more.
Unsplit(who) == who \in Peer => Len(Parts[who]) = 1 /\ Len(Parts[Searcher]) = 1

\* On a first page whose statement returned every conversation in every
\* direction, a conversation stands once, with its newest message, whichever side
\* wrote it, and with all its matches counted; provided no '_' in an id makes
\* handle_sql_result take pieces of ids for the two users (common_sql.py:1270).
WholeAnswerCountsAll ==
  /\ walk.kept /\ walk.offset = Limit
  /\ walk.asked.with = Anyone /\ walk.asked.sides # {"file"}
  /\ Cardinality(Groups("single")) <= Limit + 1
  => \A i \in DOMAIN walk.shown : Unsplit(walk.shown[i].with) =>
       LET times == Said(walk.shown[i].with)
       IN /\ \A j \in DOMAIN walk.shown : walk.shown[j].with = walk.shown[i].with => i = j
          /\ walk.shown[i].time = Max(times) /\ walk.shown[i].count = Cardinality(times)

\* Wherever the pages are cut, whatever arrives or is late meanwhile, an entry
\* names a message of its conversation and claims no match that is not there;
\* with a '_' in an id it may claim those of other conversations.
CountsAreBounded ==
  \A i \in DOMAIN walk.shown :
    LET e == walk.shown[i]
    IN /\ log[e.time].side = e.side /\ log[e.time].with = e.with
       /\ walk.asked.sides # {"file"} /\ Unsplit(e.with) => e.count <= Cardinality(Said(e.with))

\* What the two sides of a search returned beyond the length asked for is kept
\* for the next pages (lookback.py:55, :171), so pages up to the last one show
\* every conversation and room with a match.
RestIsShown ==
  walk.kept /\ walk.asked.sides = {"single", "muc"} /\ ~walk.more =>
    \A t \in Hits("single") \cup Hits("muc") :
      \E i \in DOMAIN walk.shown : walk.shown[i].with = log[t].with
=============================================================================
