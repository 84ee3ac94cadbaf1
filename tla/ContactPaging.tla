---------------------------- MODULE ContactPaging ----------------------------
(***************************************************************************)
(* A client pages through the users or the rooms that match its key while   *)
(* the consumer of RecentContacts reorders the searcher's recent list, other *)
(* requests of the searcher share the 60-second cache of it, and rooms are   *)
(* joined and left (service/search/contact.py, utils/common_sql.py).  An     *)
(* answer lists the matching habits first, in their order, then the other    *)
(* matching rows: users by user_id, rooms by time.  The searcher's remarks   *)
(* on users, which the statement matches as well, are not modelled; nor is a *)
(* key of several words that matches one room both by name and by members,   *)
(* for which array_agg meets arrays of two shapes.                         *)
(*                                                                         *)
(* A request reads the habits, then the cache, then may set the cache, then *)
(* answers; commands of other requests and of the consumer come in between. *)
(* `Contact` stands for users in a search of users and for rooms in a search *)
(* of rooms: the two have keys of their own in Redis and share the code.     *)
(***************************************************************************)
EXTENDS RedisList, AnswerList

CONSTANTS
  Contact,      \* user ids, or names of rooms
  ByUserId,     \* them in the order of user_id
  ByUpdate,     \* them as rooms, the last one whose card was changed first
  Frequent,     \* get_user_habit: those of singleTrace_ or mucTrace_<user> with 10 messages
  Known,        \* those single_habit_data finds: hired, of this domain
  Searches,     \* what clients may search for, see SearchType
  Joined,       \* Joined[r]: when the searcher joined room r, 0 if not
  MemberSince,  \* MemberSince[r]: when the last member of r who matches joined it
  IfAsync,      \* if_async: PostgreSQL 9 or 10 and asyncpg
  Limit,        \* the length a client asks for
  MaxBuffer,    \* [cache] max_buffer
  Request,      \* requests that may be under way at once
  None,         \* no cached value
  MaxEvents     \* bound: messages, joins and leaves

\* origin and common: whether names and whether members of rooms are searched.
\* words: the key has a word that is long enough to search members for.
\* matching: what get_habit would find, the sets matched by _r1, _r2, ...
\* names, members: what the statements would find by name and by member.
SearchType ==
  [form : {"user", "muc"}, origin : BOOLEAN, common : BOOLEAN, words : BOOLEAN,
   matching : Seq(SUBSET Contact), names : SUBSET Contact, members : SUBSET Contact]

ASSUME ContactAssumption ==
  /\ \A order \in {ByUserId, ByUpdate} :
       order \in Seq(Contact) /\ ToSet(order) = Contact /\ IsInjective(order)
  /\ Frequent \in Seq(Contact) /\ IsInjective(Frequent)
  /\ Known \subseteq Contact
  /\ Searches \subseteq SearchType
  /\ Joined \in [Contact -> Nat] /\ MemberSince \in [Contact -> Nat]
\* No two rooms count from the same time: PostgreSQL would list them in any order.
ASSUME TimesAssumption ==
  \A q, r \in Contact : q # r =>
    /\ MemberSince[r] \notin {Joined[q], MemberSince[q]}
    /\ Joined[q] = Joined[r] => Joined[q] = 0
ASSUME PageAssumption ==
  /\ IfAsync \in BOOLEAN
  /\ Limit \in Nat \ {0}
  /\ MaxBuffer \in Nat \ {0}
  /\ MaxEvents \in Nat
ASSUME NoneAssumption == None \notin Seq(Contact)

VARIABLES
  search,   \* what the client searches for
  joined,   \* joined[r]: when the searcher joined room r (user_register_mucs)
  recent,   \* searchSingle_<user> or searchMuc_<user>
  writer,   \* the consumer's rewrite of it: its step and what it holds
  events,   \* messages, joins and leaves so far
  cache,    \* singleCache_<user> or mucCache_<user>, None when missing or expired
  request,  \* requests under way
  walk      \* the client's pages so far

consumerVars == <<recent, writer>>
roomVars == <<search, joined>>
vars == <<roomVars, consumerVars, events, cache, request, walk>>

-----------------------------------------------------------------------------
(* What one page holds                                                     *)

\* The entries at some places of a list, and those that are in a set, in the
\* order of the list.
At(list, places) ==
  [n \in 1..Cardinality(places) |->
     list[CHOOSE i \in places : Cardinality({j \in places : j <= i}) = n]]
Those(list, set) == At(list, {i \in DOMAIN list : list[i] \in set})

\* merge_list_of_dict: one entry per uri, the first one found.
Merge(list) == At(list, {i \in DOMAIN list : \A j \in 1..(i - 1) : list[j] # list[i]})

Rooms == {r \in Contact : joined[r] # 0}

\* What get_habit turns habits into, in their order: single_habit_data finds
\* users, muc_habit_data the rooms the searcher is in.
HabitData(habit) == Those(habit, IF search.form = "user" THEN Known ELSE Rooms)

\* Those that match the key, criterion by criterion.
Matches(data) ==
  Merge(FlattenSeq([i \in DOMAIN search.matching |-> Those(data, search.matching[i])]))

\* The answer of the statement of search_user before LIMIT and OFFSET.
UserRows(excluded) == Those(ByUserId, search.names \ excluded)

\* The statements of make_common_sql, before LIMIT and OFFSET.  A room found
\* by name counts from when the searcher joined it, one found by a member from
\* when that member did.
CountsFrom(r) ==
  Max({joined[r] : n \in search.names \cap {r}} \cup {MemberSince[r] : n \in search.members \cap {r}})
NewestFirst(found) == Ranked(found, [r \in found |-> CountsFrom(r)])

RoomRows(origin, common, excluded) ==
  LET mine == Rooms \ excluded
  IN IF ~common
     \* ... compares the short names to leave out with full ones
     THEN IF origin THEN Those(ByUpdate, search.names \cap Rooms) ELSE <<>>
     ELSE NewestFirst(mine \cap IF origin THEN search.names \cup search.members
                                ELSE search.members)

\* Mutated forms: OFFSET counts from the first row, or goes past too many.
RowsFromOffset(rows, limit, offset, exclude) == Slice(rows, offset, limit)
RowsPastLimit(rows, limit, offset, exclude) ==
  Slice(rows, IF offset > Len(exclude) THEN offset - Len(exclude) + 1 ELSE 0, limit)

RowsOfPage(rows, limit, offset, exclude) ==
  Slice(rows, Max({0, offset - Len(exclude)}), limit)

\* Only the asynchronous library is told which habits to leave out.
SearchUserAsync(limit, offset, exclude) ==
  RowsOfPage(UserRows(ToSet(exclude)), limit, offset, exclude)
SearchUserSync(limit, offset) == RowsOfPage(UserRows({}), limit, offset, <<>>)

SearchUser(limit, offset, habitArray) ==
  IF IfAsync THEN SearchUserAsync(limit, offset, habitArray) ELSE SearchUserSync(limit, offset)

\* A key without a long word is searched for among the names only; the
\* synchronous library, which is not told what to search either, finds nothing.
SearchGroupAsync(limit, offset, exclude) ==
  RowsOfPage(RoomRows(search.origin, search.common /\ search.words, ToSet(exclude)),
             limit, offset, exclude)
SearchGroupSync(limit, offset) ==
  IF search.words THEN RowsOfPage(RoomRows(TRUE, TRUE, {}), limit, offset, <<>>) ELSE <<>>

SearchGroup(limit, offset, habitArray) ==
  IF IfAsync THEN SearchGroupAsync(limit, offset, habitArray) ELSE SearchGroupSync(limit, offset)

\* Mutated forms: the list not cut, another row not asked for.
GetHasMoreUncut(array) == [more |-> Len(array) > Limit, info |-> array]
GetHasMoreAtLimit(array) ==
  [more |-> Len(array) > Limit + 1, info |-> Slice(array, 0, Limit)]

GetHasMore(array) == [more |-> Len(array) > Limit, info |-> Slice(array, 0, Limit)]

\* How many rows a page needs beside the habits, and the page they make with
\* those habits that earlier pages did not show.
Missing(habitArray, offset) == Limit + 1 + offset - Len(habitArray)
FillPage(found, habitArray, offset) ==
  LET left == SubSeq(habitArray, offset + 1, Len(habitArray))
  IN IF Missing(habitArray, offset) <= 0
     THEN [more |-> TRUE, info |-> Slice(habitArray, offset, Limit)]
     ELSE GetHasMore(IF habitArray = <<>> THEN found ELSE Merge(left \o found))

SearchUserPage(habitArray, offset) ==
  FillPage(SearchUser(Missing(habitArray, offset), offset, habitArray), habitArray, offset)
SearchGroupPage(habitArray, offset) ==
  FillPage(SearchGroup(Missing(habitArray, offset), offset, habitArray), habitArray, offset)
Page(habitArray, offset) ==
  IF search.form = "user" THEN SearchUserPage(habitArray, offset)
  ELSE SearchGroupPage(habitArray, offset)

-----------------------------------------------------------------------------
Idle == [step |-> "idle", page |-> FALSE, habit |-> <<>>, data |-> <<>>]
StartedWalk(data) ==
  [offset |-> 0, shown |-> <<>>, more |-> TRUE, kept |-> TRUE, fresh |-> {}, left |-> FALSE,
   data |-> data]
NotWalking == [StartedWalk(<<>>) EXCEPT !.kept = FALSE]

Init ==
  /\ search \in Searches
  /\ joined = Joined
  /\ recent = <<>>
  /\ writer = [step |-> "lrange", held |-> <<>>]
  /\ events = 0
  /\ cache = None
  /\ request = [r \in Request |-> Idle]
  /\ walk = NotWalking

\* The walk is over one cached list as long as nobody replaces it.
CacheBecomes(value) ==
  /\ cache' = value
  /\ walk' = [walk EXCEPT !.kept = @ /\ value = cache]

Happens == events < MaxEvents /\ events' = events + 1

\* A room joined later counts from a later time than any before.
LastJoin == Max({Joined[r] : r \in Contact} \cup {MemberSince[r] : r \in Contact})

\* cache.py handles a message with contact c, or of a room of the searcher:
\* LRANGE and DELETE.
Talk(c) ==
  /\ Happens
  /\ writer.step = "lrange"
  /\ search.form = "muc" => c \in Rooms
  /\ recent' = <<>>
  /\ writer' = [step |-> "lpush", held |-> MoveToFront(recent, c)]
  /\ UNCHANGED <<roomVars, cache, request, walk>>

Lpush ==
  /\ writer.step = "lpush"
  /\ recent' = writer.held
  /\ writer' = [step |-> "ltrim", held |-> <<>>]
  /\ UNCHANGED <<roomVars, events, cache, request, walk>>

Ltrim ==
  /\ writer.step = "ltrim"
  /\ recent' = LTrim(recent, MaxBuffer)
  /\ writer' = [step |-> "lrange", held |-> <<>>]
  /\ UNCHANGED <<roomVars, events, cache, request, walk>>

\* The searcher joins or leaves a room.  The walk notes it once it has begun.
Join(r) ==
  /\ Happens
  /\ search.form = "muc" /\ joined[r] = 0
  /\ joined' = [joined EXCEPT ![r] = LastJoin + events']
  /\ walk' = [walk EXCEPT !.fresh = @ \cup {r}]
  /\ UNCHANGED <<search, consumerVars, cache, request>>

Leave(r) ==
  /\ Happens
  /\ search.form = "muc" /\ joined[r] # 0
  /\ joined' = [joined EXCEPT ![r] = 0]
  /\ walk' = [walk EXCEPT !.left = TRUE]
  /\ UNCHANGED <<search, consumerVars, cache, request>>

\* The 60 seconds of the cached list are over.
Expire ==
  /\ cache # None
  /\ CacheBecomes(None)
  /\ UNCHANGED <<roomVars, consumerVars, events, request>>

\* The recent contacts, then the frequent ones that are not among them.
ReadHabit == recent \o Those(Frequent, Contact \ ToSet(recent))

\* A request arrives and get_user_habit reads the habits; `page` says whether
\* it is the next page of the walk or another search of this user.
Start(r, page) ==
  /\ request[r] = Idle
  /\ page => walk.more /\ \A q \in Request : ~request[q].page
  /\ request' = [request EXCEPT
       ![r] = [step |-> "get", page |-> page, habit |-> ReadHabit, data |-> <<>>]]
  /\ UNCHANGED <<roomVars, consumerVars, events, cache, walk>>

Proceed(r, step, data) ==
  request' = [request EXCEPT ![r] = [@ EXCEPT !.step = step, !.habit = <<>>, !.data = data]]

\* get_habit: GET singleCache_<user>; on a miss, the habits are looked up in
\* the database, and are cached unless there are none at all.
GetCache(r) ==
  /\ request[r].step = "get"
  /\ IF cache # None
     THEN Proceed(r, "answer", cache)
     ELSE Proceed(r, IF request[r].habit = <<>> THEN "answer" ELSE "set",
                  HabitData(request[r].habit))
  /\ UNCHANGED <<roomVars, consumerVars, events, cache, walk>>

\* Mutated form: only the habits that match this key are cached.
SetCacheMatches(r) ==
  /\ request[r].step = "set"
  /\ CacheBecomes(Matches(request[r].data))
  /\ Proceed(r, "answer", request[r].data)
  /\ UNCHANGED <<roomVars, consumerVars, events>>

SetCache(r) ==
  /\ request[r].step = "set"
  /\ CacheBecomes(request[r].data)
  /\ Proceed(r, "answer", request[r].data)
  /\ UNCHANGED <<roomVars, consumerVars, events>>

\* The client shows the page and will ask for the next one at start + length.
\* Its first page fixes which cached list the walk is over.
Show(page, data) ==
  LET base == IF walk.offset = 0
              THEN [StartedWalk(data) EXCEPT !.kept = data = IF cache = None THEN <<>> ELSE cache]
              ELSE walk
  IN walk' = [base EXCEPT !.offset = @ + Limit, !.shown = @ \o page.info, !.more = page.more]

Answer(r) ==
  /\ request[r].step = "answer"
  /\ IF request[r].page
     THEN Show(Page(Matches(request[r].data), walk.offset), request[r].data)
     ELSE walk' = walk
  /\ request' = [request EXCEPT ![r] = Idle]
  /\ UNCHANGED <<roomVars, consumerVars, events, cache>>

Serve(r) == GetCache(r) \/ SetCache(r) \/ Answer(r)

Next ==
  \/ \E c \in Contact : Talk(c) \/ Join(c) \/ Leave(c)
  \/ Lpush \/ Ltrim \/ Expire
  \/ \E r \in Request : Start(r, TRUE) \/ Start(r, FALSE) \/ Serve(r)

Spec == Init /\ [][Next]_vars

-----------------------------------------------------------------------------
TypeOK ==
  /\ search \in Searches
  /\ joined \in [Contact -> Nat]
  /\ recent \in Seq(Contact) /\ Len(recent) <= MaxBuffer + 1
  /\ writer \in [step : {"lrange", "lpush", "ltrim"}, held : Seq(Contact)]
  /\ events \in 0..MaxEvents
  /\ cache \in Seq(Contact) \cup {None}
  /\ request \in [Request -> [step : {"idle", "get", "set", "answer"}, page : BOOLEAN,
                              habit : Seq(Contact), data : Seq(Contact)]]
  /\ walk \in [offset : Nat, shown : Seq(Contact), more : BOOLEAN, kept : BOOLEAN,
               fresh : SUBSET Contact, left : BOOLEAN, data : Seq(Contact)]
  /\ Len(walk.shown) <= walk.offset

\* The statement leaves out the habits it is told to.  The one that searches
\* names alone does not (common_sql.py:2889), and its pages are no pieces of
\* anything.
Exact ==
  \/ search.form = "user"
  \/ search.words /\ search.common
  \/ ~search.origin

\* The whole answer to the client's key: habits first, nobody twice.
Rows(excluded) ==
  IF search.form = "user" THEN UserRows(excluded)
  ELSE RoomRows(search.origin, search.common /\ search.words, excluded)
Whole == LET habits == Matches(walk.data) IN habits \o Rows(ToSet(habits))

\* While the cached list stays in place and no room is joined or left, the
\* pages are consecutive pieces of the whole answer: none is repeated or
\* skipped, although messages arrive and other searches run between them.
Undisturbed == walk.kept /\ ~walk.left /\ walk.fresh = {} /\ Exact
PagesTile == Undisturbed => IsPrefix(walk.shown, Whole)

\* A page that says there is no more ends the whole answer, and one that says
\* there is more is full and does not (the comment of search_user: fetch one
\* more than asked for, and return has more if there are more).
HasMoreIsRight ==
  Undisturbed =>
    IF walk.more THEN Len(walk.shown) = walk.offset /\ Len(walk.shown) < Len(Whole)
    ELSE Len(walk.shown) = Len(Whole)

\* A room that is joined during the walk may shift others to the next page,
\* where they are shown once more, but hides none of them: the pages have
\* shown every room before their offset in the answer of now, but for those
\* joined since, and every other room once they say that there is no more.
JoinsSkipNobody ==
  walk.kept /\ ~walk.left /\ Exact =>
    LET passed == IF walk.more THEN Slice(Whole, 0, walk.offset) ELSE Whole
    IN ToSet(passed) \subseteq ToSet(walk.shown) \cup walk.fresh

\* Whatever moment a request read the habits at, in the middle of a rewrite of
\* the list as well, what it caches has every frequent contact in it, for the
\* key of any other request: those that could be found all along.
CacheCoversFrequent ==
  LET always == IF search.form = "user" THEN Known
                ELSE {r \in Rooms : joined[r] = Joined[r]}
  IN cache # None => \A c \in ToSet(Frequent) \cap always : Contains(cache, c)

\* A page says that there are no more only when every match was shown, the
\* promise of the comment at contact.py:77, for either library; weaker than
\* HasMoreIsRight, which also orders the answer.
NoMoreMeansAll ==
  walk.kept /\ ~walk.left /\ walk.fresh = {} /\ ~walk.more =>
    ToSet(walk.shown) = ToSet(Matches(walk.data)) \cup ToSet(Rows({}))
=============================================================================
