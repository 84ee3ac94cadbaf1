# Startalk search and cache services: a TLA+ development

Startalk-docker packages an instant messenger: an ejabberd chat server, an
OpenResty gateway, two Java services shipped as `.class` files, PostgreSQL,
Redis, Kafka, and, as Python source, the *search service* with the consumers
that feed it (`src/py/code`).  The source that carries logic of its own is the
Python code, two Lua checks of the gateway and the control script.  This
directory models that code, starting with the two Kafka consumers, whose state
(Redis lists, Elasticsearch documents) is rewritten in several steps that can
fail or be interrupted anywhere.

## 1. Inventory

Paths are below `src/`; `py` stands for `src/py/code`.

| Component | State it keeps | Operations | What is hard |
|---|---|---|---|
| Recent-contacts consumer, `py/service/cache/cache.py` | Redis lists `searchSingle_<user>`, `searchMuc_<user>`, sorted sets `singleTrace_<user>`, `mucTrace_<user>`; Kafka offsets | take an event, filter it, rewrite a list by LRANGE / DELETE / LPUSH / LTRIM, count by ZINCRBY | four commands rewrite a list; a crash or a failing command between two of them; redelivery after a restart |
| Message-index consumer, `py/service/kafka2es/kafka2es.py` | Elasticsearch parent, child and extendInfo documents per month; Kafka offsets; one PostgreSQL connection | take an event, look the id up with retries, index parent, children, extendInfo; revoke | events that end the process, a row that arrives after its event, a revoke against an earlier or a replayed message, partial failures |
| Search request, `py/service/search/search.py` | one PostgreSQL connection and tasks per request | decode `action`, start contact and history tasks, wait with a timeout, cancel, sort, close | a task that raises, tasks still pending at the timeout, resources on each exit |
| Contact and room search, `py/service/search/contact.py`, `py/utils/common_sql.py` | 60-second caches of habits in Redis | habit match first, database for the rest, paging by offset and length | pages that overlap or skip, habits that change, rooms that are joined or left between pages |
| History search, `py/service/search/lookback.py`, `lookback_es.py`, `lookback_sql.py` | Redis caches of a user's result (300 s) | search conversations and rooms concurrently, inside one of them, or files; merge, cache, page | a partial result cached after a timeout; one cache entry per user, whatever the keyword |
| Ckey check, `py/utils/authorization.py`, `or/lua_app/checks/qim/ckeycheck.lua` | keys of a user in Redis | compare the md5 of key and time | several exits with results of different shapes |
| Update check, `py/service/updatecheck/` | version tables in every worker process, files on disk | fill a table, reload, compare, download, black and white list | six workers each hold a copy of their own; a release is copied file by file under them |
| Request limit, `or/lua_app/utils/requestlimit.lua` | counters and ban flags in Redis with an expiry | count, ban, expire | nothing loads it |
| Share message, meeting detail, JSON tools, `py/service/{sharemsg,meeting,jsontools}` | none, or rows of PostgreSQL | format a message, read or write rows | little: one statement each |
| User creation, `py/tools/create_user.py` | two tables of PostgreSQL | two inserts | the second may fail after the first |
| Control script, `startalkdockerctl`, `py/code/runme.sh` | containers, configuration files | start, stop, rewrite configuration | a step that fails in the middle |
| Gateway, ejabberd, Java services, database schema, `compose/` | - | - | vendored, generated, binary, or configuration only |

How they meet: ejabberd writes messages to PostgreSQL and to two Kafka topics.
`cache.py` turns the topics into the Redis keys from which the contact search
takes its *habits*; `kafka2es.py` turns them into the documents the history
search reads.  A search request goes through the gateway's ckey check to one of
six gunicorn workers (under supervisor; the image itself starts Flask's own server,
with a thread per request), which runs contact and history tasks in one event loop
and uses Redis, PostgreSQL and Elasticsearch on the way.  Shared state is in those
servers, but for the tables of the update check; a worker process handles one
request at a time.

What makes each correct:

- **Recent contacts**: a list is in the order of last messages, names nobody
  twice, is never longer than `max_buffer` by more than the faults explain, and
  forgets nobody it has room for; counters miss nothing and count a message
  once per delivery.
- **Message index**: a message whose offset is committed is filed completely, or a
  request that failed explains what is missing; children have parents; a revoked
  message cannot be found again; the consumer never stops for a row that never comes.
- **Search request**: each exit gives back what it opened; what did answer in
  time is returned; a request ends.
- **Contact paging / history paging**: consecutive pages neither repeat nor
  skip an entry while nothing changes, and `hasMore` tells the truth.
- **History cache**: an answer belongs to the keyword asked for and is not
  arbitrarily old.
- **Update check**: a client that is told there is nothing to do is complete; no
  file crosses from one channel to the other; clients converge.

## 2. Plan

All steps are done: every safety property that a passing run checks is a
theorem as well.

1. `RedisList`, `RecentContacts`, `RecencyView`: the consumer with each
   Redis command a step, and the abstract specification it implements.
2. `MessageIndex`: the indexing consumer.
3. `ContactPaging`: pages of users and of rooms over habits and rows, with the
   habit cache and the list that the consumer of step 1 rewrites.
   `AnswerList` holds the order of rows and the slices that both paging modules cut.
4. `HistoryPaging`: pages of the history search in PostgreSQL.
5. `HistoryCache`: the Elasticsearch variant, two sides with caches of their
   own and the merged answer of a user, against requests with other keywords.
6. `SearchRequest`: one request from decoding `action` to its answer.
7. `UpdateCheck`: releases, the tables of the workers, and clients.
8. Proofs: `ListProofs`, `RecentContactsProofs`, `MessageIndexProofs`,
   `SearchRequestProofs`, `HistoryCacheProofs`, `UpdateCheckProofs`,
   `ContactPagingProofs`, `HistoryPagingProofs`.

`RecencyView` is the abstract specification of the recent lists.  For a walk
through pages, the abstraction is one list cut into pieces, which `PagesTile`
states of both paging modules.  The other components and why they have no
module are in section 6.

## 3. Modules

### RedisList, RecentContacts, RecencyView

`RedisList` holds the two list commands and `MoveToFront`, the net effect of one
rewrite.  `RecentContacts` has one action per step of `cache.py`: `Poll` is one
round of the loop of `add_queue` with its filters (`Accepted`, `JobsOf`);
`Lrange`, `Delete`, `Lpush`, `Ltrim`, `Zincrby` are the commands of
`handle_redis`, in the order the code sends them; `Fail` is the `except` of the
loop; `Commit` is Kafka's auto-commit, which runs inside the poll and therefore
between events only (`Idle`).  One process reads both topics, one event at a time.
The domain filter keeps its precedence: with several hosts configured `domain` is
a list, no host equals it, and every event is dropped (`DomainIsString`).
An event is first expanded into its list of jobs (`ChatJobs`: both sides' lists, then
both sides' counters; `GroupJobs`: every user's list, then the sender's counter).

The process ends (`End`) in two ways: it is killed, between any two commands
(`Die`), or it meets an event that does not decode (`Undecodable`): the
deserializers run on the whole batch and outside the `try`, so the events fetched
with it are not handled either.  Nothing in the repository starts it again, so `up`
stays FALSE until somebody does (`Start`).  The new process resumes at the
committed offsets; of a topic for which nothing was ever committed (`NoOffset`) it
begins at the end, since `auto_offset_reset` is left at `latest`.  `missed` records
that events were passed over this way, or given up by a process that ended before the
first commit; the properties that count events need it.

`RecencyView` says what readers may rely on, in two variables: `view` is what
LRANGE gives them, `kept` what the lists are made of.  One list at a time is hidden
(`Hide`, the DELETE: a reader finds it empty) and comes back with one contact moved to
its head (`Show`, the LPUSH); a fault in between costs that list for good (`Fault`).

### MessageIndex

One action per query or request of `kafka2es.py`.  `TakeMessage`, `TakeSkipped`,
`TakePoison` are the head of the loop; `Found`, `NotFoundYet`, `NeverFound`,
`LookupRaises` are `get_msg_id` with its bounded retries and what the loop does
with each result; `Connect`, `WriteParent`, `WriteObject`, `WriteExtend` are
`handle_body`; `Exists`, `Mask`, `PutPlaceholder` are `revoke_es`.  Each request has
a failing twin that may or may not have been carried out, and goes on as the code
does: a failing parent is logged and its children are written all the same, a failing
single child document gives up the extendInfo, a failing bulk does not.
`conn_es` outside every `try` ends the process, and so does a value that is not
JSON.  Documents are keyed by month, and a revoke looks in the month *it* was sent in.
A document is abstracted to its two text fields, `body` (searched) and `raw_body`
(shown).  Workers own partitions for good: rebalancing is not modelled.

`failures` holds what failed in the handling of which event (`Note`), whether or not
the code says so.  It does not always: a failing extendInfo that is one object
becomes a return value that nobody reads (`kafka2es.py:379`, `:148`), the logs of
failing objects name no message (`:361`, `:364`), a body of more than 60000 characters
is dropped without a log (`:256`), whereas an empty body, a missing row and a failing
parent are logged with their message (`Named`).

`Restart` resumes at the committed offset or, of a partition that has none, behind
its last event (`ResumeAt`), as the other consumer.  `origin` is where the group's
reading of a partition began, `taken` how far it ever came; both serve the
properties only.  A process that ends is taken to commit nothing on its way out.

### AnswerList

What PostgreSQL and Python make of the rows of an answer: `Ranked`, the rows by
times that differ, the latest first (`ORDER BY`, `sorted`), and `Slice`, a part of
a list (`OFFSET` and `LIMIT`, `list[a:b]`).  Both paging modules cut their pages
with it.

### ContactPaging

`search_user` and the room searches of `contact.py` and of both libraries in
`common_sql.py`; `Contact` stands for users in a search of users and for rooms
in a search of rooms.  A request reads the recent list when it starts (`Start`),
takes the cached habits or looks those it read up in the database and caches
them for 60 seconds (`GetCache`, `SetCache`, `Expire`), and answers with a page:
the habits that match the key (`Matches`), and as many rows as are missing
(`Missing`, `FillPage`), with an offset and a length that depend on how many
habits matched.  Rows are users by `user_id` (`UserRows`), or rooms found by
name, by their members or by both, by the time of joining (`RoomRows`,
`CountsFrom`).  Each list is what another one holds at some of its places (`At`):
those that match (`Those`) or the first mention of each (`Merge`), which is how the
code filters and merges.  Two rooms never count from the same time
(`TimesAssumption`), since PostgreSQL would list them in any order; a room that is
joined later counts from later than any time before (`LastJoin`).  A walk
is a client that asks for page after page; its `kept` flag falls when the cached
list it is cut from is replaced, and `fresh` and `left` note rooms that were
joined and left (`Join`, `Leave`).  The recent list is rewritten in steps as
the consumer does it, so a request may find it empty.  The two libraries differ
in whether the habits already shown are left out of the rows (`IfAsync`), and the
synchronous one searches rooms by name and members whatever was asked; with
PostgreSQL 11 and Python 3.7, which the images bring, it is the synchronous one.

### HistoryPaging

The history search as shipped, without Elasticsearch.  `Groups` and `Rows` are
what the statements over all conversations and rooms return, `Inside` those of
one conversation or one room, `Files` that of files; `MergeDirections` is
`handle_sql_result`, which splits the conversation of a row, `<from>_<to>`, at every
`_` and takes the first two pieces for the two users (`Conversation`, `Pair`,
`SamePair`).  An id is therefore a sequence of pieces (`Parts`): with a `_` in it, the
directions of a conversation stay apart or those of two peers become one, and the
properties that count speak of ids without one (`Unsplit`).  `MakeResult` cuts one
side, `Page` merges the sides and cuts again.  `Show` is one request, with any of its sides late and cancelled, and
`Receive` a message that arrives between two pages.  The key needs no
representation beyond a message's `kind`: a text that matches, a file whose name
matches, a file with another name.  PostgreSQL is taken to keep the order of the
inner, sorted query through the joins around it, which the statement does not demand.

### HistoryCache

The same search with Elasticsearch: `Ask` and `GetAggCache` look for the one merged
answer of the user, `DeleteAggCache` drops it when it is about another keyword,
`GetLookback`, `Search`, `SetLookback`, `Label` are the steps of one side's task,
and `WaitEnds` merges the sides that are done and keeps the result, whole or not.
Data are represented by their age, so time needs no bound: entries expire, and
nothing old survives.  `answer` is the answer the last step gave.

### SearchRequest

`Main` takes a request: the action it gives, or the one its `groupId` stands for
(`ActionOf`); it refuses a key that is too short (`Legal`) and otherwise decodes
the action (`Register`, with 63 read as 31) into queries.  A request with a
platform is never asked for its `groupId`: the branch for ios cannot be reached.
The libraries of its tasks are constructed one after the other (`due`,
`Construct`), synchronously and before any task exists; each may raise or call
`exit()` (`ConstructFails`), and the request has failed though no query ran.  The time
they take is not part of any timeout.
`End` ends a query; `LookbackEnds` is the wait inside the history task and
`RequestEnds` the one around all tasks, with asyncio.run's last step, which cancels
what is left.  Time is in ticks that keep the order of the timeouts: 5 seconds are
1, 10 are 2, 60 are 3.  The timers are taken to be served in that order, which the
asynchronous library allows: nothing in a task blocks the event loop for seconds.
With the synchronous library (`IfAsync` false) a running query blocks it
(`Blocked`), and time passes all the same.

### UpdateCheck

`Publish` and `Copy` are the operator: a new release, copied file by file over the
one before.  Each worker has a table of files and md5s per channel.
`CheckRefused`, `CheckUnprepared`, `CheckFromTable` and `CheckLoads` are one
`version/check` by how it ends: refused for its user, channel or platform;
without a table; from the table; or by filling the table first, which walks the
directory a file at a time (`WalkFile`, `WalkEnds`) while the operator copies.
A table keeps the urls made from the url of the request that filled it (`UrlsOf`):
its directory is that request's channel, and if the request came by another host or
with a query string (`Address`), the urls lead nowhere until the next reload.  A
client that sends no `files` (`lists` FALSE) is told "ok" and has nothing compared.
`Reload` is `version/reload`, which reaches one of the workers; `Restart` a worker
that dies.  `CheckDiff` is the comparison, `Scope` its rule that a client that
names exactly one file asks about its updater, and `Download` fetches one file
from the disk, which may not be what the table said.  Two history variables
speak for the properties only: `current` says that a table was read from a disk
that was and stayed settled, `sure` that the last answer came from such a table.

## 4. Runs

| Run | What it asks | Bounds |
|---|---|---|
| `recent_contacts` | all safety properties and the refinement, for chats | four users, one on a foreign host, `MaxBuffer` 2 with three candidates for one list (a chat to oneself among them), an event that does not decode, three events, one failing command, one death |
| `recent_rooms` | rooms beside chats: nothing is forgotten, and the consumer catches up unless it ends | `MaxBuffer` 1 with two rooms, two events per topic, one that does not decode, one failure, one death |
| `message_index` | all safety properties: a loss is a failure, no orphans without a log, revokes hold, poison is never passed | one partition; a message with two objects and an extendInfo; an empty message revoked a month later; a stray event; one fault, one restart |
| `message_index_apart` | a loss is a failure with revokes in another partition and a worker of its own; liveness | a file with a list of two extendInfo items; two workers; two faults, one restart |
| `contact_paging` | pages tile, `hasMore` is right, a room joined meanwhile hides no other, the cache has the frequent contacts | asynchronous library, five users or rooms, matches split into habits and rows in many ways, rooms by name, by members and by both, length 2, two concurrent requests, two messages, joins or leaves |
| `contact_paging_sync` | *violated*: with the synchronous library `hasMore` false does not mean that all was shown | as above, users only, synchronous library |
| `history_paging` | pages of rooms, of files and of one conversation tile; for ids without `_` the counts of a first page are right and no count is ever too high | up to five texts and files of three users, two of them with a `_` in the id, both ways, and three rooms; length 2; singles, rooms, both, files, one conversation, one room |
| `history_paging_both` | *violated*: a search of both sides that says there is no more has shown everything | four texts, both sides |
| `history_cache` | an answer belongs to its keyword and is fresh | two workers, two keywords, expiry 2 ticks, patience 1 |
| `search_request` | what answered is shown, a request fails exactly if a library could not be constructed or a query raised, no request outlasts its timeout, nothing runs on, every request whose tasks were started is answered | asynchronous library, all actions from 0 to 63, every `groupId` with and without a platform, short keys |
| `search_request_sync` | *violated*: no request outlasts its timeout | synchronous library, which is what the images' versions choose |
| `update_check` | told fine is complete, channels stay apart, clients converge | two workers, two channels, three files; a second release that replaces, removes and adds a file; one reload, by the clients' address or another, or one restart; one client, which may be plain, white- or black-listed, without a channel, with another one, of another platform, without a list of files, or asking by another address, freshly installed or with one file |

Findings.  Each violated run checks what a comment of the code says.
`contact_paging_sync`: the synchronous `search_user` is not told which habits are
on the page already.  `history_paging_both`: what both sides returned is sorted
and cut to the length asked for, and the next page moves the offset of both, so what
was cut never comes (`lookback.py:184`), where the comments at lines 55 and 171 have it
kept for later.  `search_request_sync`: a
query of psycopg2 blocks the event loop and its timers.

Why the bounds are enough: every property speaks of one list, one message or one
client at a time, and the shortest violations need an event, an interruption
inside it and one more delivery.  `MaxLog` 3 lets a contact enter, fall off the
end and return.  `Lookups` is 2 instead of 5: one repeated query and the last one.
Pages of length 2 over five entries end before, at and after the border of habits
and rows, and a walk has a first, a middle and a last page; three conversations
with five messages have both directions in one statement and one more than a page
holds.  `MaxEvents` 2 is a message and a join in one walk, or a rewrite that
moves one contact past another.  `MaxIncidents` 1 is the reload that makes one
worker current while the other is not, or the restart that empties a table in the
middle of a release.

Deadlock is checked in `contact_paging`, `history_cache`, `search_request` and
`update_check`, whose behaviours never end; elsewhere a finished system stops when
the bounds on its events are used up.

**Fairness.**  A running consumer takes the next event and its next step (weak
fairness of `Poll` and `Command`, of `TakeNext` or `Continue`): the `for` loop
does nothing else, and the retries sleep for a bounded time.  Nothing is assumed
of producers, faults, commits or restarts; both consumers are started by hand
and no supervisor restarts them, so `CatchesUp` of both modules promises progress
only while the process runs.  An event that cannot be decoded ends it, which
is a step it takes (`Undecodable` is under the fairness of `RecentContacts`).
`SearchRequest` assumes that time
passes and that the event loop wakes a wait that is over; no query has to end, and
no library has to be constructed, so `EveryRequestIsAnswered` speaks of requests whose
tasks were started.
`UpdateCheck` assumes that a worker ends a walk it began, and that a client goes on
checking and downloads what it was told to; nobody has to publish, copy, reload or
restart, and `ClientsConverge` therefore speaks of workers that become current for
good.

## 5. Proofs

Eight modules hold proofs, and they prove every safety property of the passing runs;
what they show holds for every value of the constants
that meets the assumptions named in the modules they are about.

- **`ListProofs`**: lemmas the other modules share.  About the Redis lists: reversing,
  removing, trimming and moving to the front.  `TrimBeforeMove` says that a list trimmed
  before and after a contact moves to its head is the list trimmed after it; the
  refinement rests on it.  About answers: consecutive slices make one (`SliceTiles`),
  and `Ranked` lists every row once, in the order of times, as long as the times
  differ (`RankedProperties`, `RankedInjective`).
- **`RecentContactsProofs`**: `TypeCorrect`, `ListsHaveNoDuplicates`, `ListsAreBounded`,
  `SidesCountAlike`, `CountersAreBounded`.  `NoDuplicates` alone is not inductive, since
  LPUSH adds what LRANGE read earlier: the invariant adds that the local copy has no
  duplicates, that the list is empty while its LPUSH is due, and that no other job
  writes the list meanwhile, because a list belongs to one topic.  `Running` says that
  a process that is down has nothing under way, that one event is under way at a time,
  and that nothing is missed before a first death.  The bound carries
  the excess each fault may leave behind.  For the counters the invariant says what the
  jobs still to do will add: the jobs left are the end of some event's jobs
  (`ChatShape`), the sides differ by what is still to be counted and the faults so far
  (`Sides`), and a counter lies between what the events before the offset and those
  taken ask for (`Offsets`, `Tallied`).  Where a topic has no committed offset, what was
  counted is measured from where its reading stands (`Base`), and a process that ends
  in the middle of an event has missed it (`Losses`).  `EndFacts` collects what both
  ways of ending have in common.  Its second half proves `ImplementsView`, the
  refinement of `RecencyView`, and `ListsAreNewestFirst` and `NobodyForgotten`.  The
  refinement needs, beyond that invariant, that what a consumer holds before its DELETE
  is what the list holds (`HoldsList`), and that only one list is hidden at a time
  (`OneHidden`).  DELETE is then `Hide`, LPUSH is `Show`, a failing command and the end
  of the process are `Fault`, and the others stutter: LTRIM removes what no reader
  looks at.  The order of a list is that of the events taken, each counted by its last
  delivery; while a rewrite is under way the list still has the order of the events
  before (`Fresh`, `FreshList`).
- **`MessageIndexProofs`**: `IndexTypeCorrect`, `OnlyFailuresLose`, `PoisonBlocks`,
  `OrphansAreReported`, `RevokesHold`, `HiddenUntilReplay`.  The invariant says how the
  offsets lie to one another and to `origin` and `taken` (`Offsets`), where
  each worker is in its partitions (`Where`), that a message has one event (`Once`),
  that a worker which took a poisonous value since reading began has ended and has not
  committed it (`PoisonEnds`), that every message taken since then and left behind is
  filed as far as nothing failed (`Behind`), and how far the one under way is (`Stage`).
  Offsets are committed between
  events only, which is what makes a replay sufficient.  `OrphansAreReported` adds
  `Excuses`: whoever writes children has either written the parent or logged that it
  failed.  The theorems about revokes add that a message has one revoke, behind it in
  its partition (`RevokeOnce`), that a revoke which was taken and is not under way has
  hidden its message or failed (`HiddenBehind`), and that nothing is hidden but
  by a revoke that some process took (`MaskedByRevoke`): `HiddenUntilReplay`, which is
  about steps, follows, since a worker that files a hidden message is then behind
  the furthest event its partition was ever read to.
- **`SearchRequestProofs`**, under the assumption that the asynchronous library is
  used: `RequestTypeCorrect`, `OnlyFailuresFail`, `FoundIsShown`, `TimeoutHolds`,
  `NothingLeftRunning`.  While libraries are being constructed no task has begun and
  no time is counted (`Preparing`).  A history task ends before its request gives it up
  (`InnerFirst`) because its timeout is shorter; where the two are the same, an
  action asks a history task for one query only (`ExtendedIsSingle`), so
  nothing that was found can be lost with it.  `search_request_sync` shows that the
  assumption is needed.
- **`HistoryCacheProofs`**: `CacheTypeCorrect`, `AnswersOwnKeyword`, `AnswersStayFresh`.
  The age of an entry and the time it has left add up to a constant while it is
  kept; the constant of the merged entry is the one of a side's entry, one more
  expiry and one more wait.
- **`UpdateCheckProofs`**: `UpdateTypeCorrect`, `ToldFineHasAll`, `ChannelsStayApart`.
  A walk that nothing disturbed holds what is on the disk where it has been
  (`QuietWalk`), a walk reads the channel its client asks for (`WalkErrand`), and
  directories, tables and clients hold contents of releases of their channel; the
  urls of a table lead into the directory of its channel, whoever filled it (`UrlsOwn`).
- **`ContactPagingProofs`**: `PagingTypeCorrect` and `CacheServesEveryKey` for both
  libraries; `PagesAreConsecutive`, `HasMoreTellsEnd` and `JoinsHideNobody` under the
  assumption `IfAsync`, without which `contact_paging_sync` shows them false.  The core
  is a fact about one page without any state, `FillPageIs`: if the statement leaves out
  the habits it is told of, then habits that were not shown and rows fetched from
  `Max({0, offset - habits})` on make a slice of habits followed by rows, whatever
  the offset, the length and the number of habits.  `NewestFirst` lists every
  room once only if their times differ, so the invariant (`IInv`) carries that
  through joining and leaving (`TimesDiffer`, `JoinedLater`).  `HabitsCover` follows a frequent contact from the habits that were read to
  the cache.  A walk's flag alone does not tell that its pages come from one list:
  `Followed` adds that the page under way is the only one and holds the walk's list.
  `Tiled` and `Passed` are then inductive: what was shown is the answer up to the offset,
  and a room that is joined stands before some and behind others, so everybody moves
  back or stays (`RankedMovesBack`) and whoever stands before the offset did so already.
- **`HistoryPagingProofs`**: `SearchTypeCorrect`, `CountsNeverExceed`,
  `PagesOfOneSideTile`, `FirstPageCountsAll`.  The entries of every statement are real
  messages with times that differ (`GroupsAre`, `InsideAre`, `FilesAre`), and stay so when
  two directions are merged (`MergedAre`), when a side is cut (`SidesAnswer`) and when
  the sides are put together (`EntriesAre`).  A conversation has at most one group for
  each direction (`OneGroup`); in the merge, a row whose ids have no `_` meets those of its
  own conversation and no other (`PairIs`, `SamePairIs`), so the sum of the counts is of
  one row or of two (`SumOfOne`, `SumOfTwo`) and counts disjoint sets of messages
  (`SumCounts`).  Both theorems about counts are about such ids, as the properties are.
  A search of one side has one list to show
  (`WholeIs`); sorting a cut list again changes nothing, except inside a room, where
  the statement has the opposite order (`PageOfWhole`).  The invariant `IInv` says that
  a walk not asked for has not begun (`Begun`) and that everything shown is still true
  of the messages, which only grow (`ShownSound`).  `PagesTile` speaks of the entries
  shown and not of the offset the next page starts from: `Tiled` adds that what was
  shown is what stands before that offset (`Before`), and is inductive.
  `WholeAnswerCountsAll` is kept by every step given `IInv`, as a first page is
  shown to a walk that has shown nothing.

Model-checked only: the liveness properties, which are out of the prover's reach, and
that the violated properties fail.  What the recursive `FlattenSeq` computes could not
be proved either, as induction over data is out of reach; the theorems need no more
than that it gives a list of the entries' type, which a least counterexample shows
(`FlattenType`).

## 6. Not modelled, and limits

Components without a module:

- **Request limit**: no configuration of the repository loads `requestlimit.lua` and
  nothing calls it.
- **Ckey check**: compares an md5; no state, no step that could be interrupted.
- **User creation**: a script run once by hand, two inserts; nothing retries or
  recovers.  **Control scripts**: shell commands around docker, whose state the
  sources do not define.
- **Share message, meeting detail, JSON tools**: formatting and single statements.
- **Gateway, ejabberd, Java services, database schema**: vendored, generated, class
  files or configuration; what they do to the modelled parts is external actions.

Within the modelled parts, left out: formatting, parsing of message bodies and
logging; the regular expressions of `handle_normal` and its siblings (a
message's shape is a constant); the queries of `utils/dsl.py`; rebalancing of Kafka
partitions; topics of several partitions in `RecentContacts`; `backup.py` of the update check, an older copy that nothing imports;
`search_common_group` and `handle_group_search`, which no action reaches; `linux`
clients other than that they get no table.

What the code does that the models stop short of, so that the properties speak of
less than a user might hope:

- A history search over both sides merges two pages into one and drops what does
  not fit (`lookback.py:184`); no page shows it.  `PagesTile` therefore excludes it, and
  `history_paging_both` shows it.
- Conversations of ids with a `_` are merged by pieces of the ids
  (`common_sql.py:1270`).  The model does this; `WholeAnswerCountsAll` and
  `CountsAreBounded` promise right counts for the others only.
- A consumer that starts without a committed offset begins behind the events that are
  there.  The properties that count or order events say so (`missed`, `origin`).
- A table filled by a request through another host or with a query string hands every
  client urls that lead nowhere.  `ClientsConverge` speaks of tables that were filled by
  the clients' address (`UpToDateWorkers`).
- Where the asynchronous library cannot connect, `contact.py:46` falls back to the
  synchronous one in the middle of a request; `SearchRequest` takes the library as given.
- The statement that searches rooms by name alone compares short names to leave out
  with full ones (`common_sql.py:2889`) and leaves nobody out, while the offset is
  reduced as if it had; `Exact` excludes it from `PagesTile` and `HasMoreIsRight`.
- The file search applies the key to the second SELECT of its UNION only
  (`common_sql.py:1112`): files of rooms are found whatever their names.  `Files`
  models this.
- Searches with a time range fail: the parameter's name in the statement is not the
  one that is given. A list of users has unbalanced parentheses. A room key of
  several words that matches one room by name and by members meets `array_agg` with
  arrays of two shapes. A room key that has the searcher's own name in it raises in
  `key.remove`. These requests have no answer to model.
- A user to whom the searcher gave a remark may be two rows of one statement.
- The update check lists a changed file twice if its name has an upper-case letter.
  A table read while a release is being copied is a mixture, and is kept until the
  worker is reloaded or restarted; `version/reload` reaches one worker of six.
  A client that names exactly one file is compared on its updater only.
  `FineIsComplete` and `ClientsConverge` exclude these by `sure` and
  `UpToDateWorkers`, and say so.
