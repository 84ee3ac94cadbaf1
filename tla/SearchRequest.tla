---------------------------- MODULE SearchRequest ----------------------------
(***************************************************************************)
(* One worker's requests to /search (main and go_coro of                    *)
(* service/search/search.py): the action is decoded into tasks, the libraries *)
(* that run them are constructed, the tasks run in one event loop, and after  *)
(* a timeout the answer is made of what is there.  The history task waits     *)
(* for its own sides in the same way, with a timeout of its own               *)
(* (lookback_coro of service/search/lookback.py).                             *)
(*                                                                         *)
(* With the asynchronous library a task that waits for a query lets the       *)
(* others go on; with the synchronous one it blocks the event loop, timers    *)
(* and all.  What a query returns is abstracted to whether it found something, *)
(* found nothing or raised.                                                 *)
(***************************************************************************)
EXTENDS Naturals

CONSTANTS
  Request,  \* the requests clients send
  IfAsync,  \* if_async: PostgreSQL 9 or 10 and asyncpg
  None,     \* no answer yet; a parameter that is not given
  Failed,   \* the answer to a request that raised or that ended its worker
  Rejected  \* the answers "WRONG ACTION" and "key is illegal"

\* What of a request the answer's course depends on: action, groupId, whether a
\* platform is given, and whether the key has less than two characters.
Groups == {"", "Q01", "Q02", "Q07", "other"}
ASSUME RequestAssumption ==
  /\ Request \subseteq [action : Nat \cup {None}, group : Groups \cup {None},
                        platform : BOOLEAN, short : BOOLEAN]
  /\ IfAsync \in BOOLEAN

MaxClock == 4  \* bound: ticks after which time is not counted any more

VARIABLES
  request, \* the request being handled, None before the first
  due,     \* the libraries it has yet to construct
  clock,   \* ticks since it waits for its tasks
  query,   \* each query: absent, running, or how it ended
  waiter,  \* the two history tasks, which wait for queries: absent, running, ...
  reply    \* None, Failed, or the queries whose results are in the answer

vars == <<request, due, clock, query, waiter, reply>>

-----------------------------------------------------------------------------
(* The tasks of an action                                                  *)

\* By the place of its bit in the action.
TypeRegister == [bit \in {1, 2, 4, 8, 16, 32} |->
  CASE bit = 1 -> "user" [] bit = 2 -> "muc" [] bit = 4 -> "common_muc"
    [] bit = 8 -> "hs_single" [] bit = 16 -> "hs_muc" [] bit = 32 -> "hs_file"]

\* What a client that gives no action means by its groupId; one that gives a
\* platform is not asked for its groupId.
ActionOf(r) ==
  CASE r.action # None -> r.action
    [] r.action = None /\ (r.platform \/ r.group = "") -> 7
    [] r.action = None /\ ~r.platform /\ r.group = "Q01" -> 1
    [] r.action = None /\ ~r.platform /\ r.group = "Q02" -> 2
    [] r.action = None /\ ~r.platform /\ r.group = "Q07" -> 4
    [] OTHER -> None

\* The bits of the action, where 63 stands for 31.
Register(r) ==
  LET bits == IF ActionOf(r) = 63 THEN 31 ELSE ActionOf(r)
  IN {TypeRegister[bit] : bit \in {bit \in DOMAIN TypeRegister : (bits \div bit) % 2 = 1}}

\* Only an action that is given extends the time.
ExtendTime(r) == r.action \in {1, 2, 4, 6, 8, 16, 32}

\* In ticks: a history task waits 5 seconds, the request 10, and either 60.
\* Mutated form: the history task always waits 60.
LookbackTimeoutLong(r) == 3

LookbackTimeout(r) == IF ExtendTime(r) THEN 3 ELSE 1
RequestTimeout(r) == IF ExtendTime(r) THEN 3 ELSE 2

\* Rooms are searched by name and by members in one task.
Queries(r) ==
  LET reg == Register(r)
  IN (reg \cap {"user", "hs_single", "hs_muc", "hs_file"})
     \cup {"group" : t \in reg \cap {"muc", "common_muc"}}

\* Without a task the key does not matter.
Legal(r) == ActionOf(r) # None /\ (r.short => Queries(r) = {})

Query == {"user", "group", "hs_single", "hs_muc", "hs_file"}
ASSUME AnswersDiffer ==
  /\ None \notin Nat \cup Groups \cup Request
  /\ None # Failed /\ Rejected \notin {None, Failed}
  /\ \A queries \in SUBSET Query : queries \notin {None, Failed, Rejected}

Contacts == {"user", "group"}
Library == {"Contact", "Lookback"}
TasksOf(lib) == IF lib = "Contact" THEN Contacts ELSE Query \ Contacts
Waiter == {"history", "files"}
Waited(t) == IF t = "history" THEN {"hs_single", "hs_muc"} ELSE {"hs_file"}

Init ==
  /\ request = None
  /\ due = {}
  /\ clock = 0
  /\ query = [q \in Query |-> "absent"]
  /\ waiter = [t \in Waiter |-> "absent"]
  /\ reply = {}

-----------------------------------------------------------------------------
\* main: a request arrives, the last one having been answered.
Main(r) ==
  LET queries == IF Legal(r) THEN Queries(r) ELSE {}
  IN /\ reply # None
     /\ request' = r
     /\ clock' = 0
     /\ due' = {lib \in Library : TasksOf(lib) \cap queries # {}}
     /\ query' = [q \in Query |-> "absent"]
     /\ waiter' = [t \in Waiter |-> "absent"]
     /\ reply' = IF ~Legal(r) THEN Rejected ELSE IF queries = {} THEN {} ELSE None

\* go_coro constructs Contact first.
NextDue(lib) == reply = None /\ lib \in due /\ ("Contact" \in due => lib = "Contact")

\* Contact() and Lookback() ask PostgreSQL and Redis for the users, before any
\* task runs.  It may take any time: UserLib tries until the server answers.
Construct(lib) ==
  LET tasks == TasksOf(lib) \cap Queries(request)
  IN /\ NextDue(lib)
     /\ due' = due \ {lib}
     /\ query' = [q \in Query |-> IF q \in tasks THEN "running" ELSE query[q]]
     /\ waiter' = [t \in Waiter |-> IF Waited(t) \cap tasks # {} THEN "running" ELSE waiter[t]]
     /\ UNCHANGED <<request, clock, reply>>

Deadline(q) == IF q \in Contacts THEN RequestTimeout(request) ELSE LookbackTimeout(request)

\* psycopg2 waits for the server, and the event loop with it.
Blocked == ~IfAsync /\ \E q \in Query : query[q] = "running"

\* A query ends.  One that ends in the instant of the timeout is late, unless
\* it holds up the timeout as well.
End(q) ==
  /\ due = {} /\ query[q] = "running"
  /\ clock < Deadline(q) \/ Blocked
  /\ \E how \in {"found", "nothing", "raised"} : query' = [query EXCEPT ![q] = how]
  /\ UNCHANGED <<request, due, clock, waiter, reply>>

Running(t) == {q \in Waited(t) : query[q] = "running"}

CancelAll(queries) == [q \in Query |-> IF q \in queries THEN "cancelled" ELSE query[q]]

\* A constructor raises, or calls exit() (contact.py:56, lookback_sql.py:60): no
\* task has run, and those that were created are cancelled.
ConstructFails(lib) ==
  /\ NextDue(lib)
  /\ reply' = Failed
  /\ query' = CancelAll({q \in Query : query[q] = "running"})
  /\ UNCHANGED <<request, due, clock, waiter>>

LookbackReady(t) ==
  ~Blocked /\ waiter[t] = "running" /\ (Running(t) = {} \/ clock >= LookbackTimeout(request))

\* lookback_coro: com.result() raises what a side raised.
LookbackEnds(t) ==
  /\ LookbackReady(t)
  /\ query' = CancelAll(Running(t))
  /\ waiter' = [waiter EXCEPT ![t] =
                  IF \E q \in Waited(t) : query[q] = "raised" THEN "raised" ELSE "done"]
  /\ UNCHANGED <<request, due, clock, reply>>

Unfinished == {q \in Contacts : query[q] = "running"} \cup {t \in Waiter : waiter[t] = "running"}

Raised == (\E q \in Contacts : query[q] = "raised") \/ (\E t \in Waiter : waiter[t] = "raised")

Results ==
  {q \in Contacts : query[q] = "found"}
  \cup {q \in UNION {Waited(t) : t \in {t \in Waiter : waiter[t] = "done"}} : query[q] = "found"}

\* Mutated form: no timeout.
RequestReadyComplete == ~Blocked /\ reply = None /\ due = {} /\ Unfinished = {}

RequestReady ==
  ~Blocked /\ reply = None /\ due = {} /\ (Unfinished = {} \/ clock >= RequestTimeout(request))

\* Mutated forms: tasks that ended forgotten; another wait when one has timed
\* out; asyncio.run without its last step; the results
\* asked of all tasks, of cancelled ones as well.
RequestEndsRaw ==
  /\ RequestReady
  /\ reply' = IF Raised THEN Failed ELSE Results
  /\ query' = CancelAll({q \in Query : query[q] = "running"})
  /\ waiter' = [t \in Waiter |-> IF waiter[t] = "running" THEN None ELSE waiter[t]]
  /\ UNCHANGED <<request, due, clock>>
RequestEndsComplete ==
  /\ RequestReady
  /\ IF Unfinished = {} THEN reply' = (IF Raised THEN Failed ELSE Results) /\ clock' = clock
                        ELSE reply' = reply /\ clock' = 0
  /\ UNCHANGED <<request, due, query, waiter>>
RequestEndsLeaving ==
  /\ RequestReady
  /\ reply' = IF Raised THEN Failed ELSE Results
  /\ query' = CancelAll({q \in Contacts : query[q] = "running"})
  /\ waiter' = [t \in Waiter |-> IF waiter[t] = "running" THEN "cancelled" ELSE waiter[t]]
  /\ UNCHANGED <<request, due, clock>>
RequestEndsStrictly ==
  /\ RequestReady
  /\ reply' = IF Raised \/ Unfinished # {} THEN Failed ELSE Results
  /\ query' = CancelAll({q \in Query : query[q] = "running"})
  /\ waiter' = [t \in Waiter |-> IF waiter[t] = "running" THEN "cancelled" ELSE waiter[t]]
  /\ UNCHANGED <<request, due, clock>>

\* go_coro: what is unfinished is cancelled; com.result() raises what a task
\* raised, and the request fails; otherwise the results are the answer.
\* Cancelling a history task does not cancel the queries it waits for:
\* asyncio.run does, before it returns.
RequestEnds ==
  /\ RequestReady
  /\ reply' = IF Raised THEN Failed ELSE Results
  /\ query' = CancelAll({q \in Query : query[q] = "running"})
  /\ waiter' = [t \in Waiter |-> IF waiter[t] = "running" THEN "cancelled" ELSE waiter[t]]
  /\ UNCHANGED <<request, due, clock>>

\* The event loop wakes what is ready before the next timeout is due.
Tick ==
  /\ reply = None /\ due = {} /\ ~RequestReady /\ \A t \in Waiter : ~LookbackReady(t)
  /\ clock < MaxClock
  /\ clock' = clock + 1
  /\ UNCHANGED <<request, due, query, waiter, reply>>

Next ==
  \/ \E r \in Request : Main(r)
  \/ \E lib \in Library : Construct(lib) \/ ConstructFails(lib)
  \/ \E q \in Query : End(q)
  \/ \E t \in Waiter : LookbackEnds(t)
  \/ RequestEnds
  \/ Tick

Spec == Init /\ [][Next]_vars

\* Time passes and the event loop runs; no query has to end, and no constructor.
Fairness == WF_vars(Tick) /\ WF_vars(RequestEnds) /\ \A t \in Waiter : WF_vars(LookbackEnds(t))
FairSpec == Spec /\ Fairness

-----------------------------------------------------------------------------
TypeOK ==
  /\ request \in Request \cup {None}
  /\ due \subseteq Library
  /\ clock \in 0..MaxClock
  /\ query \in [Query -> {"absent", "running", "found", "nothing", "raised", "cancelled"}]
  /\ waiter \in [Waiter -> {"absent", "running", "done", "raised", "cancelled"}]
  /\ reply \in (SUBSET Query) \cup {None, Failed, Rejected}

\* A side of the history that answered before its timeout is in the answer,
\* although the side it is waited for with never answers: the task that
\* collects both ends before the request gives it up.
WhatAnsweredIsShown ==
  reply \notin {None, Failed, Rejected} => \A q \in Query : query[q] = "found" => q \in reply

\* A request fails if a library could not be constructed, which leaves it due, or
\* a query raised; a query that is slow, or is cancelled, fails none, and no
\* failure is swallowed by the two waits.
LateIsNoError ==
  reply = Failed <=> reply # None /\ (due # {} \/ \E q \in Query : query[q] = "raised")

\* No request waits for its tasks longer than its timeout, which is a minute for
\* those that search.py:111 excuses and ten seconds for the others.
AnsweredInTime == reply = None => clock <= RequestTimeout(request)

\* Nothing of a request runs on when the worker takes the next one.
NothingRunsOn == reply # None => \A q \in Query : query[q] # "running"

\* Every request that has started its tasks is answered, although its queries may
\* never end.
EveryRequestIsAnswered == (reply = None /\ due = {}) ~> reply # None
=============================================================================
