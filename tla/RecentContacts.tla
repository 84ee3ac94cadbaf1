--------------------------- MODULE RecentContacts ---------------------------
(***************************************************************************)
(* service/cache/cache.py: the Kafka consumer that keeps, in Redis, the    *)
(* contacts and rooms each user talked to last (a list, newest first, cut  *)
(* to MAX_BUFFER) and how often (a sorted set of counters).  The search     *)
(* service reads these keys to order its answers.                          *)
(*                                                                         *)
(* Every Redis command is a step of its own, so a reader, a failing        *)
(* command or a crash can come between any two of them.  One process reads  *)
(* both topics, an event at a time; offsets are committed between events    *)
(* only.  A process that ends stays down until somebody starts another,      *)
(* which resumes at the committed offsets or, of a topic that has none,      *)
(* begins at the end.                                                      *)
(***************************************************************************)
EXTENDS RedisList, FiniteSets

CONSTANTS
  User,        \* qualified user ids, name@host
  Room,        \* qualified room ids
  HostOf,      \* the host of a user, and of a room without 'conference.'
  Domain,      \* the hosts configured in host_info
  Event,       \* the events producers may send
  MaxBuffer,   \* conf/configure.ini: [cache] max_buffer
  MaxLog,      \* bound: events per topic
  MaxFailures, \* bound: Redis commands that raise
  MaxDeaths    \* bound: times the process is killed

Contact == User \cup Room
Topic == {"single", "muc"}
ListKey == Topic \X User

ChatEvent == [kind : {"chat"}, from : User, to : User]
GroupEvent == [kind : {"groupchat"}, from : User, users : Seq(User), room : Room]
\* Any other event.  "skipped": another key ('revoke', 'consult', ...), or a
\* value from which json or a field access raises before any Redis command is
\* sent; "undecodable": a key or value that m.decode rejects, or no key.
StrayEvent == [kind : {"skipped", "undecodable"}, topic : Topic]

ASSUME EventAssumption == Event \subseteq ChatEvent \cup GroupEvent \cup StrayEvent
ASSUME BufferAssumption == MaxBuffer \in Nat \ {0}
ASSUME BoundAssumption == MaxLog \in Nat /\ MaxFailures \in Nat /\ MaxDeaths \in Nat

VARIABLES
  log,        \* log[t]: the events of topic t, in order
  up,         \* the process runs
  next,       \* next[t]: how many of them it has taken
  committed,  \* committed[t]: the offset the group has committed, or NoOffset
  missed,     \* some event was passed over, or given up by a process that ended
  jobs,       \* jobs[t]: what is left to do for the event under way
  step,       \* step[t]: the Redis command the job at the head waits for
  contacts,   \* contacts[t]: the local variable read by LRANGE
  recent,     \* Redis lists searchSingle_<user>, searchMuc_<user>
  trace,      \* Redis sorted sets singleTrace_<user>, mucTrace_<user>
  failures,   \* commands that raised so far
  deaths      \* times the process has ended

processVars == <<up, missed>>
consumerVars == <<next, committed, jobs, step, contacts>>
redisVars == <<recent, trace>>
faultVars == <<failures, deaths>>
vars == <<log, processVars, consumerVars, redisVars, faultVars>>

NoOffset == -1

-----------------------------------------------------------------------------
(* What an event asks for                                                  *)

TopicOf(e) ==
  CASE e.kind = "chat" -> "single"
    [] e.kind = "groupchat" -> "muc"
    [] e.kind \in {"skipped", "undecodable"} -> e.topic

\* domain is a string when one host is configured and a list otherwise; no
\* host equals a list, so with several hosts every event is filtered out.
DomainIsString == Cardinality(Domain) = 1

Accepted(e) ==
  /\ e.kind \in {"chat", "groupchat"}
  /\ DomainIsString
  /\ HostOf[e.from] \in Domain
  /\ IF e.kind = "chat" THEN HostOf[e.to] \in Domain ELSE HostOf[e.room] \in Domain

Touch(topic, user, value) == [op |-> "touch", key |-> <<topic, user>>, value |-> value]
Count(topic, user, value) == [op |-> "count", key |-> <<topic, user>>, value |-> value]
Job == [op : {"touch", "count"}, key : ListKey, value : Contact]

\* Mutated forms (for the checks that each property can fail): the counter of
\* the sender only.
OneSidedJobs(e) ==
  << Touch("single", e.from, e.to), Touch("single", e.to, e.from),
     Count("single", e.from, e.to) >>

\* The Redis work of one event, in the order handle_redis does it: the lists
\* of both sides of a chat (or of every user named in userlist), then the counters
\* of both sides of a chat (of the sender alone for a room).
ChatJobs(e) ==
  << Touch("single", e.from, e.to), Touch("single", e.to, e.from),
     Count("single", e.from, e.to), Count("single", e.to, e.from) >>

GroupJobs(e) ==
  Append([i \in 1..Len(e.users) |-> Touch("muc", e.users[i], e.room)],
         Count("muc", e.from, e.room))

JobsOf(e) ==
  CASE ~Accepted(e) -> <<>>
    [] Accepted(e) /\ e.kind = "chat" -> ChatJobs(e)
    [] Accepted(e) /\ e.kind = "groupchat" -> GroupJobs(e)

-----------------------------------------------------------------------------
Init ==
  /\ log = [t \in Topic |-> <<>>]
  /\ up = TRUE
  /\ next = [t \in Topic |-> 0]
  /\ committed = [t \in Topic |-> NoOffset]
  /\ missed = FALSE
  /\ jobs = [t \in Topic |-> <<>>]
  /\ step = [t \in Topic |-> "lrange"]
  /\ contacts = [t \in Topic |-> <<>>]
  /\ recent = [k \in ListKey |-> <<>>]
  /\ trace = [k \in ListKey |-> [c \in Contact |-> 0]]
  /\ failures = 0
  /\ deaths = 0

\* The chat server appends an event to its topic.
Publish(e) ==
  /\ Len(log[TopicOf(e)]) < MaxLog
  /\ log' = [log EXCEPT ![TopicOf(e)] = Append(@, e)]
  /\ UNCHANGED <<processVars, consumerVars, redisVars, faultVars>>

Idle == \A t \in Topic : jobs[t] = <<>>

\* The for loop of add_queue takes the next event of a topic and filters it.
Poll(t) ==
  /\ up /\ Idle
  /\ next[t] < Len(log[t])
  /\ LET e == log[t][next[t] + 1]
     IN /\ e.kind # "undecodable"
        /\ jobs' = [jobs EXCEPT ![t] = JobsOf(e)]
  /\ next' = [next EXCEPT ![t] = @ + 1]
  /\ UNCHANGED <<log, processVars, committed, step, contacts, redisVars, faultVars>>

\* Mutated form: a commit in the middle of an event.
CommitAtOnce ==
  /\ up
  /\ committed # next
  /\ committed' = next
  /\ UNCHANGED <<log, processVars, next, jobs, step, contacts, redisVars, faultVars>>

\* Auto-commit runs inside the poll, never while an event is being handled.
Commit ==
  /\ up /\ Idle
  /\ committed # next
  /\ committed' = next
  /\ UNCHANGED <<log, processVars, next, jobs, step, contacts, redisVars, faultVars>>

\* The job at the head of topic t, when it is a list job at command s.
AtCommand(t, s) ==
  /\ jobs[t] # <<>>
  /\ Head(jobs[t]).op = "touch"
  /\ step[t] = s

Lrange(t) ==
  /\ AtCommand(t, "lrange")
  /\ contacts' = [contacts EXCEPT ![t] = recent[Head(jobs[t]).key]]
  /\ step' = [step EXCEPT ![t] = "delete"]
  /\ UNCHANGED <<log, processVars, next, committed, jobs, redisVars, faultVars>>

\* Mutated form: LPUSH onto the list that was not deleted.
SkipDelete(t) ==
  /\ AtCommand(t, "delete")
  /\ step' = [step EXCEPT ![t] = "lpush"]
  /\ UNCHANGED <<log, processVars, next, committed, jobs, contacts, redisVars, faultVars>>

Delete(t) ==
  /\ AtCommand(t, "delete")
  /\ recent' = [recent EXCEPT ![Head(jobs[t]).key] = <<>>]
  /\ step' = [step EXCEPT ![t] = "lpush"]
  /\ UNCHANGED <<log, processVars, next, committed, jobs, contacts, trace, faultVars>>

PushBack(t, pushed) ==
  /\ AtCommand(t, "lpush")
  /\ recent' = [recent EXCEPT ![Head(jobs[t]).key] = LPush(@, pushed)]
  /\ step' = [step EXCEPT ![t] = "ltrim"]
  /\ UNCHANGED <<log, processVars, next, committed, jobs, contacts, trace, faultVars>>

\* Mutated forms: the contact not removed first, the contact pushed before the
\* old list, the old list not pushed back.
LpushKeepingOld(t) == PushBack(t, Append(Reverse(contacts[t]), Head(jobs[t]).value))
LpushValueFirst(t) ==
  PushBack(t, <<Head(jobs[t]).value>>
              \o Reverse(RemoveFirst(contacts[t], Head(jobs[t]).value)))
LpushValueOnly(t) == PushBack(t, <<Head(jobs[t]).value>>)

Lpush(t) ==
  PushBack(t, Append(Reverse(RemoveFirst(contacts[t], Head(jobs[t]).value)),
                     Head(jobs[t]).value))

KeepOnly(t, list) ==
  /\ AtCommand(t, "ltrim")
  /\ recent' = [recent EXCEPT ![Head(jobs[t]).key] = list]
  /\ step' = [step EXCEPT ![t] = "lrange"]
  /\ jobs' = [jobs EXCEPT ![t] = Tail(@)]
  /\ contacts' = [contacts EXCEPT ![t] = <<>>]
  /\ UNCHANGED <<log, processVars, next, committed, trace, faultVars>>

\* Mutated forms: an end index one too far, the wrong end kept.
LtrimOneMore(t) == KeepOnly(t, LTrim(recent[Head(jobs[t]).key], MaxBuffer + 1))
LtrimOldest(t) ==
  KeepOnly(t, Reverse(LTrim(Reverse(recent[Head(jobs[t]).key]), MaxBuffer)))

Ltrim(t) == KeepOnly(t, LTrim(recent[Head(jobs[t]).key], MaxBuffer))

Zincrby(t) ==
  /\ jobs[t] # <<>>
  /\ Head(jobs[t]).op = "count"
  /\ trace' = [trace EXCEPT ![Head(jobs[t]).key][Head(jobs[t]).value] = @ + 1]
  /\ jobs' = [jobs EXCEPT ![t] = Tail(@)]
  /\ UNCHANGED <<log, processVars, next, committed, step, contacts, recent, faultVars>>

\* Mutated form: the event is begun again, as often as it takes.
FailRetrying(t) ==
  /\ jobs[t] # <<>>
  /\ jobs' = [jobs EXCEPT ![t] = JobsOf(log[t][next[t]])]
  /\ step' = [step EXCEPT ![t] = "lrange"]
  /\ contacts' = [contacts EXCEPT ![t] = <<>>]
  /\ UNCHANGED <<log, processVars, next, committed, redisVars, faultVars>>

\* A Redis command raises: the exception is logged and the rest of the event
\* is given up.
Fail(t) ==
  /\ failures < MaxFailures
  /\ jobs[t] # <<>>
  /\ failures' = failures + 1
  /\ jobs' = [jobs EXCEPT ![t] = <<>>]
  /\ step' = [step EXCEPT ![t] = "lrange"]
  /\ contacts' = [contacts EXCEPT ![t] = <<>>]
  /\ UNCHANGED <<log, processVars, next, committed, redisVars, deaths>>

\* The process ends.  A new one takes a topic from the committed offset; if
\* there is none, nobody finishes the event under way.
End(offset) ==
  /\ up
  /\ up' = FALSE
  /\ deaths' = deaths + 1
  /\ next' = offset
  /\ missed' = (missed \/ \E t \in Topic : committed[t] = NoOffset /\ jobs[t] # <<>>)
  /\ jobs' = [t \in Topic |-> <<>>]
  /\ step' = [t \in Topic |-> "lrange"]
  /\ contacts' = [t \in Topic |-> <<>>]
  /\ UNCHANGED <<log, committed, redisVars, failures>>

Resume == [t \in Topic |-> IF committed[t] = NoOffset THEN next[t] ELSE committed[t]]

\* Mutated form: one offset too early.
DieOneBack == deaths < MaxDeaths /\ End([t \in Topic |-> Resume[t] - 1])

\* It is killed, or dies, between any two commands.
Die == deaths < MaxDeaths /\ End(Resume)

\* The deserializers run on a whole batch, outside the try: an event that does
\* not decode ends the process before the events fetched with it are handled.
Undecodable(t) ==
  /\ Idle
  /\ \E i \in (next[t] + 1)..Len(log[t]) : log[t][i].kind = "undecodable"
  /\ End(Resume)

\* Somebody starts the process again; auto_offset_reset is left at "latest".
Start ==
  /\ ~up
  /\ deaths <= MaxDeaths
  /\ up' = TRUE
  /\ next' = [t \in Topic |-> IF committed[t] = NoOffset THEN Len(log[t]) ELSE next[t]]
  /\ missed' = (missed \/ next' # next)
  /\ UNCHANGED <<log, committed, jobs, step, contacts, redisVars, faultVars>>

Command(t) == Lrange(t) \/ Delete(t) \/ Lpush(t) \/ Ltrim(t) \/ Zincrby(t)

Next ==
  \/ \E e \in Event : Publish(e)
  \/ \E t \in Topic : Poll(t) \/ Command(t) \/ Fail(t) \/ Undecodable(t)
  \/ Commit \/ Die \/ Start

Spec == Init /\ [][Next]_vars

\* The running process goes on; producers, faults, the auto-commit timer and
\* whoever starts a process owe nothing.
Fairness == WF_vars(\E t \in Topic : Poll(t) \/ Command(t) \/ Undecodable(t))

FairSpec == Spec /\ Fairness

-----------------------------------------------------------------------------
TypeOK ==
  /\ log \in [Topic -> Seq(Event)]
  /\ up \in BOOLEAN
  /\ next \in [Topic -> Nat]
  /\ committed \in [Topic -> Nat \cup {NoOffset}]
  /\ jobs \in [Topic -> Seq(Job)]
  /\ step \in [Topic -> {"lrange", "delete", "lpush", "ltrim"}]
  /\ contacts \in [Topic -> Seq(Contact)]
  /\ recent \in [ListKey -> Seq(Contact)]
  /\ trace \in [ListKey -> [Contact -> Nat]]
  /\ failures \in Nat
  /\ missed \in BOOLEAN
  /\ deaths \in Nat

\* Topic t has no event waiting or under way.
Quiet(t) == next[t] = Len(log[t]) /\ jobs[t] = <<>>

\* The times the first n events of j's topic ask for job j.
Asked(j, n) ==
  LET asking(jobList) == {i \in DOMAIN jobList : jobList[i] = j}
  IN Cardinality(UNION {{p} \X asking(JobsOf(log[j.key[1]][p])) : p \in 1..n})

\* The offset of the last event that puts c at the head of list k, 0 if none.
LastTouch(k, c) ==
  LET t == k[1]
      touching == {p \in 1..Len(log[t]) :
                     Contains(JobsOf(log[t][p]), Touch(t, k[2], c))}
  IN Max(touching \cup {0})

\* No list names a contact twice, whatever step a consumer stopped at
\* (cache.py:70-71 removes the contact from what it pushes back).
NoDuplicates == \A k \in ListKey : IsInjective(recent[k])

Trimming(k) == AtCommand(k[1], "ltrim") /\ Head(jobs[k[1]]).key = k

\* A list outgrows MAX_BUFFER by at most the one contact being trimmed away
\* and one more for every event given up between its LPUSH and its LTRIM.
BoundedLists ==
  \A k \in ListKey :
    Len(recent[k]) <= MaxBuffer + failures + deaths + (IF Trimming(k) THEN 1 ELSE 0)

\* Once a topic is consumed, every list is in the order of the conversations'
\* last messages, even when a new process handled some of them again, unless
\* one began behind messages that nobody had handled.
NewestFirst ==
  \A k \in ListKey : Quiet(k[1]) /\ failures = 0 /\ ~missed =>
    LET ages == [i \in DOMAIN recent[k] |-> LastTouch(k, recent[k][i])]
    IN /\ \A i \in DOMAIN ages : ages[i] > 0
       /\ \A i, j \in DOMAIN ages : i < j => ages[i] > ages[j]

\* Without faults, a contact a user exchanged messages with is missing from
\* the list only when MAX_BUFFER contacts are in it.
NothingForgotten ==
  \A k \in ListKey, c \in Contact :
    Quiet(k[1]) /\ failures = 0 /\ deaths = 0 /\ LastTouch(k, c) > 0 =>
      \/ Contains(recent[k], c)
      \/ Len(recent[k]) = MaxBuffer /\ LastTouch(k, c) < LastTouch(k, recent[k][MaxBuffer])

\* The counters count every committed event at least once, unless one of its
\* commands failed or a new process began behind it, and no event more than
\* once per process.
CountsBounded ==
  \A k \in ListKey, c \in Contact :
    LET j == Count(k[1], k[2], c)
    IN /\ failures = 0 /\ ~missed => trace[k][c] >= Asked(j, committed[k[1]])
       /\ trace[k][c] <= (1 + deaths) * Asked(j, Len(log[k[1]]))

\* The two sides of a conversation count the same messages, up to one for
\* every event given up between its two ZINCRBYs.
SidesAgree ==
  Quiet("single") =>
    \A u, v \in User :
      trace[<<"single", u>>][v] <= trace[<<"single", v>>][u] + failures + deaths

\* A consumer that falls behind catches up, unless it ends: every event is
\* taken and its Redis work done or given up.
CatchesUp == \A t \in Topic : ~Quiet(t) ~> (Quiet(t) \/ ~up)

-----------------------------------------------------------------------------
(* Refinement of RecencyView                                               *)

\* Between DELETE and LPUSH the list lives in the consumer's memory only.
Rewriting(k) == AtCommand(k[1], "lpush") /\ Head(jobs[k[1]]).key = k

\* What is read of a list, and what the list will be made of.
View == [k \in ListKey |-> LTrim(recent[k], MaxBuffer)]
Kept ==
  [k \in ListKey |->
     LTrim(IF Rewriting(k) THEN contacts[k[1]] ELSE recent[k], MaxBuffer)]

Abstract == INSTANCE RecencyView WITH view <- View, kept <- Kept, faults <- failures + deaths

\* Among the first MAX_BUFFER contacts that get_user_habit reads of a list, the
\* list is whole or, between DELETE and LPUSH, empty; it comes back with one
\* contact moved to its head, or is lost to a fault.
RefinesView == Abstract!Spec
=============================================================================
