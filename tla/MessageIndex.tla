---------------------------- MODULE MessageIndex ----------------------------
(***************************************************************************)
(* service/kafka2es/kafka2es.py: the Kafka consumer that files every        *)
(* message in Elasticsearch.  A message becomes a parent document, at most  *)
(* one child document for the objects in its body (pictures, a file, ...)   *)
(* and at most one for its extendInfo, in the index of its month.  A revoke  *)
(* hides the parent document, or leaves a placeholder if there is none.     *)
(*                                                                         *)
(* The consumer needs the id that the chat server gives the message in      *)
(* PostgreSQL, where the row may arrive later than the event.  Each query   *)
(* and each Elasticsearch request is a step of its own and may fail.        *)
(***************************************************************************)
EXTENDS Integers, Sequences, FiniteSets

CONSTANTS
  Message,     \* messages the chat server may send
  Shape,       \* what a message is made of, see MessageShape
  Month,       \* months, one index each
  Partition,   \* partitions of the two topics
  Worker,      \* consumer processes of the group
  Owner,       \* Owner[p]: the worker partition p is assigned to
  ChatPart,    \* ChatPart[m]: the partition the event of m goes to
  RevokePart,  \* RevokePart[m]: the partition the revoke of m goes to
  Lookups,     \* get_msg_id: queries before it gives up (5 in the code)
  MaxStray,    \* bound: events per partition that are no message
  MaxFaults,   \* bound: failing requests and dropped connections
  MaxRestarts  \* bound: restarts of workers

\* body: "long" is above 60000 characters.  objects: what handle_normal and the
\* like find in the body, written one by one ("bulk") or as one document
\* ("dict").  extends: the items of extendInfo, itself one object or a list.
MessageShape ==
  [body : {"text", "empty", "long"}, tag : {"none", "bulk", "dict"}, objects : Nat,
   form : {"none", "dict", "list"}, extends : Nat, month : Month, revokeMonth : Month]

ASSUME ShapeAssumption ==
  /\ Shape \in [Message -> MessageShape]
  /\ \A m \in Message : (Shape[m].tag = "none") <=> (Shape[m].objects = 0)
  /\ \A m \in Message : Shape[m].tag = "dict" => Shape[m].objects = 1
  /\ \A m \in Message : (Shape[m].form = "none") <=> (Shape[m].extends = 0)
  /\ \A m \in Message : Shape[m].form = "dict" => Shape[m].extends = 1
ASSUME PartitionAssumption ==
  /\ Owner \in [Partition -> Worker]
  /\ ChatPart \in [Message -> Partition]
  /\ RevokePart \in [Message -> Partition]
ASSUME LookupAssumption == Lookups \in Nat \ {0}
ASSUME BoundAssumption == MaxStray \in Nat /\ MaxFaults \in Nat /\ MaxRestarts \in Nat

MessageEvent == [kind : {"message", "revoke"}, msg : Message]
\* "skipped": another key, a room host without 'ejabhost1', a sender in
\* robot_list, a packet that does not parse; "poison": a value that json
\* rejects, or a key or value that does not decode.
StrayEvent == [kind : {"skipped", "poison"}]
Event == MessageEvent \cup StrayEvent
Document == Month \X Message

VARIABLES
  stored,     \* messages whose row is in PostgreSQL
  log,        \* log[p]: the events of partition p
  next,       \* next[p]: how many of them its worker has taken
  committed,  \* committed[p]: the offset the group has committed, or NoOffset
  origin,     \* origin[p]: where the group's reading of p began
  taken,      \* taken[p]: the most events of p that were ever taken
  up,         \* up[w]: the process runs
  connected,  \* connected[w]: its PostgreSQL connection works
  at,         \* at[w]: where worker w is in the event under way
  parent,     \* parent documents
  child,      \* child[m]: the object its child document holds, 0 for none
  ext,        \* ext[m]: the extendInfo item its document holds, 0 for none
  failures,   \* what failed so far, and in the handling of which event
  faults,     \* faults so far
  restarts    \* restarts so far

serverVars == <<stored, log>>
offsetVars == <<next, committed, origin, taken>>
processVars == <<up, connected, at>>
indexVars == <<parent, child, ext>>
faultVars == <<faults, restarts>>
vars == <<serverVars, offsetVars, processVars, indexVars, failures, faultVars>>

NoOffset == -1

Absent == [body |-> "absent", raw |-> "absent"]
Live == [body |-> "text", raw |-> "text"]
Placeholder == [body |-> "empty", raw |-> "notice"]
ParentDoc == [body : {"absent", "text", "notice", "empty"}, raw : {"absent", "text", "notice"}]

NoEvent == [kind |-> "none"]
Idle == [step |-> "idle", event |-> NoEvent, n |-> 0]
Steps == {"lookup", "connect", "parent", "child", "ext", "exists", "mask", "placeholder"}
Place == {Idle} \cup [step : Steps, event : MessageEvent, n : Nat]

-----------------------------------------------------------------------------
Init ==
  /\ stored = {}
  /\ log = [p \in Partition |-> <<>>]
  /\ next = [p \in Partition |-> 0]
  /\ committed = [p \in Partition |-> NoOffset]
  /\ origin = [p \in Partition |-> 0]
  /\ taken = [p \in Partition |-> 0]
  /\ up = [w \in Worker |-> TRUE]
  /\ connected = [w \in Worker |-> TRUE]
  /\ at = [w \in Worker |-> Idle]
  /\ parent = [d \in Document |-> Absent]
  /\ child = [m \in Message |-> 0]
  /\ ext = [m \in Message |-> 0]
  /\ failures = {}
  /\ faults = 0
  /\ restarts = 0

-----------------------------------------------------------------------------
(* The chat server                                                         *)

Has(p, e) == \E i \in DOMAIN log[p] : log[p][i] = e
Said(m) == [kind |-> "message", msg |-> m]
Revoked(m) == [kind |-> "revoke", msg |-> m]

\* The row of a message and its event are written in any order.
Store(m) ==
  /\ m \notin stored
  /\ stored' = stored \cup {m}
  /\ UNCHANGED <<log, offsetVars, processVars, indexVars, failures, faultVars>>

Send(p, e) ==
  /\ log' = [log EXCEPT ![p] = Append(@, e)]
  /\ UNCHANGED <<stored, offsetVars, processVars, indexVars, failures, faultVars>>

Say(m) == ~Has(ChatPart[m], Said(m)) /\ Send(ChatPart[m], Said(m))

\* Only a message that was sent is revoked.
Revoke(m) ==
  /\ Has(ChatPart[m], Said(m))
  /\ ~Has(RevokePart[m], Revoked(m))
  /\ Send(RevokePart[m], Revoked(m))

SendStray(p, e) ==
  /\ Cardinality({i \in DOMAIN log[p] : log[p][i] \in StrayEvent}) < MaxStray
  /\ Send(p, e)

-----------------------------------------------------------------------------
(* Taking events and committing offsets                                    *)

Ready(w) == up[w] /\ at[w] = Idle

Take(w, p) ==
  /\ Ready(w)
  /\ Owner[p] = w
  /\ next[p] < Len(log[p])
  /\ next' = [next EXCEPT ![p] = @ + 1]
  /\ taken' = [taken EXCEPT ![p] = IF @ <= next[p] THEN next[p] + 1 ELSE @]
  /\ UNCHANGED origin

TakeMessage(w, p) ==
  /\ Take(w, p)
  /\ LET e == log[p][next[p] + 1]
     IN /\ e.kind \in {"message", "revoke"}
        /\ at' = [at EXCEPT ![w] = [step |-> "lookup", event |-> e, n |-> 0]]
  /\ UNCHANGED <<serverVars, committed, up, connected, indexVars, failures, faultVars>>

TakeSkipped(w, p) ==
  /\ Take(w, p)
  /\ log[p][next[p] + 1].kind = "skipped"
  /\ UNCHANGED <<serverVars, committed, processVars, indexVars, failures, faultVars>>

\* Mutated form: the offset is committed before the value is looked at.
TakePoisonCommitting(w, p) ==
  /\ Take(w, p)
  /\ log[p][next[p] + 1].kind = "poison"
  /\ up' = [up EXCEPT ![w] = FALSE]
  /\ committed' = [committed EXCEPT ![p] = next[p] + 1]
  /\ UNCHANGED <<serverVars, connected, at, indexVars, failures, faultVars>>

\* json.loads and the deserializers are outside every try: the process ends.
TakePoison(w, p) ==
  /\ Take(w, p)
  /\ log[p][next[p] + 1].kind = "poison"
  /\ up' = [up EXCEPT ![w] = FALSE]
  /\ UNCHANGED <<serverVars, committed, connected, at, indexVars, failures, faultVars>>

\* Mutated form: auto-commit while the event is still being handled.
CommitAtOnce(w, p) ==
  /\ up[w]
  /\ Owner[p] = w
  /\ committed[p] # next[p]
  /\ committed' = [committed EXCEPT ![p] = next[p]]
  /\ UNCHANGED <<serverVars, next, origin, taken, processVars, indexVars, failures, faultVars>>

\* Auto-commit happens inside the poll for the next event only.
Commit(w, p) ==
  /\ Ready(w)
  /\ Owner[p] = w
  /\ committed[p] # next[p]
  /\ committed' = [committed EXCEPT ![p] = next[p]]
  /\ UNCHANGED <<serverVars, next, origin, taken, processVars, indexVars, failures, faultVars>>

-----------------------------------------------------------------------------
(* Handling one event                                                      *)

Msg(w) == at[w].event.msg
\* The documents of a message, and those its revoke looks for: the index of a
\* revoke is that of the month it was sent in.
DocOf(m) == <<Shape[m].month, m>>
RevokeDocOf(m) == <<Shape[m].revokeMonth, m>>

At(w, s) == up[w] /\ at[w].step = s
Goto(w, place) == at' = [at EXCEPT ![w] = place]
Step(w, s, n) == [step |-> s, event |-> at[w].event, n |-> n]
Note(w, what) == failures' = failures \cup {[event |-> at[w].event, what |-> what]}
Fault == faults < MaxFaults /\ faults' = faults + 1

\* What follows the objects, and what follows the parent document.
AfterObjects(w) == IF Shape[Msg(w)].extends > 0 THEN Step(w, "ext", 0) ELSE Idle
AfterParent(w) == IF Shape[Msg(w)].objects > 0 THEN Step(w, "child", 0) ELSE AfterObjects(w)

\* An empty or overlong body is not filed.
AfterLookup(w) ==
  CASE at[w].event.kind = "revoke" -> Step(w, "exists", 0)
    [] at[w].event.kind = "message" ->
         IF Shape[Msg(w)].body = "text" THEN Step(w, "connect", 0) ELSE Idle

\* An empty body is logged with its message, an overlong one is not.
Found(w) ==
  /\ At(w, "lookup") /\ connected[w]
  /\ Msg(w) \in stored
  /\ Goto(w, AfterLookup(w))
  /\ IF at[w].event.kind = "message" /\ Shape[Msg(w)].body = "empty"
     THEN Note(w, "empty") ELSE UNCHANGED failures
  /\ UNCHANGED <<serverVars, offsetVars, up, connected, indexVars, faultVars>>

\* Mutated form: the retries of get_msg_id are not counted.
RetryForever(w) ==
  /\ At(w, "lookup") /\ connected[w]
  /\ Msg(w) \notin stored
  /\ at[w].n + 1 < Lookups
  /\ Goto(w, Step(w, "lookup", 0))
  /\ UNCHANGED <<serverVars, offsetVars, up, connected, indexVars, failures, faultVars>>

NotFoundYet(w) ==
  /\ At(w, "lookup") /\ connected[w]
  /\ Msg(w) \notin stored
  /\ at[w].n + 1 < Lookups
  /\ Goto(w, Step(w, "lookup", at[w].n + 1))
  /\ UNCHANGED <<serverVars, offsetVars, up, connected, indexVars, failures, faultVars>>

\* Mutated form: the event goes back to the end of its partition.
Requeue(w) ==
  /\ At(w, "lookup") /\ connected[w]
  /\ Msg(w) \notin stored
  /\ at[w].n + 1 = Lookups
  /\ log' = [log EXCEPT ![ChatPart[Msg(w)]] = Append(@, at[w].event)]
  /\ Goto(w, Idle)
  /\ UNCHANGED <<stored, offsetVars, up, connected, indexVars, failures, faultVars>>

\* The event is dropped; its message id is noted in a msgidfailed log.
NeverFound(w) ==
  /\ At(w, "lookup") /\ connected[w]
  /\ Msg(w) \notin stored
  /\ at[w].n + 1 = Lookups
  /\ Note(w, "no id")
  /\ Goto(w, Idle)
  /\ UNCHANGED <<serverVars, offsetVars, up, connected, indexVars, faultVars>>

\* The connection of UserLib is opened once: after it dropped, every query
\* raises, the exception is logged and the event dropped.
LookupRaises(w) ==
  /\ At(w, "lookup") /\ ~connected[w]
  /\ Note(w, "data error")
  /\ Goto(w, Idle)
  /\ UNCHANGED <<serverVars, offsetVars, up, connected, indexVars, faultVars>>

Connect(w) ==
  /\ At(w, "connect")
  /\ Goto(w, Step(w, "parent", 0))
  /\ UNCHANGED <<serverVars, offsetVars, up, connected, indexVars, failures, faultVars>>

\* handle_body runs outside the try: no healthy node ends the process.
ConnectRaises(w) ==
  /\ At(w, "connect")
  /\ Fault
  /\ up' = [up EXCEPT ![w] = FALSE]
  /\ UNCHANGED <<serverVars, offsetVars, connected, at, indexVars, failures, restarts>>

WriteParent(w) ==
  /\ At(w, "parent")
  /\ parent' = [parent EXCEPT ![DocOf(Msg(w))] = Live]
  /\ Goto(w, AfterParent(w))
  /\ UNCHANGED <<serverVars, offsetVars, up, connected, child, ext, failures, faultVars>>

\* Mutated form: nothing is logged.
ParentFailsSilently(w) ==
  /\ At(w, "parent")
  /\ Fault
  /\ \/ UNCHANGED parent
     \/ parent' = [parent EXCEPT ![DocOf(Msg(w))] = Live]
  /\ Goto(w, AfterParent(w))
  /\ UNCHANGED <<serverVars, offsetVars, up, connected, child, ext, failures, restarts>>

\* A request that raises may have been carried out.  The children are written
\* whether or not the parent was.
ParentFails(w) ==
  /\ At(w, "parent")
  /\ Fault
  /\ Note(w, "parent")
  /\ \/ UNCHANGED parent
     \/ parent' = [parent EXCEPT ![DocOf(Msg(w))] = Live]
  /\ Goto(w, AfterParent(w))
  /\ UNCHANGED <<serverVars, offsetVars, up, connected, child, ext, restarts>>

\* Every object has the message's id, so each replaces the one before it.
WriteObject(w) ==
  /\ At(w, "child")
  /\ child' = [child EXCEPT ![Msg(w)] = at[w].n + 1]
  /\ Goto(w, IF at[w].n + 1 < Shape[Msg(w)].objects
             THEN Step(w, "child", at[w].n + 1) ELSE AfterObjects(w))
  /\ UNCHANGED <<serverVars, offsetVars, up, connected, parent, ext, failures, faultVars>>

\* A failing bulk gives up the other objects, a failing single document gives
\* up the extendInfo as well; the log does not say of which message.
ObjectFails(w) ==
  /\ At(w, "child")
  /\ Fault
  /\ Note(w, "objects")
  /\ \/ UNCHANGED child
     \/ child' = [child EXCEPT ![Msg(w)] = at[w].n + 1]
  /\ Goto(w, IF Shape[Msg(w)].tag = "bulk" THEN AfterObjects(w) ELSE Idle)
  /\ UNCHANGED <<serverVars, offsetVars, up, connected, parent, ext, restarts>>

AfterExtend(w) ==
  IF at[w].n + 1 < Shape[Msg(w)].extends THEN Step(w, "ext", at[w].n + 1) ELSE Idle

WriteExtend(w) ==
  /\ At(w, "ext")
  /\ ext' = [ext EXCEPT ![Msg(w)] = at[w].n + 1]
  /\ Goto(w, AfterExtend(w))
  /\ UNCHANGED <<serverVars, offsetVars, up, connected, parent, child, failures, faultVars>>

\* A failing item of a list is logged; of a failing extendInfo that is no list,
\* handle_body returns a string that nobody looks at.
ExtendFails(w) ==
  /\ At(w, "ext")
  /\ Fault
  /\ Note(w, IF Shape[Msg(w)].form = "dict" THEN "extendInfo" ELSE "item")
  /\ \/ UNCHANGED ext
     \/ ext' = [ext EXCEPT ![Msg(w)] = at[w].n + 1]
  /\ Goto(w, AfterExtend(w))
  /\ UNCHANGED <<serverVars, offsetVars, up, connected, parent, child, restarts>>

-----------------------------------------------------------------------------
(* Revoking: revoke_es                                                     *)

\* Mutated form: always a placeholder.
AssumeMissing(w) ==
  /\ At(w, "exists")
  /\ Goto(w, Step(w, "placeholder", 0))
  /\ UNCHANGED <<serverVars, offsetVars, up, connected, indexVars, failures, faultVars>>

Exists(w) ==
  /\ At(w, "exists")
  /\ Goto(w, Step(w, IF parent[RevokeDocOf(Msg(w))] = Absent THEN "placeholder" ELSE "mask", 0))
  /\ UNCHANGED <<serverVars, offsetVars, up, connected, indexVars, failures, faultVars>>

MaskWith(w, doc) ==
  /\ At(w, "mask")
  /\ parent' = [parent EXCEPT ![RevokeDocOf(Msg(w))] = doc]
  /\ Goto(w, Idle)
  /\ UNCHANGED <<serverVars, offsetVars, up, connected, child, ext, failures, faultVars>>

Masked(doc) == [doc EXCEPT !.body = "notice"]

\* Mutated form: the other of the two text fields is replaced.
MaskRaw(w) == MaskWith(w, [parent[RevokeDocOf(Msg(w))] EXCEPT !.raw = "notice"])

\* The update replaces body, the field searches match, and nothing else.
Mask(w) == MaskWith(w, Masked(parent[RevokeDocOf(Msg(w))]))

PutPlaceholder(w) ==
  /\ At(w, "placeholder")
  /\ parent' = [parent EXCEPT ![RevokeDocOf(Msg(w))] = Placeholder]
  /\ Goto(w, Idle)
  /\ UNCHANGED <<serverVars, offsetVars, up, connected, child, ext, failures, faultVars>>

\* The first failure is tried again without the packet.
PlaceholderRetry(w) ==
  /\ At(w, "placeholder") /\ at[w].n = 0
  /\ Fault
  /\ \/ UNCHANGED parent
     \/ parent' = [parent EXCEPT ![RevokeDocOf(Msg(w))] = Placeholder]
  /\ Goto(w, Step(w, "placeholder", 1))
  /\ UNCHANGED <<serverVars, offsetVars, up, connected, child, ext, failures, restarts>>

\* Any other failure is logged and the revoke given up.
RevokeFails(w) ==
  /\ At(w, "exists") \/ At(w, "mask") \/ (At(w, "placeholder") /\ at[w].n = 1)
  /\ Fault
  /\ Note(w, "revoke")
  /\ \/ UNCHANGED parent
     \/ /\ ~At(w, "exists")
        /\ parent' = [parent EXCEPT ![RevokeDocOf(Msg(w))] =
                        IF At(w, "mask") THEN Masked(@) ELSE Placeholder]
  /\ Goto(w, Idle)
  /\ UNCHANGED <<serverVars, offsetVars, up, connected, child, ext, restarts>>

-----------------------------------------------------------------------------
(* Processes                                                               *)

\* PostgreSQL closes the connection; nothing in the process notices.
Drop(w) ==
  /\ up[w] /\ connected[w]
  /\ Fault
  /\ connected' = [connected EXCEPT ![w] = FALSE]
  /\ UNCHANGED <<serverVars, offsetVars, up, at, indexVars, failures, restarts>>

\* The worker was killed or died; a new one resumes at the committed offsets,
\* or behind the last event of a partition that has none: auto_offset_reset is
\* left at "latest" (the constructor of UserLib waits for PostgreSQL).
RestartAt(w, offset) ==
  /\ restarts < MaxRestarts
  /\ restarts' = restarts + 1
  /\ up' = [up EXCEPT ![w] = TRUE]
  /\ connected' = [connected EXCEPT ![w] = TRUE]
  /\ at' = [at EXCEPT ![w] = Idle]
  /\ next' = [p \in Partition |-> IF Owner[p] = w THEN offset[p] ELSE next[p]]
  /\ origin' = [p \in Partition |-> IF Owner[p] = w /\ committed[p] = NoOffset
                                    THEN Len(log[p]) ELSE origin[p]]
  /\ UNCHANGED <<serverVars, committed, taken, indexVars, failures, faults>>

ResumeAt(p) == IF committed[p] = NoOffset THEN Len(log[p]) ELSE committed[p]

\* Mutated forms: one offset too early; behind the last event in any case.
RestartOneBack(w) == RestartAt(w, [p \in Partition |-> ResumeAt(p) - 1])
RestartAtEnd(w) == RestartAt(w, [p \in Partition |-> Len(log[p])])

Restart(w) == RestartAt(w, [p \in Partition |-> ResumeAt(p)])

Server ==
  \/ \E m \in Message : Store(m) \/ Say(m) \/ Revoke(m)
  \/ \E p \in Partition, e \in StrayEvent : SendStray(p, e)

TakeNext(w) ==
  \E p \in Partition : TakeMessage(w, p) \/ TakeSkipped(w, p) \/ TakePoison(w, p)

Continue(w) ==
  \/ Found(w) \/ NotFoundYet(w) \/ NeverFound(w) \/ LookupRaises(w)
  \/ Connect(w) \/ WriteParent(w) \/ WriteObject(w) \/ WriteExtend(w)
  \/ Exists(w) \/ Mask(w) \/ PutPlaceholder(w)

Fails(w) ==
  \/ ConnectRaises(w) \/ ParentFails(w) \/ ObjectFails(w) \/ ExtendFails(w)
  \/ PlaceholderRetry(w) \/ RevokeFails(w) \/ Drop(w)

Next ==
  \/ Server
  \/ \E w \in Worker :
       \/ TakeNext(w) \/ Continue(w) \/ Fails(w) \/ Restart(w)
       \/ \E p \in Partition : Commit(w, p)

Spec == Init /\ [][Next]_vars

\* A running process goes on; nobody has to restart one that ended, and the
\* chat server, the faults and the commit timer owe nothing.
Fairness == \A w \in Worker : WF_vars(TakeNext(w) \/ Continue(w))

FairSpec == Spec /\ Fairness

-----------------------------------------------------------------------------
TypeOK ==
  /\ stored \subseteq Message
  /\ log \in [Partition -> Seq(Event)]
  /\ next \in [Partition -> Nat]
  /\ committed \in [Partition -> Nat \cup {NoOffset}]
  /\ origin \in [Partition -> Nat]
  /\ taken \in [Partition -> Nat]
  /\ up \in [Worker -> BOOLEAN]
  /\ connected \in [Worker -> BOOLEAN]
  /\ at \in [Worker -> Place]
  /\ parent \in [Document -> ParentDoc]
  /\ child \in [Message -> Nat]
  /\ ext \in [Message -> Nat]
  /\ \A f \in failures : f.event \in MessageEvent
  /\ faults \in Nat
  /\ restarts \in Nat

\* Committed since the group's reading began: what was sent before a first
\* commit that never came, no process of the group looks at again.
Committed(e) == \E p \in Partition : \E i \in (origin[p] + 1)..committed[p] : log[p][i] = e

Failed(e) == \E f \in failures : f.event = e
\* The failures whose log carries the message.
Named(e) ==
  \E f \in failures : f.event = e /\ f.what \in {"no id", "data error", "empty", "parent", "item"}
Lost(m, what) == [event |-> Said(m), what |-> what] \in failures

\* Whatever else fails and however often workers end and resume, a committed
\* message whose body is not overlong is in a log, or is filed with its last
\* object and its last extendInfo item but for the documents whose own request
\* failed (and the extendInfo behind a failed single object): at-least-once
\* delivery loses nothing else, though what it loses may be in no log.
LossesAreFailures ==
  \A m \in Message : Committed(Said(m)) /\ Shape[m].body # "long" =>
    \/ Named(Said(m))
    \/ /\ parent[DocOf(m)] # Absent
       /\ child[m] = Shape[m].objects \/ Lost(m, "objects")
       /\ \/ ext[m] = Shape[m].extends
          \/ Lost(m, "extendInfo")
          \/ Shape[m].tag = "dict" /\ Lost(m, "objects")

\* A child document without a parent is there only after a parent write that
\* was logged as failed (handle_body goes on after "INDEX MSG TO ES FALIED").
NoUnreportedOrphans ==
  \A m \in Message : child[m] > 0 \/ ext[m] > 0 =>
    \/ parent[DocOf(m)] # Absent
    \/ Lost(m, "parent")

\* A message and its revoke are handled in the order they were sent, and meet
\* the same index.
Ordered(m) ==
  /\ ChatPart[m] = RevokePart[m]
  /\ Shape[m].month = Shape[m].revokeMonth

\* Once the revoke of a message is committed and none of its requests failed,
\* no search can match the message's text again, replays included.
RevokedStaysHidden ==
  \A m \in Message :
    Ordered(m) /\ Committed(Revoked(m)) /\ ~Failed(Revoked(m)) =>
      parent[DocOf(m)].body # "text"

\* The message is handled again: events behind it were taken before.
Replaying(m) ==
  LET p == ChatPart[m] IN at[Owner[p]].event = Said(m) /\ next[p] < taken[p]

\* A hidden text comes back only in the step that files its message again
\* after a restart, or when the message overtook its revoke in another
\* partition.
OnlyReplayUnmasks ==
  [][\A m \in Message :
       /\ Ordered(m)
       /\ parent[DocOf(m)].body \in {"notice", "empty"}
       /\ parent'[DocOf(m)].body = "text"
       => Replaying(m)]_vars

\* Since the group's reading of a partition began, it has not committed past a
\* poisonous event: each new process meets it again and ends, and nothing
\* behind it is filed (before the first commit, a new process begins behind
\* it).
PoisonIsNeverPassed ==
  \A p \in Partition : \A i \in DOMAIN log[p] :
    i > origin[p] /\ log[p][i].kind = "poison" => committed[p] < i

Quiet(p) == next[p] = Len(log[p]) /\ at[Owner[p]] = Idle

\* A worker that keeps running reaches the end of its partitions, rows that
\* never arrive and failing requests notwithstanding.
CatchesUp == \A p \in Partition : ~Quiet(p) ~> (Quiet(p) \/ ~up[Owner[p]])
=============================================================================
