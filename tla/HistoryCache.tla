---------------------------- MODULE HistoryCache ----------------------------
(***************************************************************************)
(* The Redis caches of the history search with Elasticsearch (if_es and     *)
(* if_cache set): a request for single conversations and rooms together     *)
(* first looks for the merged answer in one entry per user, and otherwise    *)
(* runs a task per side, each with an entry per keyword (lookback_coro of    *)
(* service/search/lookback.py, history_user and history_muc of               *)
(* lookback_es.py, utils/redis_utils.py).                                   *)
(*                                                                         *)
(* One user, whose requests several worker processes handle at the same      *)
(* time.  Every keyword is found on both sides; instead of what is found the *)
(* model keeps how long ago that was, in ticks.  Which page is cut from an   *)
(* answer, and requests that name a time range or a conversation besides the *)
(* keyword, are not modelled.                                               *)
(***************************************************************************)
EXTENDS Naturals

CONSTANTS
  Term,      \* keywords
  Worker,    \* worker processes
  Expiry,    \* ticks until an entry expires (ex=300)
  Patience,  \* ticks a request waits for its sides (self.timeout)
  None       \* no entry, no answer

ASSUME TicksAssumption == Expiry \in Nat \ {0} /\ Patience \in Nat \ {0}

Side == {"single", "muc"}

VARIABLES
  aggCache,    \* the merged answer: its keyword, the data, ticks left
  sideCache,   \* what each side found for each keyword: age, ticks left
  request,     \* the request each worker handles, None if it is idle
  answer       \* the answer the last step gave, None if it gave none

caches == <<aggCache, sideCache>>
vars == <<aggCache, sideCache, request, answer>>

Init ==
  /\ aggCache = None
  /\ sideCache = [s \in Side |-> [t \in Term |-> None]]
  /\ request = [w \in Worker |-> None]
  /\ answer = None

-----------------------------------------------------------------------------
(* The merged answer                                                       *)

Asked(term) ==
  [term |-> term, step |-> "get", waited |-> 0,
   side |-> [s \in Side |-> "get"], age |-> [s \in Side |-> 0]]

Silent == answer' = None

At(w, step) == request[w] # None /\ request[w].step = step

Ask(w, term) ==
  /\ request[w] = None
  /\ request' = [request EXCEPT ![w] = Asked(term)]
  /\ UNCHANGED caches /\ Silent

Return(w, value) ==
  /\ request' = [request EXCEPT ![w] = None]
  /\ answer' = value

Answered(term, data) == [asked |-> term, data |-> data]

\* Mutated form: the entry of another keyword taken for this one's.
GetAggCacheOfAny(w) ==
  /\ At(w, "get")
  /\ IF aggCache = None
     THEN request' = [request EXCEPT ![w].step = "wait"] /\ Silent
     ELSE Return(w, Answered(request[w].term, aggCache.data))
  /\ UNCHANGED caches

\* get_agg_cache: the entry of the user, if it is about this keyword.
GetAggCache(w) ==
  /\ At(w, "get")
  /\ IF aggCache # None /\ aggCache.term = request[w].term
     THEN Return(w, Answered(request[w].term, aggCache.data))
     ELSE /\ request' = [request EXCEPT ![w].step = IF aggCache = None THEN "wait" ELSE "delete"]
          /\ Silent
  /\ UNCHANGED caches

\* The entry is about another keyword, or was when it was read.
DeleteAggCache(w) ==
  /\ At(w, "delete")
  /\ aggCache' = None
  /\ request' = [request EXCEPT ![w].step = "wait"]
  /\ sideCache' = sideCache /\ Silent

-----------------------------------------------------------------------------
(* The two tasks                                                           *)

\* A side is at this step; the task of the single side starts first.
Going(w, s, step) ==
  /\ At(w, "wait") /\ request[w].side[s] = step
  /\ s = "muc" => request[w].side["single"] # "get"

SideBecomes(w, s, step, age) ==
  request' = [request EXCEPT ![w].side[s] = step, ![w].age[s] = age]

\* Mutated form: what was found in the cache is put there again.
GetLookbackRenewing(w, s) ==
  /\ Going(w, s, "get")
  /\ LET entry == sideCache[s][request[w].term]
     IN IF entry = None THEN SideBecomes(w, s, "search", 0)
                        ELSE SideBecomes(w, s, "set", entry.age)
  /\ UNCHANGED caches /\ Silent

\* get_single_lookback, get_muc_lookback
GetLookback(w, s) ==
  /\ Going(w, s, "get")
  /\ LET entry == sideCache[s][request[w].term]
     IN IF entry = None THEN SideBecomes(w, s, "search", 0)
                        ELSE SideBecomes(w, s, "label", entry.age)
  /\ UNCHANGED caches /\ Silent

\* Elasticsearch answers as of now.
Search(w, s) ==
  /\ Going(w, s, "search")
  /\ SideBecomes(w, s, "set", 0)
  /\ UNCHANGED caches /\ Silent

\* set_single_lookback, set_muc_lookback
SetLookback(w, s) ==
  /\ Going(w, s, "set")
  /\ sideCache' = [sideCache EXCEPT
       ![s][request[w].term] = [age |-> request[w].age[s], left |-> Expiry]]
  /\ SideBecomes(w, s, "label", request[w].age[s])
  /\ aggCache' = aggCache /\ Silent

\* The names and icons of what was found, from PostgreSQL.
Label(w, s) ==
  /\ Going(w, s, "label")
  /\ SideBecomes(w, s, "done", request[w].age[s])
  /\ UNCHANGED caches /\ Silent

\* A query fails in the task.
Raise(w, s) ==
  /\ Going(w, s, "search") \/ Going(w, s, "label")
  /\ SideBecomes(w, s, "raised", 0)
  /\ UNCHANGED caches /\ Silent

\* set_agg_cache
SetAggCache(term, data) == aggCache' = [term |-> term, data |-> data, left |-> Expiry]

\* Mutated form: an answer of no side kept as well.
WaitEndsEmpty(w) ==
  LET r == request[w]
      done == {s \in Side : r.side[s] = "done"}
      data == [about |-> r.term, age |-> [s \in done |-> r.age[s]]]
  IN /\ At(w, "wait")
     /\ \A s \in Side : r.side[s] \in {"done", "raised"}
     /\ Return(w, Answered(r.term, data))
     /\ SetAggCache(r.term, data)
     /\ sideCache' = sideCache

\* The wait ends with every task finished, or at the timeout, when those still
\* running are cancelled.  com.result() raises what a task raised; otherwise the
\* sides that are done are merged, and kept as the answer to the keyword.
WaitEnds(w) ==
  LET r == request[w]
      done == {s \in Side : r.side[s] = "done"}
      raised == {s \in Side : r.side[s] = "raised"}
      data == [about |-> r.term, age |-> [s \in done |-> r.age[s]]]
  IN /\ At(w, "wait")
     /\ done \cup raised = Side \/ r.waited >= Patience
     /\ IF raised # {} \/ done = {}
        THEN Return(w, None) /\ aggCache' = aggCache
        ELSE /\ Return(w, Answered(r.term, data))
             /\ SetAggCache(r.term, data)
     /\ sideCache' = sideCache

-----------------------------------------------------------------------------
Older(age) == [s \in DOMAIN age |-> age[s] + 1]

\* What a task has in hand gets older; one that has found nothing has nothing.
Waited(r) ==
  [r EXCEPT !.waited = @ + 1,
            !.age = [s \in Side |-> IF r.side[s] \in {"set", "label", "done"} THEN @[s] + 1 ELSE 0]]

\* Redis drops an entry when its time is up.
TickSide(entry) ==
  IF entry = None \/ entry.left = 1 THEN None ELSE [age |-> entry.age + 1, left |-> entry.left - 1]

TickAgg(entry) ==
  IF entry = None \/ entry.left = 1 THEN None
  ELSE [entry EXCEPT !.data.age = Older(@), !.left = @ - 1]

\* Time passes while requests wait for their sides, not longer than the
\* timeout; looking into Redis takes no time.
Tick ==
  /\ \A w \in Worker : request[w] # None =>
       /\ request[w].step = "wait" /\ \A s \in Side : request[w].side[s] # "get"
       /\ request[w].waited < Patience
  /\ aggCache' = TickAgg(aggCache)
  /\ sideCache' = [s \in Side |-> [t \in Term |-> TickSide(sideCache[s][t])]]
  /\ request' = [w \in Worker |-> IF request[w] = None THEN None ELSE Waited(request[w])]
  /\ Silent

Task(w, s) ==
  GetLookback(w, s) \/ Search(w, s) \/ SetLookback(w, s) \/ Label(w, s) \/ Raise(w, s)

Next ==
  \/ \E w \in Worker : \/ \E term \in Term : Ask(w, term)
                       \/ GetAggCache(w) \/ DeleteAggCache(w) \/ WaitEnds(w)
                       \/ \E s \in Side : Task(w, s)
  \/ Tick

Spec == Init /\ [][Next]_vars

-----------------------------------------------------------------------------
IsData(data) ==
  /\ data.about \in Term
  /\ DOMAIN data.age \in (SUBSET Side) \ {{}}
  /\ data.age \in [DOMAIN data.age -> Nat]

TypeOK ==
  /\ aggCache # None =>
       aggCache.term \in Term /\ IsData(aggCache.data) /\ aggCache.left \in 1..Expiry
  /\ \A s \in Side, t \in Term :
       sideCache[s][t] # None => sideCache[s][t].age \in Nat /\ sideCache[s][t].left \in 1..Expiry
  /\ \A w \in Worker : request[w] # None =>
       request[w] \in [term : Term, step : {"get", "delete", "wait"}, waited : 0..Patience,
                       side : [Side -> {"get", "search", "set", "label", "done", "raised"}],
                       age : [Side -> Nat]]
  /\ answer # None => answer.asked \in Term /\ IsData(answer.data)

\* An answer was found for the keyword asked for, although all keywords of a
\* user share one entry that requests of other workers replace and delete.
OwnKeyword == answer # None => answer.data.about = answer.asked

\* An answer is never older than two expiries and two waits: what a side found
\* may be read from its entry until the end of its time and then be kept in
\* the merged answer for as long again, but not longer.
AnswersAreFresh ==
  answer # None => \A s \in DOMAIN answer.data.age : answer.data.age[s] < 2 * (Expiry + Patience)
=============================================================================
