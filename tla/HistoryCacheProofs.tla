-------------------------- MODULE HistoryCacheProofs --------------------------
(***************************************************************************)
(* Theorems about HistoryCache: for every set of keywords and worker        *)
(* processes, every expiry and every timeout, an answer is about the keyword *)
(* asked for (OwnKeyword) and no older than two expiries and two waits       *)
(* (AnswersAreFresh), although all requests of a user share the entries.      *)
(***************************************************************************)
EXTENDS HistoryCache, TLAPS

Ages == UNION {[sides -> Nat] : sides \in (SUBSET Side) \ {{}}}
Data == [about : Term, age : Ages]
AggEntry == [term : Term, data : Data, left : 1..Expiry]
SideEntry == [age : Nat, left : 1..Expiry]
Handled ==
  [term : Term, step : {"get", "delete", "wait"}, waited : 0..Patience,
   side : [Side -> {"get", "search", "set", "label", "done", "raised"}], age : [Side -> Nat]]
Answers == [asked : Term, data : Data]

Shape ==
  /\ aggCache \in AggEntry \cup {None}
  /\ sideCache \in [Side -> [Term -> SideEntry \cup {None}]]
  /\ request \in [Worker -> Handled \cup {None}]
  /\ answer \in Answers \cup {None}

\* The merged entry is about its keyword and, when its time is up, still no
\* older than an answer may be.
AggFits(entry) ==
  /\ entry.data.about = entry.term
  /\ \A s \in DOMAIN entry.data.age : entry.data.age[s] + entry.left < 2 * (Expiry + Patience)

\* What a side found was put into its entry within one wait.
SideFits(entry) == entry.age + entry.left <= Expiry + Patience

\* A task found its data itself, during this wait, or took them from an entry
\* that had not expired.
TaskFits(r, s) ==
  /\ r.side[s] = "set" => r.age[s] <= r.waited
  /\ r.side[s] \in {"label", "done"} => r.age[s] < Expiry + Patience + r.waited

AnswerFits(a) ==
  /\ a.data.about = a.asked
  /\ \A s \in DOMAIN a.data.age : a.data.age[s] < 2 * (Expiry + Patience)

IInv ==
  /\ Shape
  /\ aggCache # None => AggFits(aggCache)
  /\ \A s \in Side, t \in Term : sideCache[s][t] # None => SideFits(sideCache[s][t])
  /\ \A w \in Worker, s \in Side : request[w] # None => TaskFits(request[w], s)
  /\ answer # None => AnswerFits(answer)

LEMMA AgesAre ==
  ASSUME NEW age
  PROVE  age \in Ages <=> DOMAIN age \in (SUBSET Side) \ {{}} /\ age \in [DOMAIN age -> Nat]
BY DEF Ages

LEMMA InitIInv == Init => IInv
BY DEF Init, IInv, Shape

\* A request that is at a step is one that is handled.
LEMMA AtHandled ==
  ASSUME IInv, NEW w \in Worker, NEW step, At(w, step)
  PROVE  request[w] \in Handled /\ request[w] # None /\ request[w].step = step
BY DEF IInv, Shape, At

LEMMA AskKeeps ==
  ASSUME IInv, NEW w \in Worker, NEW term \in Term, Ask(w, term)
  PROVE  IInv'
<1>1. PICK r : r = Asked(term)
  OBVIOUS
<1>2. r \in Handled /\ \A s \in Side : r.side[s] = "get"
  BY <1>1, TicksAssumption DEF Asked, Handled
<1>3. \A s \in Side : TaskFits(r, s)
  BY <1>2 DEF TaskFits
<1>4. /\ request' = [request EXCEPT ![w] = r]
      /\ aggCache' = aggCache /\ sideCache' = sideCache /\ answer' = None
  BY <1>1 DEF Ask, Silent, caches
<1>5. Shape'
  BY <1>2, <1>4 DEF IInv, Shape
<1>6. \A v \in Worker : request'[v] = IF v = w THEN r ELSE request[v]
  BY <1>4 DEF IInv, Shape
<1>7. QED
  BY <1>3, <1>4, <1>5, <1>6 DEF IInv, AggFits, SideFits, TaskFits, AnswerFits

\* What any step within a task does to the request it belongs to.
LEMMA TaskKeeps ==
  ASSUME IInv, NEW w \in Worker, NEW s \in Side, NEW age \in Nat,
         NEW step \in {"search", "set", "label", "done", "raised"},
         request[w] \in Handled, request[w] # None,
         step = "set" => age <= request[w].waited,
         step \in {"label", "done"} => age < Expiry + Patience + request[w].waited,
         SideBecomes(w, s, step, age), aggCache' = aggCache,
         sideCache' \in [Side -> [Term -> SideEntry \cup {None}]],
         \A u \in Side, t \in Term : sideCache'[u][t] # None => SideFits(sideCache'[u][t]),
         answer' = None
  PROVE  IInv'
<1>1. PICK r : r = [request[w] EXCEPT !.side[s] = step, !.age[s] = age]
  OBVIOUS
<1>2. request' = [request EXCEPT ![w] = r]
  BY <1>1 DEF SideBecomes, IInv, Shape
<1>3. /\ r \in Handled /\ r.waited = request[w].waited
      /\ r.side[s] = step /\ r.age[s] = age
      /\ \A u \in Side : u # s => r.side[u] = request[w].side[u] /\ r.age[u] = request[w].age[u]
  BY <1>1 DEF Handled
<1>4. \A u \in Side : TaskFits(r, u)
  <2>1. TaskFits(r, s)
    BY <1>3 DEF TaskFits
  <2>2. ASSUME NEW u \in Side, u # s PROVE TaskFits(r, u)
    BY <1>3, <2>2 DEF TaskFits, IInv
  <2>3. QED
    BY <2>1, <2>2
<1>5. Shape'
  BY <1>2, <1>3 DEF IInv, Shape
<1>6. \A v \in Worker : request'[v] = IF v = w THEN r ELSE request[v]
  BY <1>2 DEF IInv, Shape
<1>7. QED
  BY <1>4, <1>5, <1>6 DEF IInv, AggFits, SideFits, TaskFits, AnswerFits

\* A request that goes on to another step of its own.
LEMMA StepKeeps ==
  ASSUME IInv, NEW w \in Worker, NEW step \in {"delete", "wait"},
         request[w] \in Handled, request[w] # None,
         request' = [request EXCEPT ![w].step = step],
         aggCache' \in {aggCache, None}, sideCache' = sideCache, answer' = None
  PROVE  IInv'
<1>1. PICK r : r = [request[w] EXCEPT !.step = step]
  OBVIOUS
<1>2. request' = [request EXCEPT ![w] = r]
  BY <1>1 DEF IInv, Shape
<1>3. r \in Handled /\ r.waited = request[w].waited /\ r.side = request[w].side /\ r.age = request[w].age
  BY <1>1 DEF Handled
<1>4. \A s \in Side : TaskFits(r, s)
  BY <1>3 DEF TaskFits, IInv
<1>5. Shape'
  BY <1>2, <1>3 DEF IInv, Shape
<1>6. \A v \in Worker : request'[v] = IF v = w THEN r ELSE request[v]
  BY <1>2 DEF IInv, Shape
<1>7. QED
  BY <1>4, <1>5, <1>6 DEF IInv, AggFits, SideFits, TaskFits, AnswerFits

\* A request that is answered, or fails.
LEMMA ReturnKeeps ==
  ASSUME IInv, NEW w \in Worker, NEW value \in Answers \cup {None},
         value # None => AnswerFits(value), Return(w, value),
         aggCache' \in AggEntry \cup {None}, aggCache' # None => AggFits(aggCache'),
         sideCache' = sideCache
  PROVE  IInv'
<1>1. request' = [request EXCEPT ![w] = None] /\ answer' = value
  BY DEF Return
<1>2. Shape'
  BY <1>1 DEF IInv, Shape
<1>3. \A v \in Worker : request'[v] = IF v = w THEN None ELSE request[v]
  BY <1>1 DEF IInv, Shape
<1>4. QED
  BY <1>1, <1>2, <1>3 DEF IInv, AggFits, SideFits, TaskFits, AnswerFits

LEMMA GetAggCacheKeeps ==
  ASSUME IInv, NEW w \in Worker, GetAggCache(w)
  PROVE  IInv'
<1>1. request[w] \in Handled /\ request[w] # None
  BY AtHandled DEF GetAggCache
<1>2. CASE aggCache # None /\ aggCache.term = request[w].term
  <2>1. PICK value : value = Answered(request[w].term, aggCache.data)
    OBVIOUS
  <2>2. aggCache \in AggEntry /\ AggFits(aggCache)
    BY <1>2 DEF IInv, Shape
  <2>3. value.asked = aggCache.term /\ value.data = aggCache.data /\ value \in Answers
    BY <1>2, <2>1, <2>2 DEF Answered, Answers, AggEntry
  <2>4. \A s \in DOMAIN aggCache.data.age : aggCache.data.age[s] \in Nat
    BY <2>2, AgesAre DEF AggEntry, Data
  <2>5. AnswerFits(value)
    BY <2>2, <2>3, <2>4, TicksAssumption DEF AnswerFits, AggFits, AggEntry
  <2>6. Return(w, value) /\ aggCache' = aggCache /\ sideCache' = sideCache
    BY <1>2, <2>1 DEF GetAggCache, caches
  <2>7. QED
    BY <2>2, <2>3, <2>5, <2>6, ReturnKeeps
<1>3. CASE ~(aggCache # None /\ aggCache.term = request[w].term)
  <2>1. PICK step : step = IF aggCache = None THEN "wait" ELSE "delete"
    OBVIOUS
  <2>2. /\ request' = [request EXCEPT ![w].step = step]
        /\ aggCache' = aggCache /\ sideCache' = sideCache /\ answer' = None
    BY <1>3, <2>1 DEF GetAggCache, caches, Silent
  <2>3. QED
    BY <1>1, <2>1, <2>2, StepKeeps
<1>4. QED
  BY <1>2, <1>3

LEMMA DeleteAggCacheKeeps ==
  ASSUME IInv, NEW w \in Worker, DeleteAggCache(w)
  PROVE  IInv'
<1>1. request[w] \in Handled /\ request[w] # None
  BY AtHandled DEF DeleteAggCache
<1>2. QED
  BY <1>1, StepKeeps DEF DeleteAggCache, Silent

LEMMA TaskStepKeeps ==
  ASSUME IInv, NEW w \in Worker, NEW s \in Side, Task(w, s)
  PROVE  IInv'
<1>1. At(w, "wait")
  BY DEF Task, GetLookback, Search, SetLookback, Label, Raise, Going
<1>2. request[w] \in Handled /\ request[w] # None
  BY <1>1, AtHandled
<1>3. TaskFits(request[w], s) /\ request[w].term \in Term /\ request[w].waited \in Nat
  BY <1>2, TicksAssumption DEF IInv, Handled
<1>4. /\ sideCache \in [Side -> [Term -> SideEntry \cup {None}]]
      /\ \A u \in Side, t \in Term : sideCache[u][t] # None => SideFits(sideCache[u][t])
  BY DEF IInv, Shape
<1>5. request[w].age[s] \in Nat
  BY <1>2 DEF Handled
<1>6. CASE GetLookback(w, s)
  <2>1. PICK entry : entry = sideCache[s][request[w].term]
    OBVIOUS
  <2>2. aggCache' = aggCache /\ sideCache' = sideCache /\ answer' = None
    BY <1>6 DEF GetLookback, caches, Silent
  <2>3. CASE entry = None
    <3>1. SideBecomes(w, s, "search", 0)
      BY <1>6, <2>1, <2>3 DEF GetLookback
    <3>2. QED
      BY <1>2, <1>4, <2>2, <3>1, TaskKeeps
  <2>4. CASE entry # None
    <3>1. SideBecomes(w, s, "label", entry.age)
      BY <1>6, <2>1, <2>4 DEF GetLookback
    <3>2. entry \in SideEntry /\ SideFits(entry)
      BY <1>3, <1>4, <2>1, <2>4
    <3>3. entry.age \in Nat /\ entry.age < Expiry + Patience + request[w].waited
      BY <1>3, <3>2, TicksAssumption DEF SideEntry, SideFits
    <3>4. QED
      BY <1>2, <1>4, <2>2, <3>1, <3>3, TaskKeeps
  <2>5. QED
    BY <2>3, <2>4
<1>7. CASE Search(w, s)
  <2>1. /\ SideBecomes(w, s, "set", 0)
        /\ aggCache' = aggCache /\ sideCache' = sideCache /\ answer' = None
    BY <1>7 DEF Search, caches, Silent
  <2>2. QED
    BY <1>2, <1>3, <1>4, <2>1, TaskKeeps
<1>8. CASE SetLookback(w, s)
  <2>1. PICK entry : entry = [age |-> request[w].age[s], left |-> Expiry]
    OBVIOUS
  <2>2. sideCache' = [sideCache EXCEPT ![s][request[w].term] = entry]
    BY <1>8, <2>1 DEF SetLookback
  <2>3. request[w].side[s] = "set"
    BY <1>8 DEF SetLookback, Going
  <2>4. request[w].age[s] <= request[w].waited /\ request[w].waited <= Patience
    BY <1>2, <1>3, <2>3, TicksAssumption DEF TaskFits, Handled
  <2>5. entry \in SideEntry /\ SideFits(entry)
    BY <1>3, <1>5, <2>1, <2>4, TicksAssumption DEF SideEntry, SideFits
  <2>6. /\ sideCache' \in [Side -> [Term -> SideEntry \cup {None}]]
        /\ \A u \in Side, t \in Term : sideCache'[u][t] # None => SideFits(sideCache'[u][t])
    BY <1>3, <1>4, <2>2, <2>5
  <2>7. SideBecomes(w, s, "label", request[w].age[s]) /\ aggCache' = aggCache /\ answer' = None
    BY <1>8 DEF SetLookback, Silent
  <2>8. request[w].age[s] < Expiry + Patience + request[w].waited
    BY <1>3, <1>5, <2>4, TicksAssumption
  <2>9. QED
    BY <1>2, <1>5, <2>6, <2>7, <2>8, TaskKeeps
<1>9. CASE Label(w, s)
  <2>1. /\ SideBecomes(w, s, "done", request[w].age[s])
        /\ aggCache' = aggCache /\ sideCache' = sideCache /\ answer' = None
    BY <1>9 DEF Label, caches, Silent
  <2>2. request[w].age[s] < Expiry + Patience + request[w].waited
    BY <1>3, <1>9 DEF Label, Going, TaskFits
  <2>3. QED
    BY <1>2, <1>4, <1>5, <2>1, <2>2, TaskKeeps
<1>10. CASE Raise(w, s)
  <2>1. /\ SideBecomes(w, s, "raised", 0)
        /\ aggCache' = aggCache /\ sideCache' = sideCache /\ answer' = None
    BY <1>10 DEF Raise, caches, Silent
  <2>2. QED
    BY <1>2, <1>4, <2>1, TaskKeeps
<1>11. QED
  BY <1>6, <1>7, <1>8, <1>9, <1>10 DEF Task

LEMMA WaitEndsKeeps ==
  ASSUME IInv, NEW w \in Worker, WaitEnds(w)
  PROVE  IInv'
<1> DEFINE done == {s \in Side : request[w].side[s] = "done"}
           raised == {s \in Side : request[w].side[s] = "raised"}
           data == [about |-> request[w].term, age |-> [s \in done |-> request[w].age[s]]]
<1>1. request[w] \in Handled /\ request[w] # None /\ sideCache' = sideCache
  BY AtHandled DEF WaitEnds
<1>2. CASE raised # {} \/ done = {}
  <2>1. Return(w, None) /\ aggCache' = aggCache
    BY <1>2 DEF WaitEnds
  <2>2. QED
    BY <1>1, <2>1, ReturnKeeps DEF IInv, Shape
<1>3. CASE ~(raised # {} \/ done = {})
  <2>1. Return(w, Answered(request[w].term, data)) /\ SetAggCache(request[w].term, data)
    BY <1>3 DEF WaitEnds
  <2>2. PICK d : d = data
    OBVIOUS
  <2>3. d.about = request[w].term /\ DOMAIN d.age = done /\ \A s \in done : d.age[s] = request[w].age[s]
    BY <2>2
  <2>4. d.age \in [done -> Nat]
    BY <1>1, <2>2 DEF Handled
  <2>5. d \in Data
    <3>1. PICK age : age = [s \in done |-> request[w].age[s]]
      OBVIOUS
    <3>2. age \in Ages
      <4>1. DOMAIN age = done /\ done \in (SUBSET Side) \ {{}} /\ age \in [done -> Nat]
        BY <1>1, <1>3, <3>1 DEF Handled
      <4>2. QED
        BY <4>1, AgesAre
    <3>3. d = [about |-> request[w].term, age |-> age] /\ request[w].term \in Term
      BY <1>1, <2>2, <3>1 DEF Handled
    <3>4. QED
      BY <3>2, <3>3 DEF Data
  <2>6. \A s \in DOMAIN d.age : d.age[s] \in Nat /\ d.age[s] < Expiry + 2 * Patience
    <3>1. SUFFICES ASSUME NEW s \in done
                   PROVE  request[w].age[s] \in Nat /\ request[w].age[s] < Expiry + 2 * Patience
      BY <2>3
    <3>2. TaskFits(request[w], s) /\ request[w].side[s] = "done"
      BY <1>1 DEF IInv
    <3>3. request[w].age[s] \in Nat /\ request[w].waited \in 0..Patience
      BY <1>1 DEF Handled
    <3>4. QED
      BY <3>2, <3>3, TicksAssumption DEF TaskFits
  <2>7. PICK value, entry : /\ value = Answered(request[w].term, d)
                            /\ entry = [term |-> request[w].term, data |-> d, left |-> Expiry]
    OBVIOUS
  <2>8. value \in Answers /\ value.data = d /\ value.asked = request[w].term
    BY <1>1, <2>5, <2>7 DEF Answers, Answered, Handled
  <2>9. entry \in AggEntry /\ entry.data = d /\ entry.term = request[w].term /\ entry.left = Expiry
    BY <1>1, <2>5, <2>7, TicksAssumption DEF AggEntry, Handled
  <2>10. AnswerFits(value)
    BY <2>3, <2>6, <2>8, TicksAssumption DEF AnswerFits
  <2>11. AggFits(entry)
    BY <2>3, <2>6, <2>9, TicksAssumption DEF AggFits
  <2>12. Return(w, value) /\ aggCache' = entry
    BY <2>1, <2>2, <2>7 DEF SetAggCache
  <2>13. QED
    BY <1>1, <2>8, <2>9, <2>10, <2>11, <2>12, ReturnKeeps
<1>4. QED
  BY <1>2, <1>3

\* Time passing keeps what an entry's age and the time it has left add up to.
LEMMA TickSideFits ==
  ASSUME NEW entry \in SideEntry \cup {None}, entry # None => SideFits(entry)
  PROVE  /\ TickSide(entry) \in SideEntry \cup {None}
         /\ TickSide(entry) # None => SideFits(TickSide(entry))
<1>1. CASE entry = None \/ entry.left = 1
  BY <1>1 DEF TickSide
<1>2. CASE ~(entry = None \/ entry.left = 1)
  <2>1. PICK later : later = [age |-> entry.age + 1, left |-> entry.left - 1]
    OBVIOUS
  <2>2. entry.age \in Nat /\ entry.left \in 2..Expiry
    BY <1>2, TicksAssumption DEF SideEntry
  <2>3. later \in SideEntry /\ SideFits(later)
    BY <1>2, <2>1, <2>2, TicksAssumption DEF SideEntry, SideFits
  <2>4. QED
    BY <1>2, <2>1, <2>3 DEF TickSide
<1>3. QED
  BY <1>1, <1>2

LEMMA TickAggFits ==
  ASSUME NEW entry \in AggEntry \cup {None}, entry # None => AggFits(entry)
  PROVE  /\ TickAgg(entry) \in AggEntry \cup {None}
         /\ TickAgg(entry) # None => AggFits(TickAgg(entry))
<1>1. CASE entry = None \/ entry.left = 1
  BY <1>1 DEF TickAgg
<1>2. CASE ~(entry = None \/ entry.left = 1)
  <2>1. PICK later : later = [entry EXCEPT !.data.age = Older(@), !.left = @ - 1]
    OBVIOUS
  <2>2. /\ entry \in AggEntry /\ entry.data \in Data /\ entry.data.age \in Ages
        /\ entry.left \in 2..Expiry
    BY <1>2, TicksAssumption DEF AggEntry, Data
  <2>3. PICK age : age = Older(entry.data.age)
    OBVIOUS
  <2>4. /\ DOMAIN age = DOMAIN entry.data.age /\ age \in Ages
        /\ \A s \in DOMAIN age : age[s] = entry.data.age[s] + 1 /\ entry.data.age[s] \in Nat
    BY <2>2, <2>3, AgesAre DEF Older
  <2>5. /\ later \in AggEntry /\ later.data.age = age /\ later.data.about = entry.data.about
        /\ later.term = entry.term /\ later.left = entry.left - 1
    <3>1. PICK data : data = [entry.data EXCEPT !.age = age]
      OBVIOUS
    <3>2. data \in Data /\ data.age = age /\ data.about = entry.data.about
      BY <2>2, <2>4, <3>1 DEF Data
    <3>3. later = [entry EXCEPT !.data = data, !.left = entry.left - 1]
      BY <2>1, <2>2, <2>3, <3>1 DEF AggEntry
    <3>4. entry.left - 1 \in 1..Expiry
      BY <2>2, TicksAssumption
    <3>5. QED
      BY <2>2, <3>2, <3>3, <3>4 DEF AggEntry
  <2>6. AggFits(later)
    BY <1>2, <2>2, <2>4, <2>5, TicksAssumption DEF AggFits
  <2>7. QED
    BY <1>2, <2>1, <2>5, <2>6 DEF TickAgg
<1>3. QED
  BY <1>1, <1>2

LEMMA WaitedFits ==
  ASSUME NEW r \in Handled, r.waited < Patience, \A s \in Side : TaskFits(r, s)
  PROVE  Waited(r) \in Handled /\ \A s \in Side : TaskFits(Waited(r), s)
<1>1. PICK later : later = Waited(r)
  OBVIOUS
<1>2. /\ later.waited = r.waited + 1 /\ later.side = r.side /\ later \in Handled
      /\ \A s \in Side : later.age[s] = IF r.side[s] \in {"set", "label", "done"}
                                        THEN r.age[s] + 1 ELSE 0
  <2>1. PICK age : age = [s \in Side |-> IF r.side[s] \in {"set", "label", "done"}
                                       THEN r.age[s] + 1 ELSE 0]
    OBVIOUS
  <2>2. later = [r EXCEPT !.waited = r.waited + 1, !.age = age]
    BY <1>1, <2>1 DEF Waited, Handled
  <2>3. age \in [Side -> Nat] /\ r.waited + 1 \in 0..Patience
    BY <2>1, TicksAssumption DEF Handled
  <2>4. QED
    BY <2>1, <2>2, <2>3 DEF Handled
<1>3. \A s \in Side : TaskFits(later, s)
  BY <1>2, TicksAssumption DEF TaskFits, Handled
<1>4. QED
  BY <1>1, <1>2, <1>3

LEMMA TickKeeps ==
  ASSUME IInv, Tick
  PROVE  IInv'
<1>1. aggCache' = TickAgg(aggCache) /\ answer' = None
  BY DEF Tick, Silent
<1>2. aggCache' \in AggEntry \cup {None} /\ (aggCache' # None => AggFits(aggCache'))
  BY <1>1, TickAggFits DEF IInv, Shape
<1>3. \A s \in Side, t \in Term :
        /\ sideCache'[s][t] \in SideEntry \cup {None}
        /\ sideCache'[s][t] # None => SideFits(sideCache'[s][t])
  <2>1. SUFFICES ASSUME NEW s \in Side, NEW t \in Term
                 PROVE  /\ sideCache'[s][t] \in SideEntry \cup {None}
                        /\ sideCache'[s][t] # None => SideFits(sideCache'[s][t])
    OBVIOUS
  <2>2. /\ sideCache[s][t] \in SideEntry \cup {None}
        /\ sideCache[s][t] # None => SideFits(sideCache[s][t])
    BY DEF IInv, Shape
  <2>3. sideCache'[s][t] = TickSide(sideCache[s][t])
    BY DEF Tick
  <2>4. QED
    BY <2>2, <2>3, TickSideFits
<1>4. sideCache' \in [Side -> [Term -> SideEntry \cup {None}]]
  BY <1>3 DEF Tick
<1>5. \A w \in Worker :
        /\ request'[w] \in Handled \cup {None}
        /\ request'[w] # None => \A s \in Side : TaskFits(request'[w], s)
  <2>1. SUFFICES ASSUME NEW w \in Worker
                 PROVE  /\ request'[w] \in Handled \cup {None}
                        /\ request'[w] # None => \A s \in Side : TaskFits(request'[w], s)
    OBVIOUS
  <2>2. CASE request[w] = None
    BY <2>2 DEF Tick
  <2>3. CASE request[w] # None
    <3>1. /\ request[w] \in Handled /\ request[w].waited < Patience
          /\ \A s \in Side : TaskFits(request[w], s)
      BY <2>3 DEF IInv, Shape, Tick
    <3>2. request'[w] = Waited(request[w])
      BY <2>3 DEF Tick
    <3>3. QED
      BY <3>1, <3>2, WaitedFits
  <2>4. QED
    BY <2>2, <2>3
<1>6. request' \in [Worker -> Handled \cup {None}]
  BY <1>5 DEF Tick
<1>7. QED
  BY <1>1, <1>2, <1>3, <1>4, <1>5, <1>6 DEF IInv, Shape

LEMMA AlwaysIInv == Spec => []IInv
<1>1. IInv /\ [Next]_vars => IInv'
  <2> SUFFICES ASSUME IInv, [Next]_vars PROVE IInv'
    OBVIOUS
  <2>1. CASE UNCHANGED vars
    BY <2>1 DEF vars, IInv, Shape, AggFits, SideFits, TaskFits, AnswerFits
  <2>2. CASE Tick
    BY <2>2, TickKeeps
  <2>3. ASSUME NEW w \in Worker, \E term \in Term : Ask(w, term) PROVE IInv'
    BY <2>3, AskKeeps
  <2>4. ASSUME NEW w \in Worker, GetAggCache(w) \/ DeleteAggCache(w) \/ WaitEnds(w) PROVE IInv'
    BY <2>4, GetAggCacheKeeps, DeleteAggCacheKeeps, WaitEndsKeeps
  <2>5. ASSUME NEW w \in Worker, NEW s \in Side, Task(w, s) PROVE IInv'
    BY <2>5, TaskStepKeeps
  <2>6. QED
    BY <2>1, <2>2, <2>3, <2>4, <2>5 DEF Next
<1>2. QED
  BY <1>1, InitIInv, PTL DEF Spec

\* The entries and requests of the history search keep their types, for all
\* keywords, workers, expiries and timeouts.
THEOREM CacheTypeCorrect == Spec => []TypeOK
<1>1. IInv => TypeOK
  <2> SUFFICES ASSUME IInv PROVE TypeOK
    OBVIOUS
  <2>1. \A data : data \in Data => IsData(data)
    BY AgesAre DEF Data, IsData
  <2>2. /\ aggCache # None => aggCache \in AggEntry
        /\ answer # None => answer \in Answers
        /\ \A s \in Side, t \in Term : sideCache[s][t] # None => sideCache[s][t] \in SideEntry
        /\ \A w \in Worker : request[w] # None => request[w] \in Handled
    BY DEF IInv, Shape
  <2>3. QED
    BY <2>1, <2>2 DEF TypeOK, AggEntry, Answers, SideEntry, Handled
<1>2. QED
  BY <1>1, AlwaysIInv, PTL

\* get_agg_cache finds one entry per user; whatever requests of other workers
\* replace or delete, no answer is about another keyword.
THEOREM AnswersOwnKeyword == Spec => []OwnKeyword
<1>1. IInv => OwnKeyword
  BY DEF IInv, OwnKeyword, AnswerFits
<1>2. QED
  BY <1>1, AlwaysIInv, PTL

\* Entries that were made from entries do not outlive their sum: no answer is
\* older than two expiries and two waits, however requests share the caches.
THEOREM AnswersStayFresh == Spec => []AnswersAreFresh
<1>1. IInv => AnswersAreFresh
  BY DEF IInv, AnswersAreFresh, AnswerFits
<1>2. QED
  BY <1>1, AlwaysIInv, PTL
=============================================================================
