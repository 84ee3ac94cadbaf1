------------------------- MODULE SearchRequestProofs -------------------------
(***************************************************************************)
(* Theorems about SearchRequest with the asynchronous library, for every set *)
(* of requests: what LateIsNoError, WhatAnsweredIsShown, AnsweredInTime and   *)
(* NothingRunsOn say.                                                        *)
(***************************************************************************)
EXTENDS SearchRequest, TLAPS

\* Only the queries of the request run, and a history task only with some.
OwnQueries ==
  /\ reply = None => request # None
  /\ reply = None => \A q \in Query : query[q] # "absent" => q \in Queries(request)
  /\ \A t \in Waiter : waiter[t] = "absent" => \A q \in Waited(t) : query[q] = "absent"

\* While libraries are due, tasks were made for Contact at most, and none has run.
Preparing ==
  due # {} =>
    /\ request # None /\ reply \in {None, Failed}
    /\ clock = 0
    /\ \A t \in Waiter : waiter[t] = "absent"
    /\ \A q \in Query : query[q] \in {"absent", "running", "cancelled"}

\* What a history task says of its queries.
WaiterTells ==
  \A t \in Waiter :
    /\ waiter[t] = "done" => \A q \in Waited(t) : query[q] \notin {"raised", "running"}
    /\ waiter[t] = "raised" => \E q \in Waited(t) : query[q] = "raised"
    /\ waiter[t] = "cancelled" => reply # None
    /\ waiter[t] \notin {"absent", "running"} => \A q \in Waited(t) : query[q] # "running"

\* A history task that still waits when the request is given up has only one
\* query, and that has not ended.
InnerFirst ==
  \A t \in Waiter :
    waiter[t] = "running" =>
      /\ reply = None
      /\ clock <= LookbackTimeout(request)
      /\ clock >= RequestTimeout(request) => \A q \in Waited(t) : query[q] \in {"absent", "running"}

IInv ==
  /\ TypeOK /\ OwnQueries /\ Preparing /\ WaiterTells /\ InnerFirst
  /\ LateIsNoError /\ WhatAnsweredIsShown /\ AnsweredInTime /\ NothingRunsOn

-----------------------------------------------------------------------------
LEMMA QueriesOfRequest == ASSUME NEW r PROVE Queries(r) \subseteq Query
BY DEF Queries, Query

LEMMA WaitedQueries ==
  /\ \A t \in Waiter : Waited(t) \subseteq Query /\ Waited(t) \cap Contacts = {}
  /\ \A q \in Query \ Contacts : \E t \in Waiter : q \in Waited(t)
  /\ \A t, u \in Waiter : t # u => Waited(t) \cap Waited(u) = {}
  /\ Contacts \subseteq Query
BY DEF Waiter, Waited, Query, Contacts

LEMMA Timeouts ==
  ASSUME NEW r
  PROVE  /\ LookbackTimeout(r) \in Nat /\ RequestTimeout(r) \in Nat
         /\ LookbackTimeout(r) <= RequestTimeout(r)
         /\ RequestTimeout(r) < MaxClock
         /\ ExtendTime(r) <=> LookbackTimeout(r) = RequestTimeout(r)
BY DEF LookbackTimeout, RequestTimeout, MaxClock

\* No action that extends the time asks for two queries of one history task.
LEMMA ExtendedIsSingle ==
  ASSUME NEW r, ExtendTime(r),
         NEW t \in Waiter, NEW p \in Waited(t) \cap Queries(r), NEW q \in Waited(t) \cap Queries(r)
  PROVE  p = q
<1>1. r.action \in {1, 2, 4, 6, 8, 16, 32} /\ r.action # None
  BY AnswersDiffer DEF ExtendTime
<1>2. ActionOf(r) = r.action
  BY <1>1 DEF ActionOf
<1>3. ~("hs_single" \in Register(r) /\ "hs_muc" \in Register(r))
  <2>1. \A bit \in DOMAIN TypeRegister :
          /\ TypeRegister[bit] = "hs_single" => bit = 8
          /\ TypeRegister[bit] = "hs_muc" => bit = 16
    BY DEF TypeRegister
  <2>2. \A n : n \in {1, 2, 4, 6, 8, 16, 32} => ~((n \div 8) % 2 = 1 /\ (n \div 16) % 2 = 1)
    OBVIOUS
  <2>3. QED
    BY <1>1, <1>2, <2>1, <2>2 DEF Register
<1>4. QED
  BY <1>3 DEF Waited, Waiter, Queries

-----------------------------------------------------------------------------
LEMMA InitIInv == Init => IInv
<1>1. SUFFICES ASSUME Init PROVE IInv
  OBVIOUS
<1>2. TypeOK
  BY <1>1 DEF Init, TypeOK, MaxClock
<1>3. reply # None /\ reply # Failed
  BY <1>1, AnswersDiffer DEF Init
<1>4. OwnQueries /\ Preparing /\ WaiterTells /\ InnerFirst
  BY <1>1, <1>3, WaitedQueries DEF Init, OwnQueries, Preparing, WaiterTells, InnerFirst
<1>5. LateIsNoError /\ WhatAnsweredIsShown /\ AnsweredInTime /\ NothingRunsOn
  BY <1>1, <1>3 DEF Init, LateIsNoError, WhatAnsweredIsShown, AnsweredInTime, NothingRunsOn
<1>6. QED
  BY <1>2, <1>4, <1>5 DEF IInv

LEMMA MainIInv == ASSUME IInv, NEW r \in Request, Main(r) PROVE IInv'
<1> DEFINE queries == IF Legal(r) THEN Queries(r) ELSE {}
<1>1. queries \subseteq Query
  BY QueriesOfRequest
<1>2. /\ request' = r /\ clock' = 0
      /\ due' \subseteq Library /\ (due' # {} => queries # {})
      /\ query' = [q \in Query |-> "absent"]
      /\ waiter' = [t \in Waiter |-> "absent"]
      /\ reply' \in {None, Rejected, {}}
      /\ reply' = None <=> queries # {}
  BY AnswersDiffer DEF Main
<1>3. r # None /\ reply' # Failed
  BY <1>2, AnswersDiffer
<1>4. TypeOK'
  BY <1>2 DEF TypeOK, MaxClock
<1>5. OwnQueries' /\ Preparing' /\ WaiterTells' /\ InnerFirst'
  BY <1>2, <1>3, WaitedQueries DEF OwnQueries, Preparing, WaiterTells, InnerFirst
<1>6. LateIsNoError' /\ WhatAnsweredIsShown' /\ NothingRunsOn'
  <2>1. /\ \A q \in Query : query'[q] = "absent"
        /\ due' # {} => reply' = None
    BY <1>2
  <2>2. QED
    BY <1>3, <2>1 DEF LateIsNoError, WhatAnsweredIsShown, NothingRunsOn
<1>7. AnsweredInTime'
  BY <1>2, Timeouts DEF AnsweredInTime
<1>8. QED
  BY <1>4, <1>5, <1>6, <1>7 DEF IInv

LEMMA ConstructIInv == ASSUME IInv, NEW lib \in Library, Construct(lib) PROVE IInv'
<1> DEFINE tasks == TasksOf(lib) \cap Queries(request)
<1>1. /\ reply = None /\ lib \in due /\ ("Contact" \in due => lib = "Contact")
      /\ due' = due \ {lib}
      /\ query' = [q \in Query |-> IF q \in tasks THEN "running" ELSE query[q]]
      /\ waiter' = [t \in Waiter |-> IF Waited(t) \cap tasks # {} THEN "running" ELSE waiter[t]]
      /\ UNCHANGED <<request, clock, reply>>
  BY DEF Construct, NextDue
<1>2. /\ tasks \subseteq Query /\ tasks \subseteq Queries(request)
      /\ lib = "Contact" => \A t \in Waiter : Waited(t) \cap tasks = {}
      /\ lib # "Contact" => due' = {}
  <2>1. lib = "Contact" => TasksOf(lib) = Contacts
    BY DEF TasksOf
  <2>2. lib # "Contact" => due' = {}
    BY <1>1 DEF IInv, TypeOK, Library
  <2>3. QED
    BY <2>1, <2>2, QueriesOfRequest, WaitedQueries
<1> HIDE DEF tasks
<1>3. /\ request # None /\ clock = 0
      /\ \A t \in Waiter : waiter[t] = "absent"
      /\ \A q \in Query : query[q] \in {"absent", "running", "cancelled"}
  BY <1>1 DEF IInv, Preparing
<1>4. /\ query \in [Query -> {"absent", "running", "found", "nothing", "raised", "cancelled"}]
      /\ waiter \in [Waiter -> {"absent", "running", "done", "raised", "cancelled"}]
  BY DEF IInv, TypeOK
<1>5. \A q \in Query : query'[q] = (IF q \in tasks THEN "running" ELSE query[q])
  BY <1>1
<1>6. \A t \in Waiter : waiter'[t] = (IF Waited(t) \cap tasks # {} THEN "running" ELSE "absent")
  BY <1>1, <1>3
<1>7. TypeOK'
  BY <1>1, <1>4 DEF IInv, TypeOK
<1>8. OwnQueries'
  <2>1. (reply = None => \A q \in Query : query[q] # "absent" => q \in Queries(request))'
    BY <1>1, <1>2, <1>5 DEF IInv, OwnQueries
  <2>2. (\A t \in Waiter : waiter[t] = "absent" => \A q \in Waited(t) : query[q] = "absent")'
    BY <1>3, <1>5, <1>6, WaitedQueries DEF IInv, OwnQueries
  <2>3. QED
    BY <1>1, <1>3, <2>1, <2>2 DEF OwnQueries
<1>9. Preparing'
  BY <1>1, <1>2, <1>3, <1>5, <1>6 DEF Preparing
<1>10. WaiterTells'
  BY <1>6 DEF WaiterTells
<1>11. InnerFirst' /\ AnsweredInTime'
  <2>1. RequestTimeout(request) > 0
    BY DEF RequestTimeout
  <2>2. QED
    BY <1>1, <1>3, <2>1, Timeouts DEF InnerFirst, AnsweredInTime
<1>12. LateIsNoError' /\ WhatAnsweredIsShown' /\ NothingRunsOn'
  BY <1>1, AnswersDiffer DEF LateIsNoError, WhatAnsweredIsShown, NothingRunsOn
<1>13. QED
  BY <1>7, <1>8, <1>9, <1>10, <1>11, <1>12 DEF IInv

LEMMA ConstructFailsIInv == ASSUME IInv, NEW lib \in Library, ConstructFails(lib) PROVE IInv'
<1>1. /\ reply = None /\ lib \in due /\ reply' = Failed
      /\ query' = [q \in Query |-> IF query[q] = "running" THEN "cancelled" ELSE query[q]]
      /\ UNCHANGED <<request, due, clock, waiter>>
  BY DEF ConstructFails, NextDue, CancelAll
<1>2. /\ request # None /\ clock = 0
      /\ \A t \in Waiter : waiter[t] = "absent"
      /\ \A q \in Query : query[q] \in {"absent", "running", "cancelled"}
  BY <1>1 DEF IInv, Preparing
<1>3. reply' # None
  BY <1>1, AnswersDiffer
<1>4. \A q \in Query : query'[q] \in {"absent", "cancelled"} /\ (query[q] = "absent" => query'[q] = "absent")
  BY <1>1, <1>2
<1>5. TypeOK'
  BY <1>1, <1>2, <1>4 DEF IInv, TypeOK
<1>6. OwnQueries'
  BY <1>1, <1>3, <1>4, WaitedQueries DEF IInv, OwnQueries
<1>7. Preparing' /\ WaiterTells' /\ InnerFirst'
  BY <1>1, <1>2, <1>3, <1>4 DEF Preparing, WaiterTells, InnerFirst
<1>8. LateIsNoError' /\ WhatAnsweredIsShown' /\ AnsweredInTime' /\ NothingRunsOn'
  BY <1>1, <1>3, <1>4 DEF LateIsNoError, WhatAnsweredIsShown, AnsweredInTime, NothingRunsOn
<1>9. QED
  BY <1>5, <1>6, <1>7, <1>8 DEF IInv

LEMMA EndIInv == ASSUME IInv, IfAsync, NEW q \in Query, End(q) PROVE IInv'
<1>1. PICK how \in {"found", "nothing", "raised"} :
        /\ due = {} /\ query[q] = "running" /\ clock < Deadline(q)
        /\ query' = [query EXCEPT ![q] = how]
        /\ UNCHANGED <<request, due, clock, waiter, reply>>
  BY DEF End, Blocked
<1>2. /\ query \in [Query -> {"absent", "running", "found", "nothing", "raised", "cancelled"}]
      /\ clock \in Nat
  BY DEF IInv, TypeOK, MaxClock
<1>3. reply = None
  BY <1>1 DEF IInv, NothingRunsOn
<1>4. TypeOK'
  BY <1>1 DEF IInv, TypeOK
<1>5. OwnQueries' /\ Preparing' /\ WaiterTells'
  BY <1>1, <1>2, <1>3 DEF IInv, OwnQueries, Preparing, WaiterTells
<1>6. clock < RequestTimeout(request)
  BY <1>1, <1>2, Timeouts DEF Deadline
<1>7. InnerFirst'
  BY <1>1, <1>2, <1>6, Timeouts DEF IInv, InnerFirst
<1>8. /\ LateIsNoError' /\ WhatAnsweredIsShown' /\ AnsweredInTime' /\ NothingRunsOn'
  BY <1>1, <1>3, AnswersDiffer
     DEF IInv, LateIsNoError, WhatAnsweredIsShown, AnsweredInTime, NothingRunsOn
<1>9. QED
  BY <1>4, <1>5, <1>7, <1>8 DEF IInv

LEMMA LookbackEndsIInv == ASSUME IInv, IfAsync, NEW t \in Waiter, LookbackEnds(t) PROVE IInv'
<1> DEFINE result == IF \E q \in Waited(t) : query[q] = "raised" THEN "raised" ELSE "done"
<1>1. /\ waiter[t] = "running"
      /\ query' = [q \in Query |-> IF q \in Running(t) THEN "cancelled" ELSE query[q]]
      /\ waiter' = [waiter EXCEPT ![t] = result]
      /\ UNCHANGED <<request, due, clock, reply>>
  BY DEF LookbackEnds, LookbackReady, CancelAll
<1>2. /\ query \in [Query -> {"absent", "running", "found", "nothing", "raised", "cancelled"}]
      /\ waiter \in [Waiter -> {"absent", "running", "done", "raised", "cancelled"}]
  BY DEF IInv, TypeOK
<1>3. reply = None /\ due = {}
  BY <1>1 DEF IInv, InnerFirst, Preparing
<1>4. \A q \in Query :
        query'[q] = IF q \in Waited(t) /\ query[q] = "running" THEN "cancelled" ELSE query[q]
  BY <1>1 DEF Running
<1>5. \A u \in Waiter : waiter'[u] = IF u = t THEN result ELSE waiter[u]
  BY <1>1, <1>2
<1>6. TypeOK'
  BY <1>1, <1>2 DEF IInv, TypeOK
<1>7. OwnQueries'
  <2>1. (reply = None => \A q \in Query : query[q] # "absent" => q \in Queries(request))'
    BY <1>1, <1>3, <1>4 DEF IInv, OwnQueries
  <2>2. (\A u \in Waiter : waiter[u] = "absent" => \A q \in Waited(u) : query[q] = "absent")'
    BY <1>4, <1>5, WaitedQueries DEF IInv, OwnQueries
  <2>3. QED
    BY <1>1, <2>1, <2>2 DEF IInv, OwnQueries
<1>8. WaiterTells'
  <2>1. SUFFICES ASSUME NEW u \in Waiter
                 PROVE /\ waiter'[u] = "done" => \A q \in Waited(u) : query'[q] \notin {"raised", "running"}
                       /\ waiter'[u] = "raised" => \E q \in Waited(u) : query'[q] = "raised"
                       /\ waiter'[u] = "cancelled" => reply' # None
                       /\ waiter'[u] \notin {"absent", "running"} =>
                            \A q \in Waited(u) : query'[q] # "running"
    BY DEF WaiterTells
  <2>2. CASE u = t
    BY <1>4, <1>5, <2>2, WaitedQueries
  <2>3. CASE u # t
    BY <1>1, <1>4, <1>5, <2>3, WaitedQueries DEF IInv, WaiterTells
  <2>4. QED
    BY <2>2, <2>3
<1>9. InnerFirst'
  <2>1. SUFFICES ASSUME NEW u \in Waiter, waiter'[u] = "running"
                 PROVE /\ reply' = None
                       /\ clock' <= LookbackTimeout(request')
                       /\ clock' >= RequestTimeout(request') =>
                            \A q \in Waited(u) : query'[q] \in {"absent", "running"}
    BY DEF InnerFirst
  <2>2. u # t /\ waiter[u] = "running"
    BY <1>5, <2>1
  <2>3. \A q \in Waited(u) : query'[q] = query[q]
    BY <1>4, <2>2, WaitedQueries
  <2>4. QED
    BY <1>1, <2>2, <2>3 DEF IInv, InnerFirst
<1>10. Preparing' /\ LateIsNoError' /\ WhatAnsweredIsShown' /\ AnsweredInTime' /\ NothingRunsOn'
  BY <1>1, <1>3, AnswersDiffer
     DEF IInv, Preparing, LateIsNoError, WhatAnsweredIsShown, AnsweredInTime, NothingRunsOn
<1>11. QED
  BY <1>6, <1>7, <1>8, <1>9, <1>10 DEF IInv

LEMMA RequestEndsIInv == ASSUME IInv, IfAsync, RequestEnds PROVE IInv'
<1>1. /\ reply = None /\ due = {}
      /\ Unfinished = {} \/ clock >= RequestTimeout(request)
      /\ reply' = (IF Raised THEN Failed ELSE Results)
      /\ query' = [q \in Query |-> IF query[q] = "running" THEN "cancelled" ELSE query[q]]
      /\ waiter' = [t \in Waiter |-> IF waiter[t] = "running" THEN "cancelled" ELSE waiter[t]]
      /\ UNCHANGED <<request, due, clock>>
  BY DEF RequestEnds, RequestReady, CancelAll
<1>2. /\ query \in [Query -> {"absent", "running", "found", "nothing", "raised", "cancelled"}]
      /\ waiter \in [Waiter -> {"absent", "running", "done", "raised", "cancelled"}]
  BY DEF IInv, TypeOK
<1>3. Results \in SUBSET Query
  BY WaitedQueries DEF Results
<1>4. reply' # None /\ (reply' = Failed <=> Raised) /\ reply' # Rejected
  BY <1>1, <1>3, AnswersDiffer
<1>5. \A t \in Waiter : waiter[t] = "running" =>
        \A q \in Waited(t) : query[q] \in {"absent", "running"}
  BY <1>1 DEF IInv, InnerFirst, Unfinished
<1>6. \A q \in Query : /\ query'[q] # "running"
                       /\ query'[q] = "raised" <=> query[q] = "raised"
                       /\ query'[q] = "found" <=> query[q] = "found"
                       /\ query'[q] = "absent" <=> query[q] = "absent"
  BY <1>1
<1>7. \A t \in Waiter : waiter'[t] # "running" /\ (waiter[t] # "running" => waiter'[t] = waiter[t])
                        /\ (waiter[t] = "running" => waiter'[t] = "cancelled")
  BY <1>1
<1>8. TypeOK'
  BY <1>1, <1>2, <1>3 DEF IInv, TypeOK
<1>9. OwnQueries' /\ Preparing'
  BY <1>1, <1>4, <1>6, <1>7, WaitedQueries DEF IInv, OwnQueries, Preparing
<1>10. WaiterTells'
  BY <1>4, <1>6, <1>7, WaitedQueries DEF IInv, WaiterTells
<1>11. InnerFirst' /\ AnsweredInTime' /\ NothingRunsOn'
  BY <1>4, <1>6, <1>7 DEF InnerFirst, AnsweredInTime, NothingRunsOn
<1>12. \A t \in Waiter : (\E q \in Waited(t) : query[q] = "raised") <=> waiter[t] = "raised"
  <2>1. SUFFICES ASSUME NEW t \in Waiter, NEW q \in Waited(t), query[q] = "raised"
                 PROVE waiter[t] = "raised"
    BY DEF IInv, WaiterTells
  <2>2. waiter[t] \notin {"absent", "running", "done", "cancelled"}
    BY <1>1, <1>5, <2>1 DEF IInv, OwnQueries, WaiterTells
  <2>3. QED
    BY <1>2, <2>2
<1>13. LateIsNoError'
  <2>1. Raised <=> \E q \in Query : query[q] = "raised"
    BY <1>12, WaitedQueries DEF Raised
  <2>2. QED
    BY <1>1, <1>4, <1>6, <2>1 DEF LateIsNoError
<1>14. WhatAnsweredIsShown'
  <2>1. SUFFICES ASSUME ~Raised, NEW q \in Query, query[q] = "found" PROVE q \in Results
    BY <1>1, <1>4, <1>6 DEF WhatAnsweredIsShown
  <2>2. CASE q \in Contacts
    BY <2>1, <2>2 DEF Results
  <2>3. CASE q \notin Contacts
    <3>1. PICK t \in Waiter : q \in Waited(t)
      BY <2>3, WaitedQueries
    <3>2. waiter[t] \notin {"absent", "running", "cancelled", "raised"}
      BY <1>1, <1>5, <2>1, <3>1 DEF IInv, OwnQueries, WaiterTells, Raised
    <3>3. waiter[t] = "done"
      BY <1>2, <3>2
    <3>4. QED
      BY <2>1, <3>1, <3>3 DEF Results
  <2>4. QED
    BY <2>2, <2>3
<1>15. QED
  BY <1>8, <1>9, <1>10, <1>11, <1>13, <1>14 DEF IInv

LEMMA TickIInv == ASSUME IInv, IfAsync, Tick PROVE IInv'
<1>1. /\ reply = None /\ due = {} /\ clock < MaxClock /\ clock' = clock + 1
      /\ UNCHANGED <<request, due, query, waiter, reply>>
      /\ clock < RequestTimeout(request)
      /\ \A t \in Waiter : waiter[t] = "running" =>
           Running(t) # {} /\ clock < LookbackTimeout(request)
  <2>1. clock \in Nat
    BY DEF IInv, TypeOK
  <2>2. QED
    BY <2>1, Timeouts DEF Tick, RequestReady, LookbackReady, Blocked
<1>2. clock \in Nat /\ clock' \in Nat /\ clock' \in 0..MaxClock
  BY <1>1 DEF IInv, TypeOK, MaxClock
<1>3. TypeOK'
  BY <1>1, <1>2 DEF IInv, TypeOK
<1>4. OwnQueries' /\ Preparing' /\ WaiterTells'
  BY <1>1 DEF IInv, OwnQueries, Preparing, WaiterTells
<1>5. InnerFirst'
  <2>1. SUFFICES ASSUME NEW t \in Waiter, waiter[t] = "running"
                 PROVE /\ clock + 1 <= LookbackTimeout(request)
                       /\ clock + 1 >= RequestTimeout(request) =>
                            \A q \in Waited(t) : query[q] \in {"absent", "running"}
    BY <1>1 DEF InnerFirst
  <2>2. clock + 1 <= LookbackTimeout(request)
    BY <1>1, <1>2, <2>1, Timeouts
  <2>3. ASSUME clock + 1 >= RequestTimeout(request), NEW q \in Waited(t), query[q] # "absent"
        PROVE query[q] = "running"
    <3>1. ExtendTime(request)
      BY <1>2, <2>2, <2>3, Timeouts
    <3>2. PICK p \in Waited(t) : query[p] = "running"
      BY <1>1, <2>1 DEF Running
    <3>3. p \in Queries(request) /\ q \in Queries(request)
      BY <1>1, <2>3, <3>2, WaitedQueries DEF IInv, OwnQueries
    <3>4. p = q
      BY <2>3, <3>1, <3>2, <3>3, ExtendedIsSingle
    <3>5. QED
      BY <3>2, <3>4
  <2>4. QED
    BY <2>2, <2>3
<1>6. LateIsNoError' /\ WhatAnsweredIsShown' /\ NothingRunsOn'
  BY <1>1 DEF IInv, LateIsNoError, WhatAnsweredIsShown, NothingRunsOn
<1>7. AnsweredInTime'
  BY <1>1, <1>2, Timeouts DEF AnsweredInTime
<1>8. QED
  BY <1>3, <1>4, <1>5, <1>6, <1>7 DEF IInv

LEMMA NextIInv == ASSUME IInv, IfAsync, [Next]_vars PROVE IInv'
<1>1. CASE Next
  BY <1>1, MainIInv, ConstructIInv, ConstructFailsIInv, EndIInv, LookbackEndsIInv,
     RequestEndsIInv, TickIInv DEF Next
<1>2. CASE UNCHANGED vars
  BY <1>2 DEF vars, IInv, TypeOK, OwnQueries, Preparing, WaiterTells, InnerFirst, LateIsNoError,
              WhatAnsweredIsShown, AnsweredInTime, NothingRunsOn
<1>3. QED
  BY <1>1, <1>2

LEMMA AlwaysIInv == ASSUME IfAsync PROVE Spec => []IInv
<1>1. ASSUME IInv, [Next]_vars PROVE IInv'
  BY <1>1, NextIInv
<1>2. QED
  BY <1>1, InitIInv, PTL DEF Spec

-----------------------------------------------------------------------------
\* The variables of a worker's requests stay in their types.
THEOREM RequestTypeCorrect == ASSUME IfAsync PROVE Spec => []TypeOK
<1>1. IInv => TypeOK
  BY DEF IInv
<1>2. QED
  BY <1>1, AlwaysIInv, PTL

\* A request fails if and only if a library could not be constructed or one of its
\* queries raised: being slow fails none, and no raise is swallowed by the two waits.
THEOREM OnlyFailuresFail == ASSUME IfAsync PROVE Spec => []LateIsNoError
<1>1. IInv => LateIsNoError
  BY DEF IInv
<1>2. QED
  BY <1>1, AlwaysIInv, PTL

\* Whatever side of a search found something in time is in the answer: the wait
\* inside a history task is over before the request gives that task up, or
\* what it waits for has not ended either.
THEOREM FoundIsShown == ASSUME IfAsync PROVE Spec => []WhatAnsweredIsShown
<1>1. IInv => WhatAnsweredIsShown
  BY DEF IInv
<1>2. QED
  BY <1>1, AlwaysIInv, PTL

\* No request waits for its tasks longer than its timeout.
THEOREM TimeoutHolds == ASSUME IfAsync PROVE Spec => []AnsweredInTime
<1>1. IInv => AnsweredInTime
  BY DEF IInv
<1>2. QED
  BY <1>1, AlwaysIInv, PTL

\* An answered request has left no query running.
THEOREM NothingLeftRunning == ASSUME IfAsync PROVE Spec => []NothingRunsOn
<1>1. IInv => NothingRunsOn
  BY DEF IInv
<1>2. QED
  BY <1>1, AlwaysIInv, PTL
=============================================================================
