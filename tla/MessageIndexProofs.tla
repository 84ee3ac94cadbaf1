-------------------------- MODULE MessageIndexProofs --------------------------
(***************************************************************************)
(* Theorems about MessageIndex: for every set of messages, partitions and    *)
(* workers, any number of faults and restarts and any number of lookups,     *)
(* at-least-once delivery loses only what a failing request lost             *)
(* (LossesAreFailures), no poisonous value is committed past once reading    *)
(* began (PoisonIsNeverPassed), and children without a parent are in the     *)
(* error log (NoUnreportedOrphans).  A committed revoke keeps the text of    *)
(* its message hidden (RevokedStaysHidden), and only the replay of that      *)
(* message brings it back (OnlyReplayUnmasks).                               *)
(***************************************************************************)
EXTENDS MessageIndex, TLAPS

Offsets ==
  \A p \in Partition :
    /\ committed[p] <= next[p] /\ next[p] <= Len(log[p])
    /\ origin[p] <= next[p] /\ taken[p] <= Len(log[p])
    /\ committed[p] = NoOffset \/ origin[p] <= committed[p]

\* The event a worker handles is the last one it took of one of its partitions,
\* and is not committed.
Where ==
  \A w \in Worker : at[w] # Idle =>
    \E p \in Partition : /\ Owner[p] = w /\ committed[p] < next[p]
                         /\ origin[p] < next[p] /\ next[p] <= taken[p]
                         /\ log[p][next[p]] = at[w].event

\* A message has one event, in its partition.
Once ==
  \A m \in Message : \A p \in Partition : \A i \in 1..Len(log[p]) :
    log[p][i] = Said(m) =>
      /\ p = ChatPart[m]
      /\ \A j \in 1..Len(log[p]) : log[p][j] = Said(m) => i = j

\* A worker that took a poisonous value has ended there.
PoisonEnds ==
  \A p \in Partition : \A i \in (origin[p] + 1)..next[p] :
    log[p][i].kind = "poison" => i = next[p] /\ committed[p] < i /\ ~up[Owner[p]]

Filed(m) ==
  \/ Named(Said(m))
  \/ /\ parent[DocOf(m)] # Absent
     /\ child[m] = Shape[m].objects \/ Lost(m, "objects")
     /\ \/ ext[m] = Shape[m].extends
        \/ Lost(m, "extendInfo")
        \/ Shape[m].tag = "dict" /\ Lost(m, "objects")

Consumed(m) == \E i \in (origin[ChatPart[m]] + 1)..next[ChatPart[m]] : log[ChatPart[m]][i] = Said(m)
Handling(m) == at[Owner[ChatPart[m]]].event = Said(m)

\* What was taken and is not being handled any more has been filed.
Behind == \A m \in Message : Shape[m].body # "long" /\ Consumed(m) /\ ~Handling(m) => Filed(m)

\* How far the message under way is filed.
StageOf(place, m) ==
  /\ place.step \in {"lookup", "connect", "parent", "child", "ext"}
  /\ place.step \in {"child", "ext"} => Named(Said(m)) \/ parent[DocOf(m)] # Absent
  /\ place.step = "child" =>
       /\ place.n < Shape[m].objects
       /\ place.n > 0 => Named(Said(m)) \/ child[m] = place.n
  /\ place.step = "ext" =>
       /\ place.n < Shape[m].extends
       /\ Named(Said(m)) \/ child[m] = Shape[m].objects \/ Lost(m, "objects")
       /\ place.n > 0 => Named(Said(m)) \/ ext[m] = place.n
MessageStage(w, m) == StageOf(at[w], m)
Stage(w) ==
  /\ \A m \in Message : at[w].event = Said(m) => MessageStage(w, m)
  /\ \A m \in Message : at[w].event = Revoked(m) =>
       at[w].step \in {"lookup", "exists", "mask", "placeholder"}

\* A message without objects or extendInfo has no such document.
NoMore ==
  \A m \in Message : /\ Shape[m].objects = 0 => child[m] = 0
                     /\ Shape[m].extends = 0 => ext[m] = 0

IInv ==
  /\ TypeOK /\ Offsets /\ Where /\ Once /\ PoisonEnds /\ Behind
  /\ (\A w \in Worker : Stage(w)) /\ NoMore

-----------------------------------------------------------------------------
LEMMA Kinds ==
  /\ Idle \in Place /\ Idle.event = NoEvent /\ Idle.step = "idle"
  /\ \A m \in Message : /\ Said(m) \in MessageEvent /\ Revoked(m) \in MessageEvent
                        /\ Said(m).kind = "message" /\ Said(m).msg = m
                        /\ Revoked(m).kind = "revoke" /\ Revoked(m).msg = m
                        /\ Said(m) # NoEvent /\ Revoked(m) # NoEvent /\ Said(m) # Revoked(m)
                        /\ \A k \in Message : Said(m) # Revoked(k)
                        /\ \A e \in StrayEvent : Said(m) # e
  /\ \A e \in MessageEvent : /\ e.msg \in Message
                             /\ e = Said(e.msg) \/ e = Revoked(e.msg)
  /\ \A e \in StrayEvent : e.kind \in {"skipped", "poison"}
<1>1. Idle \in Place /\ Idle.event = NoEvent /\ Idle.step = "idle"
  BY DEF Idle, Place
<1>2. \A m \in Message : /\ Said(m) \in MessageEvent /\ Revoked(m) \in MessageEvent
                         /\ Said(m).kind = "message" /\ Said(m).msg = m
                         /\ Revoked(m).kind = "revoke" /\ Revoked(m).msg = m
  BY DEF Said, Revoked, MessageEvent
<1>3. NoEvent.kind = "none" /\ \A e \in StrayEvent : e.kind \in {"skipped", "poison"}
  BY DEF NoEvent, StrayEvent
<1>4. \A e \in MessageEvent : /\ e.msg \in Message
                              /\ e = Said(e.msg) \/ e = Revoked(e.msg)
  BY DEF MessageEvent, Said, Revoked
<1>5. QED
  BY <1>1, <1>2, <1>3, <1>4

LEMMA ShapeType ==
  ASSUME NEW m \in Message
  PROVE  /\ Shape[m].objects \in Nat /\ Shape[m].extends \in Nat
         /\ Shape[m].body \in {"text", "empty", "long"} /\ Shape[m].form \in {"none", "dict", "list"}
         /\ Shape[m].tag \in {"none", "bulk", "dict"}
         /\ DocOf(m) \in Document /\ RevokeDocOf(m) \in Document
         /\ ChatPart[m] \in Partition /\ RevokePart[m] \in Partition
BY ShapeAssumption, PartitionAssumption DEF MessageShape, DocOf, RevokeDocOf, Document

LEMMA Documents ==
  /\ Absent \in ParentDoc /\ Live \in ParentDoc /\ Placeholder \in ParentDoc
  /\ Live # Absent /\ Placeholder # Absent
  /\ \A doc \in ParentDoc : Masked(doc) \in ParentDoc /\ Masked(doc) # Absent
BY DEF Absent, Live, Placeholder, ParentDoc, Masked

LEMMA AtType ==
  ASSUME TypeOK, NEW w \in Worker, at[w] # Idle
  PROVE  /\ at[w].step \in Steps /\ at[w].event \in MessageEvent /\ at[w].n \in Nat
         /\ Msg(w) \in Message
         /\ at[w].event = Said(Msg(w)) \/ at[w].event = Revoked(Msg(w))
<1>1. at[w] \in [step : Steps, event : MessageEvent, n : Nat]
  BY DEF TypeOK, Place
<1>2. QED
  BY <1>1, Kinds DEF Msg

LEMMA OffsetFacts ==
  ASSUME IInv, NEW p \in Partition
  PROVE  /\ next[p] \in Nat /\ origin[p] \in Nat /\ taken[p] \in Nat /\ Len(log[p]) \in Nat
         /\ committed[p] = -1 \/ (committed[p] \in Nat /\ origin[p] <= committed[p])
         /\ committed[p] <= next[p] /\ next[p] <= Len(log[p])
         /\ origin[p] <= next[p] /\ taken[p] <= Len(log[p])
<1>1. /\ next[p] \in Nat /\ origin[p] \in Nat /\ taken[p] \in Nat /\ log[p] \in Seq(Event)
      /\ committed[p] \in Nat \cup {-1}
  BY DEF IInv, TypeOK, NoOffset
<1>2. QED
  BY <1>1 DEF IInv, Offsets, NoOffset

\* Only the owner of a message's partition handles its event.
LEMMA OneHandler ==
  ASSUME IInv, NEW w \in Worker, NEW m \in Message, at[w].event = Said(m)
  PROVE  /\ w = Owner[ChatPart[m]] /\ committed[ChatPart[m]] < next[ChatPart[m]]
         /\ log[ChatPart[m]][next[ChatPart[m]]] = Said(m)
         /\ next[ChatPart[m]] \in 1..Len(log[ChatPart[m]])
         /\ origin[ChatPart[m]] < next[ChatPart[m]]
<1>1. at[w] # Idle
  BY Kinds
<1>2. PICK p \in Partition : /\ Owner[p] = w /\ committed[p] < next[p]
                             /\ origin[p] < next[p] /\ next[p] <= taken[p]
                             /\ log[p][next[p]] = Said(m)
  BY <1>1 DEF IInv, Where
<1>3. next[p] \in 1..Len(log[p])
  BY <1>2, OffsetFacts
<1>4. p = ChatPart[m]
  BY <1>2, <1>3 DEF IInv, Once
<1>5. QED
  BY <1>2, <1>3, <1>4

-----------------------------------------------------------------------------
LEMMA InitIInv == Init => IInv
<1>1. SUFFICES ASSUME Init PROVE IInv
  OBVIOUS
<1>2. TypeOK
  BY <1>1, Kinds, Documents DEF Init, TypeOK
<1>3. /\ Offsets /\ Where /\ Once /\ PoisonEnds /\ NoMore
  BY <1>1 DEF Init, Offsets, Where, Once, PoisonEnds, NoMore, NoOffset
<1>4. Behind
  BY <1>1, ShapeType DEF Init, Behind, Consumed
<1>5. \A w \in Worker : Stage(w)
  BY <1>1, Kinds DEF Init, Stage
<1>6. QED
  BY <1>2, <1>3, <1>4, <1>5 DEF IInv

\* A step of a worker within an event, which files or notes as failed what it leaves.
LEMMA HandleSound ==
  ASSUME IInv, NEW w \in Worker, at[w] # Idle, NEW place \in Place, at' = [at EXCEPT ![w] = place],
         place = Idle \/ (place # Idle /\ place.event = at[w].event),
         TypeOK', UNCHANGED <<log, next, committed, origin, taken>>, \A u \in Worker : up'[u] => up[u],
         failures \subseteq failures',
         \A d \in Document : parent[d] # Absent => parent'[d] # Absent,
         \A m \in Message : at[w].event # Said(m) => child'[m] = child[m] /\ ext'[m] = ext[m],
         Stage(w)', NoMore',
         \A m \in Message : at[w].event = Said(m) /\ place = Idle /\ Shape[m].body # "long" => Filed(m)'
  PROVE  IInv'
<1>1. \A u \in Worker : at'[u] = IF u = w THEN place ELSE at[u]
  BY DEF IInv, TypeOK
<1>2. Offsets' /\ Once' /\ PoisonEnds'
  BY PartitionAssumption DEF IInv, Offsets, Once, PoisonEnds
<1>3. Where'
  BY <1>1 DEF IInv, Where
<1>4. \A m \in Message : Named(Said(m)) => Named(Said(m))'
  BY DEF Named
<1>5. \A m \in Message : at[w].event # Said(m) /\ Filed(m) => Filed(m)'
  <2>1. SUFFICES ASSUME NEW m \in Message, at[w].event # Said(m), Filed(m) PROVE Filed(m)'
    OBVIOUS
  <2>2. child'[m] = child[m] /\ ext'[m] = ext[m]
    BY <2>1
  <2>3. parent[DocOf(m)] # Absent => parent'[DocOf(m)] # Absent
    BY ShapeType
  <2>4. QED
    BY <1>4, <2>1, <2>2, <2>3 DEF Filed, Lost
<1>6. Behind'
  <2>1. SUFFICES ASSUME NEW m \in Message, Shape[m].body # "long", Consumed(m)', ~Handling(m)'
                 PROVE Filed(m)'
    BY DEF Behind
  <2>2. Consumed(m) /\ Owner[ChatPart[m]] \in Worker
    BY <2>1, ShapeType, PartitionAssumption DEF Consumed
  <2>3. CASE at[w].event = Said(m)
    <3>1. w = Owner[ChatPart[m]]
      BY <2>3, OneHandler
    <3>2. place = Idle
      BY <1>1, <2>1, <2>3, <3>1 DEF Handling
    <3>3. QED
      BY <2>1, <2>3, <3>2
  <2>4. CASE at[w].event # Said(m)
    <3>1. ~Handling(m)
      BY <1>1, <2>1, <2>2, <2>4 DEF Handling
    <3>2. QED
      BY <1>5, <2>1, <2>2, <2>4, <3>1 DEF IInv, Behind
  <2>5. QED
    BY <2>3, <2>4
<1>7. \A u \in Worker : Stage(u)'
  <2>1. SUFFICES ASSUME NEW u \in Worker, u # w PROVE Stage(u)'
    OBVIOUS
  <2>2. at'[u] = at[u]
    BY <1>1, <2>1
  <2>3. ASSUME NEW m \in Message, at[u].event = Said(m) PROVE MessageStage(u, m)'
    <3>1. at[w].event # Said(m)
      BY <2>1, <2>3, OneHandler
    <3>2. MessageStage(u, m)
      BY <2>3 DEF IInv, Stage
    <3>3. child'[m] = child[m] /\ ext'[m] = ext[m]
      BY <3>1
    <3>4. parent[DocOf(m)] # Absent => parent'[DocOf(m)] # Absent
      BY ShapeType
    <3>5. QED
      BY <1>4, <2>2, <3>2, <3>3, <3>4 DEF MessageStage, StageOf, Lost
  <2>4. QED
    BY <2>2, <2>3 DEF IInv, Stage
<1>8. QED
  BY <1>2, <1>3, <1>6, <1>7 DEF IInv

LEMMA PlaceType ==
  ASSUME TypeOK, NEW w \in Worker, at[w] # Idle
  PROVE  /\ \A s \in Steps : \A n \in Nat :
              Step(w, s, n) \in Place /\ Step(w, s, n) # Idle
              /\ Step(w, s, n).event = at[w].event /\ Step(w, s, n).step = s /\ Step(w, s, n).n = n
         /\ \A place \in Place : [at EXCEPT ![w] = place] \in [Worker -> Place]
<1>1. at[w].event \in MessageEvent
  BY AtType
<1>2. \A s \in Steps : s # "idle"
  BY DEF Steps
<1>3. QED
  BY <1>1, <1>2 DEF Step, Place, Idle, TypeOK

\* What a failure adds to the history.
LEMMA NoteSound ==
  ASSUME TypeOK, NEW w \in Worker, at[w] # Idle, NEW what, Note(w, what)
  PROVE  /\ failures \subseteq failures' /\ \A f \in failures' : f.event \in MessageEvent
         /\ \A e \in MessageEvent : at[w].event = e => Failed(e)'
         /\ \A m \in Message : at[w].event = Said(m) =>
              /\ Lost(m, what)'
              /\ (what \in {"no id", "data error", "empty", "parent", "item"} => Named(Said(m))')
<1> DEFINE failure == [event |-> at[w].event, what |-> what]
<1>1. failures' = failures \cup {failure}
  BY DEF Note
<1>2. failure \in failures' /\ failure.event = at[w].event /\ failure.what = what
  BY <1>1
<1>3. at[w].event \in MessageEvent /\ \A f \in failures : f.event \in MessageEvent
  BY AtType DEF TypeOK
<1>4. \A f \in failures' : f.event \in MessageEvent
  BY <1>1, <1>2, <1>3
<1>5. \A m \in Message : at[w].event = Said(m) => Lost(m, what)'
  BY <1>2 DEF Lost
<1>6. \A e \in MessageEvent : at[w].event = e => Failed(e)'
  BY <1>2 DEF Failed
<1>7. \A m \in Message :
        at[w].event = Said(m) /\ what \in {"no id", "data error", "empty", "parent", "item"} =>
          Named(Said(m))'
  BY <1>2 DEF Named
<1>8. QED
  BY <1>1, <1>4, <1>5, <1>6, <1>7

\* A step that files nothing and leaves the message's documents to come.
LEMMA QuietStep ==
  ASSUME IInv, NEW w \in Worker, at[w] # Idle, NEW place \in Place, at' = [at EXCEPT ![w] = place],
         place = Idle \/ (place # Idle /\ place.event = at[w].event),
         UNCHANGED <<stored, log, next, committed, origin, taken, up, connected, parent, child, ext, faults, restarts>>,
         failures \subseteq failures', \A r \in failures' : r.event \in MessageEvent,
         place # Idle => \A m \in Message :
           /\ at[w].event = Said(m) => place.step \in {"lookup", "connect", "parent"}
           /\ at[w].event = Revoked(m) => place.step \in {"lookup", "exists", "mask", "placeholder"},
         \A m \in Message : at[w].event = Said(m) /\ place = Idle /\ Shape[m].body # "long" =>
           Named(Said(m))'
  PROVE  IInv'
<1>1. TypeOK'
  BY PlaceType DEF IInv, TypeOK
<1>2. at'[w] = place
  BY DEF IInv, TypeOK
<1>3. Stage(w)'
  <2>1. CASE place = Idle
    BY <1>2, <2>1, Kinds DEF Stage
  <2>2. CASE place # Idle
    BY <1>2, <2>2 DEF Stage, MessageStage, StageOf
  <2>3. QED
    BY <2>1, <2>2
<1>4. NoMore'
  BY DEF IInv, NoMore
<1>5. \A m \in Message : at[w].event = Said(m) /\ place = Idle /\ Shape[m].body # "long" => Filed(m)'
  BY DEF Filed
<1>6. QED
  BY <1>1, <1>3, <1>4, <1>5, HandleSound

LEMMA AfterLookupIs ==
  ASSUME TypeOK, NEW w \in Worker, at[w] # Idle
  PROVE  /\ \A m \in Message : at[w].event = Revoked(m) => AfterLookup(w) = Step(w, "exists", 0)
         /\ \A m \in Message : at[w].event = Said(m) =>
              AfterLookup(w) = IF Shape[m].body = "text" THEN Step(w, "connect", 0) ELSE Idle
<1>1. ASSUME at[w].event.kind = "revoke" PROVE AfterLookup(w) = Step(w, "exists", 0)
  BY <1>1 DEF AfterLookup
<1>2. ASSUME at[w].event.kind = "message"
      PROVE AfterLookup(w) = IF Shape[Msg(w)].body = "text" THEN Step(w, "connect", 0) ELSE Idle
  BY <1>2 DEF AfterLookup
<1>3. QED
  BY <1>1, <1>2, Kinds DEF Msg

LEMMA LookupIInv ==
  ASSUME IInv, NEW w \in Worker,
         Found(w) \/ NotFoundYet(w) \/ NeverFound(w) \/ LookupRaises(w)
  PROVE  IInv'
<1>1. at[w] # Idle /\ TypeOK
  BY Kinds DEF IInv, Found, NotFoundYet, NeverFound, LookupRaises, At
<1>2. /\ at[w].event \in MessageEvent /\ at[w].n \in Nat
      /\ "lookup" \in Steps /\ "exists" \in Steps /\ "connect" \in Steps
  BY <1>1, AtType DEF Steps
<1>3. CASE Found(w)
  <2>0. \/ failures' = failures /\ (at[w].event.kind = "revoke" \/ Shape[Msg(w)].body # "empty")
        \/ Note(w, "empty")
    BY <1>2, <1>3, Kinds DEF Found
  <2>1. /\ at' = [at EXCEPT ![w] = AfterLookup(w)]
        /\ UNCHANGED <<stored, log, next, committed, origin, taken, up, connected, parent, child, ext, faults, restarts>>
    BY <1>3 DEF Found, Goto, serverVars, offsetVars, indexVars, faultVars
  <2>2. PICK m \in Message : at[w].event = Said(m) \/ at[w].event = Revoked(m)
    BY <1>1, AtType
  <2>3. /\ AfterLookup(w) \in Place
        /\ AfterLookup(w) = Idle \/ (AfterLookup(w) # Idle /\ AfterLookup(w).event = at[w].event)
        /\ at[w].event = Said(m) => /\ AfterLookup(w) # Idle => AfterLookup(w).step = "connect"
                                    /\ AfterLookup(w) = Idle => Shape[m].body # "text"
        /\ at[w].event = Revoked(m) => AfterLookup(w) # Idle /\ AfterLookup(w).step = "exists"
    BY <1>1, <1>2, <2>2, AfterLookupIs, PlaceType, Kinds
  <2>4. \A k \in Message : /\ at[w].event = Said(k) => k = m /\ at[w].event = Said(m)
                           /\ at[w].event = Revoked(k) => k = m /\ at[w].event = Revoked(m)
    BY <2>2, Kinds
  <2>5. failures \subseteq failures' /\ \A f \in failures' : f.event \in MessageEvent
    BY <1>1, <2>0, NoteSound DEF TypeOK
  <2>6. at[w].event = Said(m) /\ AfterLookup(w) = Idle /\ Shape[m].body # "long" => Named(Said(m))'
    <3>1. SUFFICES ASSUME at[w].event = Said(m), Shape[m].body = "empty" PROVE Named(Said(m))'
      BY <2>3, ShapeType
    <3>2. at[w].event.kind = "message" /\ Msg(w) = m
      BY <3>1, Kinds DEF Msg
    <3>3. Note(w, "empty")
      BY <2>0, <3>1, <3>2
    <3>4. QED
      BY <1>1, <3>1, <3>3, NoteSound
  <2>7. QED
    BY <1>1, <2>1, <2>3, <2>4, <2>5, <2>6, QuietStep
<1>4. CASE NotFoundYet(w)
  <2>1. /\ at' = [at EXCEPT ![w] = Step(w, "lookup", at[w].n + 1)] /\ failures' = failures
        /\ UNCHANGED <<stored, log, next, committed, origin, taken, up, connected, parent, child, ext, faults, restarts>>
    BY <1>4 DEF NotFoundYet, Goto, serverVars, offsetVars, indexVars, faultVars
  <2>2. at[w].n + 1 \in Nat
    BY <1>2
  <2>3. \A r \in failures' : r.event \in MessageEvent
    BY <1>1, <2>1 DEF TypeOK
  <2> DEFINE place == Step(w, "lookup", at[w].n + 1)
  <2>4. place \in Place /\ place # Idle /\ place.event = at[w].event /\ place.step = "lookup"
    BY <1>1, <1>2, <2>2, PlaceType
  <2> HIDE DEF place
  <2>5. at' = [at EXCEPT ![w] = place]
    BY <2>1 DEF place
  <2>6. QED
    BY <1>1, <2>1, <2>3, <2>4, <2>5, QuietStep
<1>5. CASE NeverFound(w) \/ LookupRaises(w)
  <2>1. PICK what \in {"no id", "data error"} : Note(w, what)
    BY <1>5 DEF NeverFound, LookupRaises
  <2>2. /\ at' = [at EXCEPT ![w] = Idle]
        /\ UNCHANGED <<stored, log, next, committed, origin, taken, up, connected, parent, child, ext, faults, restarts>>
    BY <1>5 DEF NeverFound, LookupRaises, Goto, serverVars, offsetVars, indexVars, faultVars
  <2>3. /\ failures \subseteq failures' /\ \A f \in failures' : f.event \in MessageEvent
        /\ \A m \in Message : at[w].event = Said(m) => Named(Said(m))'
    BY <1>1, <2>1, NoteSound
  <2>4. QED
    BY <1>1, <2>2, <2>3, Kinds, QuietStep
<1>6. QED
  BY <1>3, <1>4, <1>5

LEMMA ConnectIInv == ASSUME IInv, NEW w \in Worker, Connect(w) PROVE IInv'
<1>1. /\ at[w].step = "connect" /\ at' = [at EXCEPT ![w] = Step(w, "parent", 0)] /\ failures' = failures
      /\ UNCHANGED <<stored, log, next, committed, origin, taken, up, connected, parent, child, ext, faults, restarts>>
  BY DEF Connect, At, Goto, serverVars, offsetVars, indexVars, faultVars
<1>2. at[w] # Idle /\ TypeOK
  BY <1>1, Kinds DEF IInv
<1>3. \A m \in Message : at[w].event # Revoked(m)
  BY <1>1 DEF IInv, Stage
<1>4. "parent" \in Steps /\ \A r \in failures' : r.event \in MessageEvent
  BY <1>1, <1>2 DEF TypeOK, Steps
<1> DEFINE place == Step(w, "parent", 0)
<1>5. place \in Place /\ place # Idle /\ place.event = at[w].event /\ place.step = "parent"
  BY <1>2, <1>4, PlaceType
<1> HIDE DEF place
<1>6. at' = [at EXCEPT ![w] = place]
  BY <1>1 DEF place
<1>7. QED
  BY <1>1, <1>2, <1>3, <1>4, <1>5, <1>6, QuietStep

LEMMA ExistsIInv == ASSUME IInv, NEW w \in Worker, Exists(w) PROVE IInv'
<1>1. /\ at[w].step = "exists" /\ failures' = failures
      /\ \E s \in {"placeholder", "mask"} : at' = [at EXCEPT ![w] = Step(w, s, 0)]
      /\ UNCHANGED <<stored, log, next, committed, origin, taken, up, connected, parent, child, ext, faults, restarts>>
  BY DEF Exists, At, Goto, serverVars, offsetVars, indexVars, faultVars
<1>2. at[w] # Idle /\ TypeOK
  BY <1>1, Kinds DEF IInv
<1>3. \A m \in Message : at[w].event # Said(m)
  BY <1>1 DEF IInv, Stage, MessageStage, StageOf
<1>4. \A r \in failures' : r.event \in MessageEvent
  BY <1>1, <1>2 DEF TypeOK
<1>5. PICK s \in {"placeholder", "mask"} : at' = [at EXCEPT ![w] = Step(w, s, 0)]
  BY <1>1
<1>6. s \in Steps
  BY DEF Steps
<1> DEFINE place == Step(w, s, 0)
<1>7. place \in Place /\ place # Idle /\ place.event = at[w].event /\ place.step = s
  BY <1>2, <1>6, PlaceType
<1> HIDE DEF place
<1>8. at' = [at EXCEPT ![w] = place]
  BY <1>5 DEF place
<1>9. QED
  BY <1>1, <1>2, <1>3, <1>4, <1>7, <1>8, QuietStep

-----------------------------------------------------------------------------
\* What a step leaves of message m, if its event is over and if it is not.
Fits(place, m) == IF place = Idle THEN Shape[m].body # "long" => Filed(m) ELSE StageOf(place, m)

\* A step that files something of message m.
LEMMA FileStep ==
  ASSUME IInv, NEW w \in Worker, NEW m \in Message, at[w].event = Said(m),
         NEW place \in Place, at' = [at EXCEPT ![w] = place],
         place = Idle \/ (place # Idle /\ place.event = at[w].event),
         UNCHANGED <<stored, log, next, committed, origin, taken, up, connected, restarts>>, faults' \in Nat,
         failures \subseteq failures', \A r \in failures' : r.event \in MessageEvent,
         parent' \in [Document -> ParentDoc],
         \A d \in Document : parent[d] # Absent => parent'[d] # Absent,
         child' \in [Message -> Nat], ext' \in [Message -> Nat],
         \A k \in Message : k # m => child'[k] = child[k] /\ ext'[k] = ext[k],
         Shape[m].objects = 0 => child'[m] = 0, Shape[m].extends = 0 => ext'[m] = 0,
         Fits(place, m)'
  PROVE  IInv'
<1>1. at[w] # Idle
  BY Kinds
<1>2. TypeOK'
  BY <1>1, PlaceType DEF IInv, TypeOK
<1>3. at'[w] = place
  BY DEF IInv, TypeOK
<1>4. \A k \in Message : at[w].event = Said(k) => k = m
  <2>1. SUFFICES ASSUME NEW k \in Message, Said(k) = Said(m) PROVE k = m
    OBVIOUS
  <2>2. Said(k).msg = k /\ Said(m).msg = m
    BY Kinds
  <2>3. QED
    BY <2>1, <2>2
<1>5. Stage(w)'
  <2>1. CASE place = Idle
    BY <1>3, <2>1, Kinds DEF Stage
  <2>2. CASE place # Idle
    <3>1. \A k \in Message : at'[w].event # Revoked(k) /\ (at'[w].event = Said(k) => k = m)
      BY <1>3, <1>4, <2>2, Kinds
    <3>2. StageOf(place, m)'
      BY <2>2 DEF Fits
    <3>3. MessageStage(w, m)'
      BY <1>3, <3>2 DEF MessageStage, StageOf
    <3>4. QED
      BY <3>1, <3>3 DEF Stage
  <2>3. QED
    BY <2>1, <2>2
<1>6. NoMore'
  <2>1. ASSUME NEW k \in Message
        PROVE (Shape[k].objects = 0 => child'[k] = 0) /\ (Shape[k].extends = 0 => ext'[k] = 0)
    BY DEF IInv, NoMore
  <2>2. QED
    BY <2>1 DEF NoMore
<1>7. \A k \in Message : at[w].event # Said(k) => child'[k] = child[k] /\ ext'[k] = ext[k]
  OBVIOUS
<1>8. \A k \in Message : at[w].event = Said(k) /\ place = Idle /\ Shape[k].body # "long" => Filed(k)'
  BY <1>4 DEF Fits
<1>9. QED
  BY <1>1, <1>2, <1>5, <1>6, <1>7, <1>8, HandleSound

LEMMA AfterObjectsIs ==
  ASSUME TypeOK, NEW w \in Worker, NEW m \in Message, at[w].event = Said(m),
         NEW place, place = AfterObjects(w)
  PROVE  /\ place \in Place
         /\ place = Idle \/ (place # Idle /\ place.event = at[w].event)
         /\ IF Shape[m].extends > 0 THEN place # Idle /\ place.step = "ext" /\ place.n = 0
                                    ELSE place = Idle
<1>1. at[w] # Idle /\ Msg(w) = m /\ "ext" \in Steps
  BY Kinds DEF Msg, Steps
<1>2. CASE Shape[m].extends > 0
  BY <1>1, <1>2, PlaceType DEF AfterObjects
<1>3. CASE ~(Shape[m].extends > 0)
  BY <1>1, <1>3, Kinds DEF AfterObjects
<1>4. QED
  BY <1>2, <1>3

LEMMA AfterParentIs ==
  ASSUME TypeOK, NEW w \in Worker, NEW m \in Message, at[w].event = Said(m),
         NEW place, place = AfterParent(w)
  PROVE  /\ place \in Place
         /\ place = Idle \/ (place # Idle /\ place.event = at[w].event)
         /\ Shape[m].objects > 0 => place # Idle /\ place.step = "child" /\ place.n = 0
         /\ ~(Shape[m].objects > 0) =>
              IF Shape[m].extends > 0 THEN place # Idle /\ place.step = "ext" /\ place.n = 0
                                      ELSE place = Idle
<1>1. at[w] # Idle /\ Msg(w) = m /\ "child" \in Steps
  BY Kinds DEF Msg, Steps
<1>2. CASE Shape[m].objects > 0
  BY <1>1, <1>2, PlaceType DEF AfterParent
<1>3. CASE ~(Shape[m].objects > 0)
  <2>1. place = AfterObjects(w)
    BY <1>1, <1>3 DEF AfterParent
  <2>2. QED
    BY <1>3, <2>1, AfterObjectsIs
<1>4. QED
  BY <1>2, <1>3

\* The steps that write documents of messages handle a message.
LEMMA HandlesMessage ==
  ASSUME IInv, NEW w \in Worker, at[w].step \in {"parent", "child", "ext"}
  PROVE  at[w] # Idle /\ Msg(w) \in Message /\ at[w].event = Said(Msg(w)) /\ MessageStage(w, Msg(w))
<1>1. at[w] # Idle /\ TypeOK
  BY Kinds DEF IInv
<1>2. Msg(w) \in Message /\ (at[w].event = Said(Msg(w)) \/ at[w].event = Revoked(Msg(w)))
  BY <1>1, AtType
<1>3. at[w].event = Said(Msg(w))
  BY <1>2 DEF IInv, Stage
<1>4. QED
  BY <1>1, <1>2, <1>3 DEF IInv, Stage

LEMMA ParentIInv ==
  ASSUME IInv, NEW w \in Worker, WriteParent(w) \/ ParentFails(w) PROVE IInv'
<1>0. PICK m \in Message : m = Msg(w) /\ at[w].step = "parent"
  BY HandlesMessage DEF WriteParent, ParentFails, At
<1>1. /\ at[w].step = "parent" /\ at' = [at EXCEPT ![w] = AfterParent(w)]
      /\ UNCHANGED <<stored, log, next, committed, origin, taken, up, connected, child, ext, restarts>>
  BY DEF WriteParent, ParentFails, At, Goto, serverVars, offsetVars, faultVars
<1>2. /\ at[w] # Idle /\ m \in Message /\ at[w].event = Said(m) /\ TypeOK
      /\ NoMore
  BY <1>0, HandlesMessage DEF IInv
<1>3. faults \in Nat /\ faults' \in Nat
  BY <1>2 DEF WriteParent, ParentFails, Fault, faultVars, TypeOK
<1>4. /\ failures \subseteq failures' /\ \A r \in failures' : r.event \in MessageEvent
      /\ WriteParent(w) \/ Named(Said(m))'
  <2>1. CASE WriteParent(w)
    BY <1>2, <2>1 DEF WriteParent, TypeOK
  <2>2. CASE ParentFails(w)
    BY <1>2, <2>2, NoteSound DEF ParentFails
  <2>3. QED
    BY <2>1, <2>2
<1>5. /\ parent \in [Document -> ParentDoc] /\ DocOf(m) \in Document
      /\ Live \in ParentDoc /\ Live # Absent
      /\ parent' = parent \/ parent' = [parent EXCEPT ![DocOf(m)] = Live]
      /\ WriteParent(w) => parent' = [parent EXCEPT ![DocOf(m)] = Live]
  BY <1>0, <1>2, ShapeType, Documents DEF TypeOK, WriteParent, ParentFails
<1>6. /\ parent' \in [Document -> ParentDoc]
      /\ \A d \in Document : parent[d] # Absent => parent'[d] # Absent
      /\ WriteParent(w) => parent'[DocOf(m)] # Absent
  BY <1>5
<1>7. /\ child' \in [Message -> Nat] /\ ext' \in [Message -> Nat]
      /\ Shape[m].objects = 0 => child'[m] = 0
      /\ Shape[m].extends = 0 => ext'[m] = 0
  BY <1>1, <1>2 DEF TypeOK, NoMore
<1>8. PICK place : place = AfterParent(w)
  OBVIOUS
<1>9. place \in Place /\ (place = Idle \/ (place # Idle /\ place.event = at[w].event))
  BY <1>2, <1>8, AfterParentIs
<1>10. Named(Said(m))' \/ parent'[DocOf(m)] # Absent
  BY <1>4, <1>6
<1>11. Fits(place, m)'
  <2>1. Shape[m].objects \in Nat /\ Shape[m].extends \in Nat
    BY <1>2, ShapeType
  <2>2. CASE Shape[m].objects > 0
    <3>1. place # Idle /\ place.step = "child" /\ place.n = 0
      BY <1>2, <1>8, <2>2, AfterParentIs
    <3>2. QED
      BY <1>10, <2>1, <2>2, <3>1 DEF Fits, StageOf
  <2>3. CASE Shape[m].objects = 0 /\ Shape[m].extends > 0
    <3>1. place # Idle /\ place.step = "ext" /\ place.n = 0
      BY <1>2, <1>8, <2>3, AfterParentIs
    <3>2. QED
      BY <1>7, <1>10, <2>1, <2>3, <3>1 DEF Fits, StageOf
  <2>4. CASE Shape[m].objects = 0 /\ Shape[m].extends = 0
    <3>1. place = Idle
      BY <1>2, <1>8, <2>4, AfterParentIs
    <3>2. QED
      BY <1>7, <1>10, <2>4, <3>1 DEF Fits, Filed
  <2>5. QED
    BY <2>1, <2>2, <2>3, <2>4
<1>12. QED
  BY <1>1, <1>2, <1>3, <1>4, <1>6, <1>7, <1>8, <1>9, <1>11, FileStep

LEMMA ObjectIInv ==
  ASSUME IInv, NEW w \in Worker, WriteObject(w) \/ ObjectFails(w) PROVE IInv'
<1>0. PICK m \in Message : m = Msg(w) /\ at[w].step = "child"
  BY HandlesMessage DEF WriteObject, ObjectFails, At
<1>1. /\ at[w].step = "child"
      /\ UNCHANGED <<stored, log, next, committed, origin, taken, up, connected, parent, ext, restarts>>
      /\ child' = child \/ child' = [child EXCEPT ![m] = at[w].n + 1]
  BY <1>0 DEF WriteObject, ObjectFails, At, serverVars, offsetVars, faultVars
<1>2. /\ at[w] # Idle /\ m \in Message /\ at[w].event = Said(m) /\ TypeOK
      /\ NoMore /\ MessageStage(w, m)
  BY <1>0, HandlesMessage DEF IInv
<1>3. faults \in Nat /\ faults' \in Nat
  BY <1>2 DEF WriteObject, ObjectFails, Fault, faultVars, TypeOK
<1>4. /\ failures \subseteq failures' /\ \A r \in failures' : r.event \in MessageEvent
      /\ Named(Said(m)) => Named(Said(m))'
      /\ WriteObject(w) \/ Lost(m, "objects")'
  <2>1. CASE WriteObject(w)
    BY <1>2, <2>1 DEF WriteObject, TypeOK, Named
  <2>2. CASE ObjectFails(w)
    BY <1>2, <2>2, NoteSound DEF ObjectFails, Named
  <2>3. QED
    BY <2>1, <2>2
<1>5. /\ parent' \in [Document -> ParentDoc] /\ ext' \in [Message -> Nat]
      /\ \A d \in Document : parent[d] # Absent => parent'[d] # Absent
      /\ Shape[m].extends = 0 => ext'[m] = 0
  BY <1>1, <1>2 DEF TypeOK, NoMore
<1>6. /\ at[w].n \in Nat /\ at[w].n < Shape[m].objects
      /\ Shape[m].objects \in Nat /\ Shape[m].extends \in Nat
      /\ Named(Said(m)) \/ parent[DocOf(m)] # Absent
  BY <1>1, <1>2, AtType, ShapeType DEF MessageStage, StageOf
<1>7. /\ child' \in [Message -> Nat]
      /\ \A k \in Message : k # m => child'[k] = child[k]
      /\ Shape[m].objects = 0 => child'[m] = 0
      /\ child' = [child EXCEPT ![m] = at[w].n + 1] => child'[m] = at[w].n + 1
  <2>1. child \in [Message -> Nat] /\ at[w].n + 1 \in Nat /\ Shape[m].objects # 0
    BY <1>2, <1>6 DEF TypeOK
  <2>2. CASE child' = [child EXCEPT ![m] = at[w].n + 1]
    BY <1>2, <2>1, <2>2
  <2>3. CASE child' = child
    BY <2>1, <2>3
  <2>4. QED
    BY <1>1, <2>2, <2>3
<1>8. Named(Said(m))' \/ parent'[DocOf(m)] # Absent
  BY <1>1, <1>4, <1>6
<1>9. CASE WriteObject(w) /\ at[w].n + 1 < Shape[m].objects
  <2>1. PICK place : place = Step(w, "child", at[w].n + 1)
    OBVIOUS
  <2>2. at' = [at EXCEPT ![w] = place] /\ child'[m] = at[w].n + 1
    BY <1>0, <1>7, <1>9, <2>1 DEF WriteObject, Goto
  <2>3. /\ place \in Place /\ place # Idle /\ place.event = at[w].event
        /\ place.step = "child" /\ place.n = at[w].n + 1
    <3>1. "child" \in Steps /\ at[w].n + 1 \in Nat
      BY <1>6 DEF Steps
    <3>2. QED
      BY <1>2, <2>1, <3>1, PlaceType
  <2>4. Fits(place, m)'
    BY <1>8, <1>9, <2>2, <2>3 DEF Fits, StageOf
  <2>5. QED
    BY <1>1, <1>2, <1>3, <1>4, <1>5, <1>7, <2>2, <2>3, <2>4, FileStep
<1>10. CASE (WriteObject(w) /\ ~(at[w].n + 1 < Shape[m].objects))
            \/ (ObjectFails(w) /\ Shape[m].tag = "bulk")
  <2>1. PICK place : place = AfterObjects(w)
    OBVIOUS
  <2>2. at' = [at EXCEPT ![w] = place]
    BY <1>0, <1>10, <2>1 DEF WriteObject, ObjectFails, Goto
  <2>3. /\ place \in Place /\ (place = Idle \/ (place # Idle /\ place.event = at[w].event))
        /\ IF Shape[m].extends > 0 THEN place # Idle /\ place.step = "ext" /\ place.n = 0
                                   ELSE place = Idle
    BY <1>2, <2>1, AfterObjectsIs
  <2>4. child'[m] = Shape[m].objects \/ Lost(m, "objects")'
    <3>1. CASE WriteObject(w) /\ ~(at[w].n + 1 < Shape[m].objects)
      <4>1. child'[m] = at[w].n + 1
        BY <1>0, <1>7, <3>1 DEF WriteObject
      <4>2. QED
        BY <1>6, <3>1, <4>1
    <3>2. CASE ObjectFails(w)
      BY <1>2, <3>2, NoteSound DEF ObjectFails
    <3>3. QED
      BY <1>10, <3>1, <3>2
  <2>5. Fits(place, m)'
    <3>1. CASE Shape[m].extends > 0
      BY <1>6, <1>8, <2>3, <2>4, <3>1 DEF Fits, StageOf
    <3>2. CASE Shape[m].extends = 0
      BY <1>5, <1>8, <2>3, <2>4, <3>2 DEF Fits, Filed
    <3>3. QED
      BY <1>6, <3>1, <3>2
  <2>6. QED
    BY <1>1, <1>2, <1>3, <1>4, <1>5, <1>7, <2>2, <2>3, <2>5, FileStep
<1>11. CASE ObjectFails(w) /\ Shape[m].tag # "bulk"
  <2>1. at' = [at EXCEPT ![w] = Idle]
    BY <1>0, <1>11 DEF ObjectFails, Goto
  <2>2. Lost(m, "objects")' /\ Shape[m].tag = "dict"
    <3>1. Shape[m].tag \in {"none", "bulk", "dict"} /\ (Shape[m].tag = "none" => Shape[m].objects = 0)
      BY <1>2, ShapeType, ShapeAssumption
    <3>2. Shape[m].objects # 0
      BY <1>6
    <3>3. Shape[m].tag = "dict"
      BY <1>11, <3>1, <3>2
    <3>4. QED
      BY <1>2, <1>11, <3>3, NoteSound DEF ObjectFails
  <2>3. Fits(Idle, m)'
    BY <1>8, <2>2 DEF Fits, Filed
  <2>4. QED
    BY <1>1, <1>2, <1>3, <1>4, <1>5, <1>7, <2>1, <2>3, Kinds, FileStep
<1>12. QED
  BY <1>9, <1>10, <1>11

LEMMA ExtendIInv ==
  ASSUME IInv, NEW w \in Worker, WriteExtend(w) \/ ExtendFails(w) PROVE IInv'
<1>0. PICK m \in Message : m = Msg(w) /\ at[w].step = "ext"
  BY HandlesMessage DEF WriteExtend, ExtendFails, At
<1>1. /\ at[w].step = "ext"
      /\ UNCHANGED <<stored, log, next, committed, origin, taken, up, connected, parent, child, restarts>>
      /\ ext' = ext \/ ext' = [ext EXCEPT ![m] = at[w].n + 1]
  BY <1>0 DEF WriteExtend, ExtendFails, At, serverVars, offsetVars, faultVars
<1>2. /\ at[w] # Idle /\ m \in Message /\ at[w].event = Said(m) /\ TypeOK
      /\ NoMore /\ MessageStage(w, m)
  BY <1>0, HandlesMessage DEF IInv
<1>3. faults \in Nat /\ faults' \in Nat
  BY <1>2 DEF WriteExtend, ExtendFails, Fault, faultVars, TypeOK
<1>4. /\ failures \subseteq failures' /\ \A r \in failures' : r.event \in MessageEvent
      /\ Named(Said(m)) => Named(Said(m))'
      /\ Lost(m, "objects") => Lost(m, "objects")'
      /\ \/ WriteExtend(w) \/ Named(Said(m))'
         \/ Shape[m].form = "dict" /\ Lost(m, "extendInfo")'
  <2>1. CASE WriteExtend(w)
    BY <1>2, <2>1 DEF WriteExtend, TypeOK, Named, Lost
  <2>2. CASE ExtendFails(w)
    <3>1. CASE Shape[m].form = "dict"
      <4>1. Note(w, "extendInfo")
        BY <1>0, <2>2, <3>1 DEF ExtendFails
      <4>2. QED
        BY <1>2, <3>1, <4>1, NoteSound DEF Named, Lost
    <3>2. CASE Shape[m].form # "dict"
      <4>1. Note(w, "item")
        BY <1>0, <2>2, <3>2 DEF ExtendFails
      <4>2. QED
        BY <1>2, <4>1, NoteSound DEF Named, Lost
    <3>3. QED
      BY <3>1, <3>2
  <2>3. QED
    BY <2>1, <2>2
<1>5. /\ parent' \in [Document -> ParentDoc] /\ child' \in [Message -> Nat]
      /\ \A d \in Document : parent[d] # Absent => parent'[d] # Absent
      /\ Shape[m].objects = 0 => child'[m] = 0
  BY <1>1, <1>2 DEF TypeOK, NoMore
<1>6. /\ at[w].n \in Nat /\ at[w].n < Shape[m].extends /\ Shape[m].extends \in Nat
      /\ \/ Named(Said(m))
         \/ /\ parent[DocOf(m)] # Absent
            /\ child[m] = Shape[m].objects \/ Lost(m, "objects")
  BY <1>1, <1>2, AtType, ShapeType DEF MessageStage, StageOf
<1>7. /\ ext' \in [Message -> Nat]
      /\ \A k \in Message : k # m => ext'[k] = ext[k]
      /\ Shape[m].extends = 0 => ext'[m] = 0
      /\ ext' = [ext EXCEPT ![m] = at[w].n + 1] => ext'[m] = at[w].n + 1
  <2>1. ext \in [Message -> Nat] /\ at[w].n + 1 \in Nat /\ Shape[m].extends # 0
    BY <1>2, <1>6 DEF TypeOK
  <2>2. CASE ext' = [ext EXCEPT ![m] = at[w].n + 1]
    BY <1>2, <2>1, <2>2
  <2>3. CASE ext' = ext
    BY <2>1, <2>3
  <2>4. QED
    BY <1>1, <2>2, <2>3
<1>8. \/ Named(Said(m))'
      \/ /\ parent'[DocOf(m)] # Absent
         /\ child'[m] = Shape[m].objects \/ Lost(m, "objects")'
  BY <1>1, <1>4, <1>6
<1>9. \/ Named(Said(m))' \/ ext'[m] = at[w].n + 1
      \/ Shape[m].form = "dict" /\ Lost(m, "extendInfo")'
  BY <1>0, <1>4, <1>7 DEF WriteExtend
<1>10. CASE at[w].n + 1 < Shape[m].extends
  <2>1. PICK place : place = Step(w, "ext", at[w].n + 1)
    OBVIOUS
  <2>2. at' = [at EXCEPT ![w] = place]
    BY <1>0, <1>10, <2>1 DEF WriteExtend, ExtendFails, Goto, AfterExtend
  <2>3. /\ place \in Place /\ place # Idle /\ place.event = at[w].event
        /\ place.step = "ext" /\ place.n = at[w].n + 1
    <3>1. "ext" \in Steps /\ at[w].n + 1 \in Nat
      BY <1>6 DEF Steps
    <3>2. QED
      BY <1>2, <2>1, <3>1, PlaceType
  <2>4. Fits(place, m)'
    <3>1. Shape[m].form # "dict"
      BY <1>2, <1>6, <1>10, ShapeAssumption
    <3>2. QED
      BY <1>8, <1>9, <1>10, <2>3, <3>1 DEF Fits, StageOf
  <2>5. QED
    BY <1>1, <1>2, <1>3, <1>4, <1>5, <1>7, <2>2, <2>3, <2>4, FileStep
<1>11. CASE ~(at[w].n + 1 < Shape[m].extends)
  <2>1. at' = [at EXCEPT ![w] = Idle]
    BY <1>0, <1>11 DEF WriteExtend, ExtendFails, Goto, AfterExtend
  <2>2. at[w].n + 1 = Shape[m].extends
    BY <1>6, <1>11
  <2>3. Fits(Idle, m)'
    BY <1>8, <1>9, <2>2 DEF Fits, Filed
  <2>4. QED
    BY <1>1, <1>2, <1>3, <1>4, <1>5, <1>7, <2>1, <2>3, Kinds, FileStep
<1>12. QED
  BY <1>10, <1>11

-----------------------------------------------------------------------------
\* The steps of a revoke leave every parent document in place.
LEMMA RevokeStep ==
  ASSUME IInv, NEW w \in Worker, NEW m \in Message, at[w].event = Revoked(m),
         NEW place \in Place, at' = [at EXCEPT ![w] = place],
         place = Idle \/ (place # Idle /\ place.event = at[w].event /\ place.step = "placeholder"),
         UNCHANGED <<stored, log, next, committed, origin, taken, up, connected, child, ext, restarts>>,
         faults' \in Nat, failures \subseteq failures', \A r \in failures' : r.event \in MessageEvent,
         NEW doc \in ParentDoc, doc # Absent,
         parent' = parent \/ parent' = [parent EXCEPT ![RevokeDocOf(m)] = doc]
  PROVE  IInv'
<1>1. at[w] # Idle /\ parent \in [Document -> ParentDoc] /\ RevokeDocOf(m) \in Document
  BY Kinds, ShapeType DEF IInv, TypeOK
<1>2. /\ parent' \in [Document -> ParentDoc]
      /\ \A d \in Document : parent[d] # Absent => parent'[d] # Absent
  <2>1. CASE parent' = parent
    BY <1>1, <2>1
  <2>2. CASE parent' = [parent EXCEPT ![RevokeDocOf(m)] = doc]
    BY <1>1, <2>2
  <2>3. QED
    BY <2>1, <2>2
<1>3. TypeOK'
  BY <1>1, <1>2, PlaceType DEF IInv, TypeOK
<1>4. at'[w] = place
  BY DEF IInv, TypeOK
<1>5. \A k \in Message : at[w].event # Said(k)
  BY Kinds
<1>6. Stage(w)'
  <2>1. CASE place = Idle
    BY <1>4, <2>1, Kinds DEF Stage
  <2>2. CASE place # Idle
    BY <1>4, <1>5, <2>2 DEF Stage
  <2>3. QED
    BY <2>1, <2>2
<1>7. NoMore'
  BY DEF IInv, NoMore
<1>8. QED
  BY <1>1, <1>2, <1>3, <1>5, <1>6, <1>7, HandleSound

LEMMA RevokeIInv ==
  ASSUME IInv, NEW w \in Worker,
         Mask(w) \/ PutPlaceholder(w) \/ PlaceholderRetry(w) \/ RevokeFails(w)
  PROVE  IInv'
<1>1. at[w].step \in {"exists", "mask", "placeholder"}
  BY DEF Mask, MaskWith, PutPlaceholder, PlaceholderRetry, RevokeFails, At
<1>2. at[w] # Idle /\ TypeOK
  BY <1>1, Kinds DEF IInv
<1>3. \A m \in Message : at[w].event # Said(m)
  BY <1>1 DEF IInv, Stage, MessageStage, StageOf
<1>4. PICK m \in Message : m = Msg(w) /\ at[w].event = Revoked(m)
  BY <1>2, <1>3, AtType
<1>5. faults \in Nat /\ (faults' = faults \/ faults' = faults + 1)
  BY <1>2 DEF TypeOK, Mask, MaskWith, PutPlaceholder, PlaceholderRetry, RevokeFails, Fault, faultVars
<1>6. faults' \in Nat
  BY <1>5
<1>7. UNCHANGED <<stored, log, next, committed, origin, taken, up, connected, child, ext, restarts>>
  BY DEF Mask, MaskWith, PutPlaceholder, PlaceholderRetry, RevokeFails,
         serverVars, offsetVars, faultVars
<1>8. failures \subseteq failures' /\ \A r \in failures' : r.event \in MessageEvent
  <2>1. CASE RevokeFails(w)
    BY <1>2, <2>1, NoteSound DEF RevokeFails
  <2>2. CASE ~RevokeFails(w)
    BY <1>2, <2>2 DEF TypeOK, Mask, MaskWith, PutPlaceholder, PlaceholderRetry
  <2>3. QED
    BY <2>1, <2>2
<1>9. PICK doc \in ParentDoc :
        /\ doc # Absent
        /\ parent' = parent \/ parent' = [parent EXCEPT ![RevokeDocOf(m)] = doc]
  <2>1. parent[RevokeDocOf(m)] \in ParentDoc
    BY <1>2, ShapeType DEF TypeOK
  <2>2. /\ Masked(parent[RevokeDocOf(m)]) \in ParentDoc /\ Placeholder \in ParentDoc
        /\ Masked(parent[RevokeDocOf(m)]) # Absent /\ Placeholder # Absent
    BY <2>1, Documents
  <2>3. \/ parent' = parent
        \/ parent' = [parent EXCEPT ![RevokeDocOf(m)] = Masked(parent[RevokeDocOf(m)])]
        \/ parent' = [parent EXCEPT ![RevokeDocOf(m)] = Placeholder]
    BY <1>4 DEF Mask, MaskWith, PutPlaceholder, PlaceholderRetry, RevokeFails
  <2>4. QED
    BY <2>2, <2>3
<1>10. CASE ~PlaceholderRetry(w)
  <2>1. at' = [at EXCEPT ![w] = Idle]
    BY <1>10 DEF Mask, MaskWith, PutPlaceholder, RevokeFails, Goto
  <2>2. PICK place \in Place : place = Idle
    BY Kinds
  <2>3. at' = [at EXCEPT ![w] = place]
    BY <2>1, <2>2
  <2>4. QED
    BY <1>4, <1>6, <1>7, <1>8, <1>9, <2>2, <2>3, RevokeStep
<1>11. CASE PlaceholderRetry(w)
  <2>1. PICK place : place = Step(w, "placeholder", 1)
    OBVIOUS
  <2>2. at' = [at EXCEPT ![w] = place]
    BY <1>11, <2>1 DEF PlaceholderRetry, Goto
  <2>3. place \in Place /\ place # Idle /\ place.event = at[w].event /\ place.step = "placeholder"
    <3>1. "placeholder" \in Steps /\ 1 \in Nat
      BY DEF Steps
    <3>2. QED
      BY <1>2, <2>1, <3>1, PlaceType
  <2>4. QED
    BY <1>4, <1>6, <1>7, <1>8, <1>9, <2>2, <2>3, RevokeStep
<1>12. QED
  BY <1>10, <1>11

-----------------------------------------------------------------------------
\* A step that leaves the events, the offsets and the documents alone and at
\* most ends processes.
LEMMA FrameStep ==
  ASSUME IInv, TypeOK',
         UNCHANGED <<log, next, committed, origin, taken, at, parent, child, ext, failures>>,
         \A u \in Worker : up'[u] => up[u]
  PROVE  IInv'
<1>1. Offsets' /\ Where' /\ Once' /\ NoMore'
  BY DEF IInv, Offsets, Where, Once, NoMore
<1>2. PoisonEnds'
  BY PartitionAssumption DEF IInv, PoisonEnds
<1>3. \A m \in Message : (Consumed(m)' => Consumed(m)) /\ (Handling(m) => Handling(m)')
                        /\ (Filed(m) => Filed(m)')
  BY DEF Consumed, Handling, Filed, Named, Failed, Lost
<1>4. Behind'
  BY <1>3 DEF IInv, Behind
<1>5. \A w \in Worker : Stage(w)'
  BY DEF IInv, Stage, MessageStage, StageOf, Named, Failed, Lost
<1>6. QED
  BY <1>1, <1>2, <1>4, <1>5 DEF IInv

LEMMA FrameIInv ==
  ASSUME IInv,
         \/ \E m \in Message : Store(m)
         \/ \E w \in Worker : ConnectRaises(w) \/ Drop(w)
         \/ UNCHANGED vars
  PROVE  IInv'
<1>1. TypeOK
  BY DEF IInv
<1>2. CASE \E m \in Message : Store(m)
  <2>1. PICK m \in Message : Store(m)
    BY <1>2
  <2>2. /\ UNCHANGED <<log, next, committed, origin, taken, at, parent, child, ext, failures, up, connected, faults, restarts>>
        /\ stored' \subseteq Message
    BY <1>1, <2>1 DEF Store, TypeOK, offsetVars, processVars, indexVars, faultVars
  <2>3. TypeOK'
    BY <1>1, <2>2 DEF TypeOK
  <2>4. QED
    BY <2>2, <2>3, FrameStep
<1>3. CASE \E w \in Worker : ConnectRaises(w) \/ Drop(w)
  <2>1. PICK w \in Worker : ConnectRaises(w) \/ Drop(w)
    BY <1>3
  <2>2. /\ UNCHANGED <<stored, log, next, committed, origin, taken, at, parent, child, ext, failures, restarts>>
        /\ faults' = faults + 1
        /\ up' = up \/ up' = [up EXCEPT ![w] = FALSE]
        /\ connected' = connected \/ connected' = [connected EXCEPT ![w] = FALSE]
    BY <2>1 DEF ConnectRaises, Drop, Fault, serverVars, offsetVars, indexVars
  <2>3. up \in [Worker -> BOOLEAN] /\ connected \in [Worker -> BOOLEAN]
    BY <1>1 DEF TypeOK
  <2>4. up' \in [Worker -> BOOLEAN] /\ \A u \in Worker : up'[u] => up[u]
    <3>1. CASE up' = up
      BY <2>3, <3>1
    <3>2. CASE up' = [up EXCEPT ![w] = FALSE]
      BY <2>3, <3>2
    <3>3. QED
      BY <2>2, <3>1, <3>2
  <2>5. connected' \in [Worker -> BOOLEAN]
    BY <2>2, <2>3
  <2>6. TypeOK'
    BY <1>1, <2>2, <2>4, <2>5 DEF TypeOK
  <2>7. QED
    BY <2>2, <2>4, <2>6, FrameStep
<1>4. CASE UNCHANGED vars
  <2>1. UNCHANGED <<stored, log, next, committed, origin, taken, up, connected, at, parent, child, ext,
                    failures, faults, restarts>>
    BY <1>4 DEF vars, serverVars, offsetVars, processVars, indexVars, faultVars
  <2>2. TypeOK'
    BY <1>1, <2>1 DEF TypeOK
  <2>3. QED
    BY <2>1, <2>2, FrameStep
<1>5. QED
  BY <1>2, <1>3, <1>4
-----------------------------------------------------------------------------
LEMMA LogType ==
  ASSUME TypeOK, NEW p \in Partition, NEW i \in 1..Len(log[p])
  PROVE  log[p][i] \in Event /\ Len(log[p]) \in Nat
BY DEF TypeOK

\* The chat server appends an event that is not a second one of a message.
LEMMA SendIInv ==
  ASSUME IInv, NEW p \in Partition, NEW e \in Event, Send(p, e),
         \A m \in Message : e = Said(m) => p = ChatPart[m] /\ ~Has(p, e)
  PROVE  IInv'
<1>1. /\ UNCHANGED <<stored, next, committed, origin, taken, up, connected, at, parent, child, ext,
                     failures, faults, restarts>>
      /\ log' = [log EXCEPT ![p] = Append(@, e)]
  BY DEF Send, offsetVars, processVars, indexVars, faultVars
<1>2. log \in [Partition -> Seq(Event)] /\ TypeOK
  BY DEF IInv, TypeOK
<1>3. log' \in [Partition -> Seq(Event)]
  <2>1. Append(log[p], e) \in Seq(Event)
    BY <1>2
  <2>2. QED
    BY <1>1, <1>2, <2>1
<1>4. TypeOK'
  BY <1>1, <1>2, <1>3 DEF TypeOK
<1>5. /\ Len(log'[p]) = Len(log[p]) + 1 /\ Len(log[p]) \in Nat
      /\ log'[p][Len(log[p]) + 1] = e
      /\ \A i \in 1..Len(log[p]) : log'[p][i] = log[p][i]
      /\ \A q \in Partition : q # p => log'[q] = log[q]
  <2>1. log[p] \in Seq(Event) /\ log'[p] = Append(log[p], e)
    BY <1>1, <1>2
  <2>2. QED
    BY <1>1, <1>2, <2>1
<1>6. \A q \in Partition : /\ Len(log'[q]) \in Nat /\ Len(log[q]) <= Len(log'[q])
                           /\ \A i \in 1..next[q] : log'[q][i] = log[q][i]
  <2>1. SUFFICES ASSUME NEW q \in Partition
                 PROVE  /\ Len(log'[q]) \in Nat /\ Len(log[q]) <= Len(log'[q])
                        /\ \A i \in 1..next[q] : log'[q][i] = log[q][i]
    OBVIOUS
  <2>2. next[q] \in Nat /\ Len(log[q]) \in Nat /\ next[q] <= Len(log[q])
    BY OffsetFacts
  <2>3. CASE q = p
    BY <1>5, <2>2, <2>3
  <2>4. CASE q # p
    BY <1>5, <2>2, <2>4
  <2>5. QED
    BY <2>3, <2>4
<1>7. Offsets'
  <2>1. SUFFICES ASSUME NEW q \in Partition
                 PROVE  /\ committed[q] <= next[q] /\ next[q] <= Len(log'[q])
                        /\ origin[q] <= next[q] /\ taken[q] <= Len(log'[q])
                        /\ committed[q] = NoOffset \/ origin[q] <= committed[q]
    BY <1>1 DEF Offsets
  <2>2. PICK len, len1 \in Nat : len = Len(log[q]) /\ len1 = Len(log'[q]) /\ len <= len1
    BY <1>6, OffsetFacts
  <2>3. QED
    BY <2>2, OffsetFacts DEF NoOffset
<1>8. Where'
  <2>1. SUFFICES ASSUME NEW w \in Worker, at[w] # Idle
                 PROVE  \E q \in Partition : /\ Owner[q] = w /\ committed[q] < next[q]
                                             /\ origin[q] < next[q] /\ next[q] <= taken[q]
                                             /\ log'[q][next[q]] = at[w].event
    BY <1>1 DEF Where
  <2>2. PICK q \in Partition : /\ Owner[q] = w /\ committed[q] < next[q]
                               /\ origin[q] < next[q] /\ next[q] <= taken[q]
                               /\ log[q][next[q]] = at[w].event
    BY <2>1 DEF IInv, Where
  <2>3. next[q] \in 1..next[q]
    BY <2>2, OffsetFacts
  <2>4. log'[q][next[q]] = log[q][next[q]]
    BY <1>6, <2>3
  <2>5. QED
    BY <2>2, <2>4
<1>9. Once'
  <2>1. SUFFICES ASSUME NEW m \in Message, NEW q \in Partition,
                        NEW i \in 1..Len(log'[q]), log'[q][i] = Said(m)
                 PROVE  /\ q = ChatPart[m]
                        /\ \A j \in 1..Len(log'[q]) : log'[q][j] = Said(m) => i = j
    BY DEF Once
  <2>2. CASE q # p
    BY <1>5, <2>1, <2>2 DEF IInv, Once
  <2>3. CASE q = p /\ e # Said(m)
    <3>1. \A j \in 1..Len(log'[p]) :
            log'[p][j] = Said(m) => j \in 1..Len(log[p]) /\ log[p][j] = Said(m)
      BY <1>5, <2>3
    <3>2. QED
      BY <2>1, <2>3, <3>1 DEF IInv, Once
  <2>4. CASE q = p /\ e = Said(m)
    <3>1. p = ChatPart[m] /\ ~Has(p, e)
      BY <2>4
    <3>2. \A j \in 1..Len(log[p]) : log[p][j] # e
      <4>1. DOMAIN log[p] = 1..Len(log[p])
        BY <1>2
      <4>2. QED
        BY <3>1, <4>1 DEF Has
    <3>3. \A j \in 1..Len(log'[q]) : log'[q][j] = Said(m) => j = Len(log[p]) + 1
      BY <1>5, <2>4, <3>2
    <3>4. QED
      BY <2>1, <2>4, <3>1, <3>3
  <2>5. QED
    BY <2>2, <2>3, <2>4
<1>10. PoisonEnds'
  <2>1. SUFFICES ASSUME NEW q \in Partition, NEW i \in (origin[q] + 1)..next[q], log'[q][i].kind = "poison"
                 PROVE  i = next[q] /\ committed[q] < i /\ ~up[Owner[q]]
    BY <1>1 DEF PoisonEnds
  <2>2. log[q][i].kind = "poison"
    BY <1>6, <2>1, OffsetFacts
  <2>3. QED
    BY <2>2 DEF IInv, PoisonEnds
<1>11. \A m \in Message : (Consumed(m)' => Consumed(m)) /\ (Handling(m) => Handling(m)')
                         /\ (Filed(m) => Filed(m)')
  <2>1. ASSUME NEW m \in Message, Consumed(m)' PROVE Consumed(m)
    <3>1. PICK q \in Partition : q = ChatPart[m]
      BY ShapeType
    <3>2. PICK i \in (origin[q] + 1)..next[q] : log'[q][i] = Said(m)
      BY <1>1, <2>1, <3>1 DEF Consumed
    <3>3. i \in 1..next[q]
      BY <3>2, OffsetFacts
    <3>4. QED
      BY <1>6, <3>1, <3>2, <3>3 DEF Consumed
  <2>2. QED
    BY <1>1, <2>1 DEF Handling, Filed, Named, Failed, Lost
<1>12. Behind'
  BY <1>11 DEF IInv, Behind
<1>13. (\A w \in Worker : Stage(w)') /\ NoMore'
  BY <1>1 DEF IInv, Stage, MessageStage, StageOf, Named, Failed, Lost, NoMore
<1>14. QED
  BY <1>4, <1>7, <1>8, <1>9, <1>10, <1>12, <1>13 DEF IInv

LEMMA ServerIInv ==
  ASSUME IInv, Server PROVE IInv'
<1>1. CASE \E m \in Message : Store(m)
  BY <1>1, FrameIInv
<1>2. CASE \E m \in Message : Say(m)
  <2>1. PICK m \in Message : Say(m)
    BY <1>2
  <2>2. /\ ChatPart[m] \in Partition /\ Said(m) \in Event
        /\ ~Has(ChatPart[m], Said(m)) /\ Send(ChatPart[m], Said(m))
    BY <2>1, ShapeType, Kinds DEF Say, Event
  <2>3. \A k \in Message : Said(m) = Said(k) => k = m
    <3>1. \A k \in Message : Said(k).msg = k
      BY Kinds
    <3>2. QED
      BY <3>1
  <2>4. QED
    BY <2>2, <2>3, SendIInv
<1>3. CASE \E m \in Message : Revoke(m)
  <2>1. PICK m \in Message : Revoke(m)
    BY <1>3
  <2>2. RevokePart[m] \in Partition /\ Revoked(m) \in Event /\ Send(RevokePart[m], Revoked(m))
    BY <2>1, ShapeType, Kinds DEF Revoke, Event
  <2>3. \A k \in Message : Revoked(m) # Said(k)
    BY Kinds
  <2>4. QED
    BY <2>2, <2>3, SendIInv
<1>4. CASE \E p \in Partition, e \in StrayEvent : SendStray(p, e)
  <2>1. PICK p \in Partition, e \in StrayEvent : SendStray(p, e)
    BY <1>4
  <2>2. e \in Event /\ Send(p, e) /\ \A k \in Message : e # Said(k)
    BY <2>1, Kinds DEF SendStray, Event
  <2>3. QED
    BY <2>2, SendIInv
<1>5. QED
  BY <1>1, <1>2, <1>3, <1>4 DEF Server
-----------------------------------------------------------------------------
\* An idle worker takes one event: it handles it, passes over it or ends.
LEMMA TakeSound ==
  ASSUME IInv, NEW w \in Worker, NEW p \in Partition, Take(w, p),
         NEW e, e = log[p][next[p] + 1],
         NEW place \in Place, at' = [at EXCEPT ![w] = place],
         UNCHANGED <<stored, log, committed, origin, connected, parent, child, ext, failures, faults, restarts>>,
         up' \in [Worker -> BOOLEAN], \A u \in Worker : up'[u] => up[u],
         e.kind = "poison" => ~up'[w],
         place = Idle => \A m \in Message : e # Said(m),
         place # Idle => place.event = e /\ place.step = "lookup"
  PROVE  IInv'
<1>1. /\ at[w] = Idle /\ up[w] /\ Owner[p] = w /\ next[p] < Len(log[p])
      /\ next' = [next EXCEPT ![p] = @ + 1] /\ TypeOK
  BY DEF Take, Ready, IInv
<1>2. \A q \in Partition : /\ next[q] \in Nat /\ origin[q] \in Nat /\ taken[q] \in Nat /\ Len(log[q]) \in Nat
                           /\ committed[q] = -1 \/ (committed[q] \in Nat /\ origin[q] <= committed[q])
                           /\ committed[q] <= next[q] /\ next[q] <= Len(log[q])
                           /\ origin[q] <= next[q] /\ taken[q] <= Len(log[q])
  BY OffsetFacts
<1>3. /\ next'[p] = next[p] + 1 /\ taken'[p] = IF taken[p] <= next[p] THEN next[p] + 1 ELSE taken[p]
      /\ \A q \in Partition : q # p => next'[q] = next[q] /\ taken'[q] = taken[q]
  BY <1>1 DEF TypeOK, Take
<1>4. at'[w] = place /\ \A u \in Worker : u # w => at'[u] = at[u]
  BY <1>1 DEF TypeOK
<1>5. TypeOK'
  <2>1. next' \in [Partition -> Nat] /\ taken' \in [Partition -> Nat] /\ at' \in [Worker -> Place]
    BY <1>1, <1>2 DEF TypeOK, Take
  <2>2. QED
    BY <1>1, <2>1 DEF TypeOK
<1>6. Offsets'
  <2>1. SUFFICES ASSUME NEW q \in Partition
                 PROVE  /\ committed[q] <= next'[q] /\ next'[q] <= Len(log[q])
                        /\ origin[q] <= next'[q] /\ taken'[q] <= Len(log[q])
                        /\ committed[q] = NoOffset \/ origin[q] <= committed[q]
    BY DEF Offsets
  <2>2. CASE q = p
    <3>1. PICK len, n, n1, t1 \in Nat : /\ len = Len(log[p]) /\ n = next[p] /\ n1 = next'[p] /\ t1 = taken'[p]
                                       /\ n < len /\ n1 = n + 1 /\ (t1 = n + 1 \/ t1 = taken[p])
      BY <1>1, <1>2, <1>3
    <3>2. QED
      BY <1>2, <2>2, <3>1 DEF NoOffset
  <2>3. CASE q # p
    BY <1>2, <1>3, <2>3 DEF NoOffset
  <2>4. QED
    BY <2>2, <2>3
<1>7. Where'
  <2>1. SUFFICES ASSUME NEW u \in Worker, at'[u] # Idle
                 PROVE  \E q \in Partition : /\ Owner[q] = u /\ committed[q] < next'[q]
                                             /\ origin[q] < next'[q] /\ next'[q] <= taken'[q]
                                             /\ log[q][next'[q]] = at'[u].event
    BY DEF Where
  <2>2. CASE u = w
    <3>1. /\ committed[p] < next'[p] /\ log[p][next'[p]] = e
          /\ origin[p] < next'[p] /\ next'[p] <= taken'[p]
      BY <1>2, <1>3
    <3>2. QED
      BY <1>1, <1>4, <2>1, <2>2, <3>1
  <2>3. CASE u # w
    <3>1. PICK q \in Partition : /\ Owner[q] = u /\ committed[q] < next[q]
                                 /\ origin[q] < next[q] /\ next[q] <= taken[q]
                                 /\ log[q][next[q]] = at[u].event
      BY <1>4, <2>1, <2>3 DEF IInv, Where
    <3>2. q # p
      BY <1>1, <2>3, <3>1
    <3>3. QED
      BY <1>3, <1>4, <2>3, <3>1, <3>2
  <2>4. QED
    BY <2>2, <2>3
<1>8. Once' /\ NoMore'
  BY DEF IInv, Once, NoMore
<1>9. PoisonEnds'
  <2>1. SUFFICES ASSUME NEW q \in Partition, NEW i \in (origin[q] + 1)..next'[q], log[q][i].kind = "poison"
                 PROVE  i = next'[q] /\ committed[q] < i /\ ~up'[Owner[q]]
    BY DEF PoisonEnds
  <2>2. CASE q # p
    <3>1. i = next[q] /\ committed[q] < i /\ ~up[Owner[q]] /\ Owner[q] \in Worker
      BY <1>3, <2>1, <2>2, PartitionAssumption DEF IInv, PoisonEnds
    <3>2. QED
      BY <1>3, <2>2, <3>1
  <2>3. CASE q = p
    <3>1. ~(i \in (origin[p] + 1)..next[p])
      BY <1>1, <2>1, <2>3 DEF IInv, PoisonEnds
    <3>2. i = next[p] + 1
      BY <1>2, <1>3, <2>1, <2>3, <3>1
    <3>3. QED
      BY <1>1, <1>2, <1>3, <2>1, <2>3, <3>2
  <2>4. QED
    BY <2>2, <2>3
<1>10. Behind'
  <2>1. SUFFICES ASSUME NEW m \in Message, Shape[m].body # "long", Consumed(m)', ~Handling(m)'
                 PROVE  Filed(m)'
    BY DEF Behind
  <2>2. Owner[ChatPart[m]] \in Worker /\ ChatPart[m] \in Partition
    BY ShapeType, PartitionAssumption
  <2>3. ~Handling(m)
    <3>1. CASE Owner[ChatPart[m]] = w
      BY <1>1, <3>1, Kinds DEF Handling
    <3>2. CASE Owner[ChatPart[m]] # w
      BY <1>4, <2>1, <2>2, <3>2 DEF Handling
    <3>3. QED
      BY <3>1, <3>2
  <2>4. Consumed(m)
    <3>1. PICK i \in (origin[ChatPart[m]] + 1)..next'[ChatPart[m]] : log[ChatPart[m]][i] = Said(m)
      BY <2>1 DEF Consumed
    <3>2. CASE ChatPart[m] # p
      BY <1>3, <2>2, <3>1, <3>2 DEF Consumed
    <3>3. CASE ChatPart[m] = p /\ i \in (origin[p] + 1)..next[p]
      BY <3>1, <3>3 DEF Consumed
    <3>4. CASE ChatPart[m] = p /\ ~(i \in (origin[p] + 1)..next[p])
      <4>1. i = next[p] + 1
        BY <1>2, <1>3, <3>1, <3>4
      <4>2. e = Said(m)
        BY <3>1, <3>4, <4>1
      <4>3. place.event = Said(m)
        BY <4>2
      <4>4. QED
        BY <1>1, <1>4, <2>1, <3>4, <4>3 DEF Handling
    <3>5. QED
      BY <3>2, <3>3, <3>4
  <2>5. QED
    BY <2>1, <2>3, <2>4 DEF IInv, Behind, Filed, Named, Failed, Lost
<1>11. \A u \in Worker : Stage(u)'
  <2>1. SUFFICES ASSUME NEW u \in Worker PROVE Stage(u)'
    OBVIOUS
  <2>2. CASE u # w
    <3>1. \A m \in Message : Named(Said(m))' <=> Named(Said(m))
      BY DEF Named
    <3>2. QED
      BY <1>4, <2>2, <3>1 DEF IInv, Stage, MessageStage, StageOf, Lost
  <2>3. CASE u = w /\ place = Idle
    BY <1>4, <2>3, Kinds DEF Stage
  <2>4. CASE u = w /\ place # Idle
    BY <1>4, <2>4 DEF Stage, MessageStage, StageOf
  <2>5. QED
    BY <2>2, <2>3, <2>4
<1>12. QED
  BY <1>5, <1>6, <1>7, <1>8, <1>9, <1>10, <1>11 DEF IInv

LEMMA TakeIInv ==
  ASSUME IInv, NEW w \in Worker, NEW p \in Partition,
         TakeMessage(w, p) \/ TakeSkipped(w, p) \/ TakePoison(w, p)
  PROVE  IInv'
<1>1. /\ Take(w, p) /\ at[w] = Idle /\ next[p] < Len(log[p])
      /\ next[p] \in Nat /\ Len(log[p]) \in Nat
      /\ up \in [Worker -> BOOLEAN] /\ at \in [Worker -> Place] /\ TypeOK
  BY DEF TakeMessage, TakeSkipped, TakePoison, Take, Ready, IInv, TypeOK
<1>2. PICK e : e = log[p][next[p] + 1]
  OBVIOUS
<1>3. e \in Event
  <2>1. next[p] + 1 \in 1..Len(log[p])
    BY <1>1
  <2>2. QED
    BY <1>1, <1>2, <2>1, LogType
<1>4. UNCHANGED <<stored, log, committed, origin, connected, parent, child, ext, failures, faults, restarts>>
  BY DEF Take, TakeMessage, TakeSkipped, TakePoison, serverVars, processVars, indexVars, faultVars
<1>5. CASE TakeMessage(w, p)
  <2>1. e.kind \in {"message", "revoke"} /\ up' = up
        /\ at' = [at EXCEPT ![w] = [step |-> "lookup", event |-> e, n |-> 0]]
    BY <1>2, <1>5 DEF TakeMessage
  <2>2. e \in MessageEvent
    BY <1>3, <2>1, Kinds DEF Event
  <2>3. PICK place : place = [step |-> "lookup", event |-> e, n |-> 0]
    OBVIOUS
  <2>4. place \in Place /\ place.event = e /\ place.step = "lookup"
    BY <2>2, <2>3 DEF Place, Steps
  <2>5. place # Idle
    BY <2>4, Kinds
  <2>6. QED
    BY <1>1, <1>2, <1>4, <2>1, <2>3, <2>4, <2>5, TakeSound
<1>6. CASE TakeSkipped(w, p) \/ TakePoison(w, p)
  <2>1. /\ e.kind \in {"skipped", "poison"} /\ at' = at
        /\ up' = up \/ up' = [up EXCEPT ![w] = FALSE]
        /\ e.kind = "poison" => up' = [up EXCEPT ![w] = FALSE]
    BY <1>2, <1>6 DEF TakeSkipped, TakePoison, processVars
  <2>2. /\ up' \in [Worker -> BOOLEAN] /\ \A u \in Worker : up'[u] => up[u]
        /\ e.kind = "poison" => ~up'[w]
    <3>1. CASE up' = up /\ e.kind # "poison"
      BY <1>1, <3>1
    <3>2. CASE up' = [up EXCEPT ![w] = FALSE]
      BY <1>1, <3>2
    <3>3. QED
      BY <2>1, <3>1, <3>2
  <2>3. PICK place \in Place : place = Idle
    BY Kinds
  <2>4. at' = [at EXCEPT ![w] = place]
    BY <1>1, <2>1, <2>3
  <2>5. \A m \in Message : e # Said(m)
    BY <2>1, Kinds
  <2>6. place # Idle => place.event = e /\ place.step = "lookup"
    BY <2>3
  <2>7. Take(w, p)
    BY <1>1
  <2>8. QED
    BY <1>2, <1>4, <2>2, <2>3, <2>4, <2>5, <2>6, <2>7, TakeSound
<1>7. QED
  BY <1>5, <1>6
\* Offsets are committed between events only.
LEMMA CommitIInv ==
  ASSUME IInv, NEW w \in Worker, NEW p \in Partition, Commit(w, p) PROVE IInv'
<1>1. /\ at[w] = Idle /\ up[w] /\ Owner[p] = w /\ TypeOK
      /\ committed' = [committed EXCEPT ![p] = next[p]]
      /\ UNCHANGED <<stored, log, next, origin, taken, up, connected, at, parent, child, ext, failures, faults, restarts>>
  BY DEF Commit, Ready, serverVars, processVars, indexVars, faultVars, IInv
<1>2. \A q \in Partition : /\ next[q] \in Nat /\ origin[q] \in Nat /\ taken[q] \in Nat /\ Len(log[q]) \in Nat
                           /\ committed[q] = -1 \/ (committed[q] \in Nat /\ origin[q] <= committed[q])
                           /\ committed[q] <= next[q] /\ next[q] <= Len(log[q])
                           /\ origin[q] <= next[q] /\ taken[q] <= Len(log[q])
  BY OffsetFacts
<1>3. committed'[p] = next[p] /\ \A q \in Partition : q # p => committed'[q] = committed[q]
  BY <1>1 DEF TypeOK
<1>4. TypeOK'
  <2>1. committed' \in [Partition -> Nat \cup {NoOffset}]
    BY <1>1, <1>2 DEF TypeOK
  <2>2. QED
    BY <1>1, <2>1 DEF TypeOK
<1>5. Offsets'
  <2>1. SUFFICES ASSUME NEW q \in Partition
                 PROVE  /\ committed'[q] <= next[q] /\ next[q] <= Len(log[q])
                        /\ origin[q] <= next[q] /\ taken[q] <= Len(log[q])
                        /\ committed'[q] = NoOffset \/ origin[q] <= committed'[q]
    BY <1>1 DEF Offsets
  <2>2. CASE q = p
    BY <1>2, <1>3, <2>2
  <2>3. CASE q # p
    BY <1>2, <1>3, <2>3 DEF NoOffset
  <2>4. QED
    BY <2>2, <2>3
<1>6. Where'
  <2>1. SUFFICES ASSUME NEW u \in Worker, at[u] # Idle
                 PROVE  \E q \in Partition : /\ Owner[q] = u /\ committed'[q] < next[q]
                                             /\ origin[q] < next[q] /\ next[q] <= taken[q]
                                             /\ log[q][next[q]] = at[u].event
    BY <1>1 DEF Where
  <2>2. PICK q \in Partition : /\ Owner[q] = u /\ committed[q] < next[q]
                               /\ origin[q] < next[q] /\ next[q] <= taken[q]
                               /\ log[q][next[q]] = at[u].event
    BY <2>1 DEF IInv, Where
  <2>3. q # p
    BY <1>1, <2>1, <2>2
  <2>4. QED
    BY <1>3, <2>2, <2>3
<1>7. PoisonEnds'
  <2>1. SUFFICES ASSUME NEW q \in Partition, NEW i \in (origin[q] + 1)..next[q], log[q][i].kind = "poison"
                 PROVE  i = next[q] /\ committed'[q] < i /\ ~up[Owner[q]]
    BY <1>1 DEF PoisonEnds
  <2>2. i = next[q] /\ committed[q] < i /\ ~up[Owner[q]]
    BY <2>1 DEF IInv, PoisonEnds
  <2>3. QED
    BY <1>1, <1>3, <2>2
<1>8. Once' /\ NoMore'
  BY <1>1 DEF IInv, Once, NoMore
<1>9. Behind'
  <2>1. \A m \in Message : (Consumed(m)' <=> Consumed(m)) /\ (Handling(m)' <=> Handling(m))
    BY <1>1 DEF Consumed, Handling
  <2>2. \A m \in Message : Filed(m)' <=> Filed(m)
    BY <1>1 DEF Filed, Named, Lost
  <2>3. QED
    BY <2>1, <2>2 DEF IInv, Behind
<1>10. \A u \in Worker : Stage(u)'
  BY <1>1 DEF IInv, Stage, MessageStage, StageOf, Named, Failed, Lost
<1>11. QED
  BY <1>4, <1>5, <1>6, <1>7, <1>8, <1>9, <1>10 DEF IInv

\* What is committed is not being handled.
LEMMA CommittedIsPast ==
  ASSUME IInv, NEW m \in Message, NEW i \in (origin[ChatPart[m]] + 1)..committed[ChatPart[m]],
         log[ChatPart[m]][i] = Said(m)
  PROVE  ~Handling(m) /\ Consumed(m)
<1>1. ChatPart[m] \in Partition /\ Owner[ChatPart[m]] \in Worker
  BY ShapeType, PartitionAssumption
<1>2. /\ next[ChatPart[m]] \in Nat /\ committed[ChatPart[m]] \in Nat /\ Len(log[ChatPart[m]]) \in Nat
      /\ origin[ChatPart[m]] \in Nat
      /\ committed[ChatPart[m]] <= next[ChatPart[m]] /\ next[ChatPart[m]] <= Len(log[ChatPart[m]])
  <2>1. /\ next[ChatPart[m]] \in Nat /\ origin[ChatPart[m]] \in Nat /\ Len(log[ChatPart[m]]) \in Nat
        /\ committed[ChatPart[m]] = -1 \/ committed[ChatPart[m]] \in Nat
        /\ committed[ChatPart[m]] <= next[ChatPart[m]] /\ next[ChatPart[m]] <= Len(log[ChatPart[m]])
    BY <1>1, OffsetFacts
  <2>2. committed[ChatPart[m]] # -1
    BY <2>1
  <2>3. QED
    BY <2>1, <2>2
<1>3. Consumed(m)
  BY <1>2 DEF Consumed
<1>4. ASSUME Handling(m) PROVE FALSE
  <2>1. /\ committed[ChatPart[m]] < next[ChatPart[m]]
        /\ log[ChatPart[m]][next[ChatPart[m]]] = Said(m)
        /\ next[ChatPart[m]] \in 1..Len(log[ChatPart[m]])
    BY <1>1, <1>4, OneHandler DEF Handling
  <2>2. i \in 1..Len(log[ChatPart[m]])
    BY <1>2
  <2>3. i = next[ChatPart[m]]
    BY <1>1, <2>1, <2>2 DEF IInv, Once
  <2>4. QED
    BY <1>2, <2>1, <2>3
<1>5. QED
  BY <1>3, <1>4

\* A new process begins after what is committed; what it handles again had not
\* been.
LEMMA RestartIInv ==
  ASSUME IInv, NEW w \in Worker, Restart(w) PROVE IInv'
<1>1. /\ up' = [up EXCEPT ![w] = TRUE] /\ connected' = [connected EXCEPT ![w] = TRUE]
      /\ at' = [at EXCEPT ![w] = Idle] /\ restarts' = restarts + 1
      /\ UNCHANGED <<stored, log, committed, taken, parent, child, ext, failures, faults>> /\ TypeOK
  BY DEF Restart, RestartAt, serverVars, indexVars, IInv
<1>1a. /\ next' = [p \in Partition |-> IF Owner[p] = w THEN ResumeAt(p) ELSE next[p]]
       /\ origin' = [p \in Partition |-> IF Owner[p] = w /\ committed[p] = NoOffset
                                         THEN Len(log[p]) ELSE origin[p]]
  BY DEF Restart, RestartAt
<1>2. \A q \in Partition : /\ next[q] \in Nat /\ origin[q] \in Nat /\ taken[q] \in Nat /\ Len(log[q]) \in Nat
                           /\ committed[q] = -1 \/ (committed[q] \in Nat /\ origin[q] <= committed[q])
                           /\ committed[q] <= next[q] /\ next[q] <= Len(log[q])
                           /\ origin[q] <= next[q] /\ taken[q] <= Len(log[q])
  BY OffsetFacts
<1>3. at'[w] = Idle /\ \A u \in Worker : u # w => at'[u] = at[u]
  BY <1>1 DEF TypeOK
<1>3a. \A q \in Partition :
         \/ Owner[q] # w /\ next'[q] = next[q] /\ origin'[q] = origin[q]
         \/ /\ Owner[q] = w /\ committed[q] = -1
            /\ next'[q] = Len(log[q]) /\ origin'[q] = Len(log[q])
         \/ /\ Owner[q] = w /\ committed[q] \in Nat
            /\ next'[q] = committed[q] /\ origin'[q] = origin[q]
  BY <1>1a, <1>2 DEF ResumeAt, NoOffset
<1>3b. \A u \in Worker : u # w /\ ~up[u] => ~up'[u]
  BY <1>1 DEF TypeOK
<1>4. TypeOK'
  <2>1. next' \in [Partition -> Nat] /\ origin' \in [Partition -> Nat]
    BY <1>1a, <1>2, <1>3a
  <2>2. at' \in [Worker -> Place]
    BY <1>1, Kinds DEF TypeOK
  <2>3. up' \in [Worker -> BOOLEAN] /\ connected' \in [Worker -> BOOLEAN] /\ restarts' \in Nat
    BY <1>1 DEF TypeOK
  <2>4. QED
    BY <1>1, <2>1, <2>2, <2>3 DEF TypeOK
<1>5. Offsets'
  <2>1. SUFFICES ASSUME NEW q \in Partition
                 PROVE  /\ committed[q] <= next'[q] /\ next'[q] <= Len(log[q])
                        /\ origin'[q] <= next'[q] /\ taken[q] <= Len(log[q])
                        /\ committed[q] = NoOffset \/ origin'[q] <= committed[q]
    BY <1>1 DEF Offsets
  <2>2. PICK len \in Nat : len = Len(log[q])
    BY <1>2
  <2>3. QED
    BY <1>2, <1>3a, <2>2 DEF NoOffset
<1>6. Where'
  <2>1. SUFFICES ASSUME NEW u \in Worker, at'[u] # Idle
                 PROVE  \E q \in Partition : /\ Owner[q] = u /\ committed[q] < next'[q]
                                             /\ origin'[q] < next'[q] /\ next'[q] <= taken[q]
                                             /\ log[q][next'[q]] = at'[u].event
    BY <1>1 DEF Where
  <2>2. u # w /\ at'[u] = at[u]
    BY <1>3, <2>1
  <2>3. PICK q \in Partition : /\ Owner[q] = u /\ committed[q] < next[q]
                               /\ origin[q] < next[q] /\ next[q] <= taken[q]
                               /\ log[q][next[q]] = at[u].event
    BY <2>1, <2>2 DEF IInv, Where
  <2>4. next'[q] = next[q] /\ origin'[q] = origin[q]
    BY <1>3a, <2>2, <2>3
  <2>5. QED
    BY <1>1, <2>2, <2>3, <2>4
<1>7. Once' /\ NoMore'
  BY <1>1 DEF IInv, Once, NoMore
<1>8. PoisonEnds'
  <2>1. SUFFICES ASSUME NEW q \in Partition, NEW i \in (origin'[q] + 1)..next'[q],
                        log[q][i].kind = "poison"
                 PROVE  i = next'[q] /\ committed[q] < i /\ ~up'[Owner[q]]
    BY <1>1 DEF PoisonEnds
  <2>2. i \in (origin[q] + 1)..next[q]
    BY <1>2, <1>3a, <2>1
  <2>3. i = next[q] /\ committed[q] < i /\ ~up[Owner[q]]
    BY <2>1, <2>2 DEF IInv, PoisonEnds
  <2>4. Owner[q] # w /\ next'[q] = next[q] /\ Owner[q] \in Worker
    BY <1>2, <1>3a, <2>1, <2>2, <2>3, PartitionAssumption
  <2>5. ~up'[Owner[q]]
    BY <1>3b, <2>3, <2>4
  <2>6. QED
    BY <2>3, <2>4, <2>5
<1>9. Behind'
  <2>1. SUFFICES ASSUME NEW m \in Message, Shape[m].body # "long", Consumed(m)', ~Handling(m)'
                 PROVE  Filed(m)'
    BY DEF Behind
  <2>2. Owner[ChatPart[m]] \in Worker /\ ChatPart[m] \in Partition
    BY ShapeType, PartitionAssumption
  <2>3. PICK i \in (origin'[ChatPart[m]] + 1)..next'[ChatPart[m]] : log[ChatPart[m]][i] = Said(m)
    BY <1>1, <2>1 DEF Consumed
  <2>4. ~Handling(m) /\ Consumed(m)
    <3>1. CASE Owner[ChatPart[m]] = w
      <4>1. i \in (origin[ChatPart[m]] + 1)..committed[ChatPart[m]]
        BY <1>2, <1>3a, <2>2, <2>3, <3>1
      <4>2. QED
        BY <2>3, <4>1, CommittedIsPast
    <3>2. CASE Owner[ChatPart[m]] # w
      <4>1. next'[ChatPart[m]] = next[ChatPart[m]] /\ origin'[ChatPart[m]] = origin[ChatPart[m]]
        BY <1>3a, <2>2, <3>2
      <4>2. at'[Owner[ChatPart[m]]] = at[Owner[ChatPart[m]]]
        BY <1>3, <2>2, <3>2
      <4>3. QED
        BY <2>1, <2>3, <4>1, <4>2 DEF Handling, Consumed
    <3>3. QED
      BY <3>1, <3>2
  <2>5. Filed(m)
    BY <2>1, <2>4 DEF IInv, Behind
  <2>6. QED
    BY <1>1, <2>5 DEF Filed, Named, Failed, Lost
<1>10. \A u \in Worker : Stage(u)'
  <2>1. SUFFICES ASSUME NEW u \in Worker PROVE Stage(u)'
    OBVIOUS
  <2>2. CASE u # w
    BY <1>1, <1>3, <2>2 DEF IInv, Stage, MessageStage, StageOf, Named, Failed, Lost
  <2>3. CASE u = w
    BY <1>3, <2>3, Kinds DEF Stage
  <2>4. QED
    BY <2>2, <2>3
<1>11. QED
  BY <1>4, <1>5, <1>6, <1>7, <1>8, <1>9, <1>10 DEF IInv

-----------------------------------------------------------------------------
LEMMA NextIInv == IInv /\ [Next]_vars => IInv'
<1>1. SUFFICES ASSUME IInv, [Next]_vars PROVE IInv'
  OBVIOUS
<1>2. CASE UNCHANGED vars
  BY <1>1, <1>2, FrameIInv
<1>3. CASE Server
  BY <1>1, <1>3, ServerIInv
<1>4. ASSUME NEW w \in Worker, TakeNext(w) PROVE IInv'
  BY <1>1, <1>4, TakeIInv DEF TakeNext
<1>5. ASSUME NEW w \in Worker, Continue(w) PROVE IInv'
  <2>1. CASE Found(w) \/ NotFoundYet(w) \/ NeverFound(w) \/ LookupRaises(w)
    BY <1>1, <2>1, LookupIInv
  <2>2. CASE Connect(w)
    BY <1>1, <2>2, ConnectIInv
  <2>3. CASE WriteParent(w)
    BY <1>1, <2>3, ParentIInv
  <2>4. CASE WriteObject(w)
    BY <1>1, <2>4, ObjectIInv
  <2>5. CASE WriteExtend(w)
    BY <1>1, <2>5, ExtendIInv
  <2>6. CASE Exists(w)
    BY <1>1, <2>6, ExistsIInv
  <2>7. CASE Mask(w) \/ PutPlaceholder(w)
    BY <1>1, <2>7, RevokeIInv
  <2>8. QED
    BY <1>5, <2>1, <2>2, <2>3, <2>4, <2>5, <2>6, <2>7 DEF Continue
<1>6. ASSUME NEW w \in Worker, Fails(w) PROVE IInv'
  <2>1. CASE ConnectRaises(w) \/ Drop(w)
    BY <1>1, <2>1, FrameIInv
  <2>2. CASE ParentFails(w)
    BY <1>1, <2>2, ParentIInv
  <2>3. CASE ObjectFails(w)
    BY <1>1, <2>3, ObjectIInv
  <2>4. CASE ExtendFails(w)
    BY <1>1, <2>4, ExtendIInv
  <2>5. CASE PlaceholderRetry(w) \/ RevokeFails(w)
    BY <1>1, <2>5, RevokeIInv
  <2>6. QED
    BY <1>6, <2>1, <2>2, <2>3, <2>4, <2>5 DEF Fails
<1>7. ASSUME NEW w \in Worker, Restart(w) PROVE IInv'
  BY <1>1, <1>7, RestartIInv
<1>8. ASSUME NEW w \in Worker, NEW p \in Partition, Commit(w, p) PROVE IInv'
  BY <1>1, <1>8, CommitIInv
<1>9. QED
  BY <1>1, <1>2, <1>3, <1>4, <1>5, <1>6, <1>7, <1>8 DEF Next

LEMMA AlwaysIInv == Spec => []IInv
BY InitIInv, NextIInv, PTL DEF Spec

\* Type correctness: every variable of kafka2es.py's model stays in its type.
THEOREM IndexTypeCorrect == Spec => []TypeOK
<1>1. IInv => TypeOK
  BY DEF IInv
<1>2. QED
  BY <1>1, AlwaysIInv, PTL

\* For any messages, partitions, workers, faults and restarts, a committed
\* message of kafka2es.py is in a log or filed, but for the documents whose own
\* request failed.
THEOREM OnlyFailuresLose == Spec => []LossesAreFailures
<1>1. IInv => LossesAreFailures
  <2>1. SUFFICES ASSUME IInv, NEW m \in Message, Committed(Said(m)), Shape[m].body # "long"
                 PROVE  Filed(m)
    BY DEF LossesAreFailures, Filed
  <2>2. PICK p \in Partition : \E i \in (origin[p] + 1)..committed[p] : log[p][i] = Said(m)
    BY <2>1 DEF Committed
  <2>3. PICK i \in (origin[p] + 1)..committed[p] : log[p][i] = Said(m)
    BY <2>2
  <2>4. i \in 1..Len(log[p])
    BY <2>1, <2>3, OffsetFacts
  <2>5. p = ChatPart[m]
    BY <2>1, <2>3, <2>4 DEF IInv, Once
  <2>6. ~Handling(m) /\ Consumed(m)
    BY <2>1, <2>3, <2>5, CommittedIsPast
  <2>7. QED
    BY <2>1, <2>6 DEF IInv, Behind
<1>2. QED
  BY <1>1, AlwaysIInv, PTL

\* json.loads ends the process that meets a poisonous value, and the poll that
\* would commit past it is never reached: no offset behind it is committed,
\* unless the reading of the partition began there.
THEOREM PoisonBlocks == Spec => []PoisonIsNeverPassed
<1>1. IInv => PoisonIsNeverPassed
  <2>1. SUFFICES ASSUME IInv, NEW p \in Partition, NEW i \in DOMAIN log[p],
                        i > origin[p], log[p][i].kind = "poison"
                 PROVE  committed[p] < i
    BY DEF PoisonIsNeverPassed
  <2>2. i \in Nat
    BY <2>1 DEF IInv, TypeOK
  <2>3. CASE i \in (origin[p] + 1)..next[p]
    BY <2>1, <2>3 DEF IInv, PoisonEnds
  <2>4. CASE ~(i \in (origin[p] + 1)..next[p])
    BY <2>1, <2>2, <2>4, OffsetFacts
  <2>5. QED
    BY <2>3, <2>4
<1>2. QED
  BY <1>1, AlwaysIInv, PTL

-----------------------------------------------------------------------------
\* A message that has children, or is about to, has a parent or a note that its
\* write failed.
Excused(m) ==
  \/ parent[DocOf(m)] # Absent
  \/ Lost(m, "parent")
Writing(place, m) == place.event = Said(m) /\ place.step \in {"child", "ext"}
Children(m) == child[m] > 0 \/ ext[m] > 0 \/ \E w \in Worker : Writing(at[w], m)
Excuses == \A m \in Message : Children(m) => Excused(m)

\* What a step of w that leads to place owes a message.
Owed(m, place) ==
  Excused(m)' \/ Children(m) \/ (child'[m] = child[m] /\ ext'[m] = ext[m] /\ ~Writing(place, m))

LEMMA ExcusesKept ==
  ASSUME IInv, Excuses, NEW w \in Worker, NEW place, at' = [at EXCEPT ![w] = place],
         \A d \in Document : parent[d] # Absent => parent'[d] # Absent, failures \subseteq failures',
         \A m \in Message : Owed(m, place)
  PROVE  Excuses'
<1>1. SUFFICES ASSUME NEW m \in Message, Children(m)' PROVE Excused(m)'
  BY DEF Excuses
<1>2. Excused(m) => Excused(m)'
  BY ShapeType DEF Excused, Lost
<1>3. at'[w] = place /\ \A u \in Worker : u # w => at'[u] = at[u]
  BY DEF IInv, TypeOK
<1>4. CASE child'[m] = child[m] /\ ext'[m] = ext[m] /\ ~Writing(place, m)
  <2>1. \A u \in Worker : Writing(at'[u], m) => Writing(at[u], m)
    BY <1>3, <1>4
  <2>2. Children(m)
    BY <1>1, <1>4, <2>1 DEF Children, Writing
  <2>3. QED
    BY <1>2, <2>2 DEF Excuses
<1>5. QED
  BY <1>2, <1>4 DEF Excuses, Owed

LEMMA QuietExcuses ==
  ASSUME IInv, Excuses, NEW w \in Worker,
         \/ Found(w) \/ NotFoundYet(w) \/ NeverFound(w) \/ LookupRaises(w) \/ Connect(w)
         \/ Exists(w) \/ Mask(w) \/ PutPlaceholder(w) \/ PlaceholderRetry(w) \/ RevokeFails(w)
         \/ Restart(w) \/ \E p \in Partition : TakeMessage(w, p)
  PROVE  Excuses'
<1>1. UNCHANGED <<child, ext>> /\ failures \subseteq failures'
  BY DEF Found, NotFoundYet, NeverFound, LookupRaises, Connect, Exists, Mask, MaskWith, PutPlaceholder,
         PlaceholderRetry, RevokeFails, Restart, RestartAt, TakeMessage, Note, indexVars
<1>2. \A d \in Document : parent[d] # Absent => parent'[d] # Absent
  <2>1. CASE Mask(w) \/ PutPlaceholder(w) \/ PlaceholderRetry(w) \/ RevokeFails(w)
    <3>1. PICK m \in Message : m = Msg(w)
      <4>1. at[w] # Idle
        BY <2>1, Kinds DEF Mask, MaskWith, PutPlaceholder, PlaceholderRetry, RevokeFails, At
      <4>2. QED
        BY <4>1, AtType DEF IInv
    <3>2. parent \in [Document -> ParentDoc] /\ RevokeDocOf(m) \in Document
      BY ShapeType DEF IInv, TypeOK
    <3>3. \/ parent' = parent
          \/ parent' = [parent EXCEPT ![RevokeDocOf(m)] = Masked(parent[RevokeDocOf(m)])]
          \/ parent' = [parent EXCEPT ![RevokeDocOf(m)] = Placeholder]
      BY <2>1, <3>1 DEF Mask, MaskWith, PutPlaceholder, PlaceholderRetry, RevokeFails
    <3>4. Masked(parent[RevokeDocOf(m)]) # Absent /\ Placeholder # Absent
      BY <3>2, Documents
    <3>5. QED
      BY <3>2, <3>3, <3>4
  <2>2. CASE ~(Mask(w) \/ PutPlaceholder(w) \/ PlaceholderRetry(w) \/ RevokeFails(w))
    <3>1. UNCHANGED parent
      BY <2>2 DEF Found, NotFoundYet, NeverFound, LookupRaises, Connect, Exists,
                  Restart, RestartAt, TakeMessage, indexVars
    <3>2. QED
      BY <3>1
  <2>3. QED
    BY <2>1, <2>2
<1>3. PICK place : at' = [at EXCEPT ![w] = place] /\ place.step \notin {"child", "ext"}
  <2>1. CASE Found(w)
    <3>1. at[w] # Idle /\ TypeOK
      BY <2>1, Kinds DEF Found, At, IInv
    <3>2. /\ Step(w, "exists", 0).step = "exists" /\ Step(w, "connect", 0).step = "connect"
          /\ Idle.step = "idle"
      BY Kinds DEF Step
    <3>3. AfterLookup(w) \in {Step(w, "exists", 0), Step(w, "connect", 0), Idle}
      BY <3>1, AtType, AfterLookupIs
    <3>4. at' = [at EXCEPT ![w] = AfterLookup(w)]
      BY <2>1 DEF Found, Goto
    <3>5. QED
      BY <3>2, <3>3, <3>4
  <2>2. CASE \E p \in Partition : TakeMessage(w, p)
    <3>1. PICK e : at' = [at EXCEPT ![w] = [step |-> "lookup", event |-> e, n |-> 0]]
      BY <2>2 DEF TakeMessage
    <3>2. PICK look : look = [step |-> "lookup", event |-> e, n |-> 0]
      OBVIOUS
    <3>3. look.step = "lookup"
      BY <3>2
    <3>4. QED
      BY <3>1, <3>2, <3>3
  <2>3. CASE NeverFound(w) \/ LookupRaises(w) \/ Mask(w) \/ PutPlaceholder(w) \/ RevokeFails(w) \/ Restart(w)
    <3>1. at' = [at EXCEPT ![w] = Idle] /\ Idle.step = "idle"
      BY <2>3, Kinds DEF NeverFound, LookupRaises, Mask, MaskWith, PutPlaceholder, RevokeFails,
                         Restart, RestartAt, Goto
    <3>2. QED
      BY <3>1
  <2>4. CASE NotFoundYet(w) \/ Connect(w) \/ Exists(w) \/ PlaceholderRetry(w)
    <3>1. PICK s, n : /\ at' = [at EXCEPT ![w] = Step(w, s, n)]
                      /\ s \in {"lookup", "parent", "placeholder", "mask"}
      BY <2>4 DEF NotFoundYet, Connect, Exists, PlaceholderRetry, Goto
    <3>2. Step(w, s, n).step = s
      BY DEF Step
    <3>3. QED
      BY <3>1, <3>2
  <2>5. QED
    BY <2>1, <2>2, <2>3, <2>4
<1>4. \A m \in Message : Owed(m, place)
  BY <1>1, <1>3 DEF Writing, Owed
<1>5. QED
  BY <1>1, <1>2, <1>3, <1>4, ExcusesKept

LEMMA WriteExcuses ==
  ASSUME IInv, Excuses, NEW w \in Worker,
         \/ WriteParent(w) \/ ParentFails(w) \/ WriteObject(w) \/ ObjectFails(w)
         \/ WriteExtend(w) \/ ExtendFails(w)
  PROVE  Excuses'
<1>1. at[w].step \in {"parent", "child", "ext"}
  BY DEF WriteParent, ParentFails, WriteObject, ObjectFails, WriteExtend, ExtendFails, At
<1>2. PICK m \in Message : m = Msg(w) /\ at[w].event = Said(m) /\ at[w] # Idle
  BY <1>1, HandlesMessage
<1>3. failures \subseteq failures'
  BY DEF WriteParent, ParentFails, WriteObject, ObjectFails, WriteExtend, ExtendFails, Note
<1>4. /\ parent \in [Document -> ParentDoc] /\ DocOf(m) \in Document /\ Live # Absent
      /\ parent' = parent \/ parent' = [parent EXCEPT ![DocOf(m)] = Live]
  BY <1>2, ShapeType, Documents DEF IInv, TypeOK, WriteParent, ParentFails, WriteObject, ObjectFails,
     WriteExtend, ExtendFails
<1>5. \A d \in Document : parent[d] # Absent => parent'[d] # Absent
  BY <1>4
<1>6. PICK place : at' = [at EXCEPT ![w] = place] /\ place.event \in {at[w].event, NoEvent}
  <2>1. \A s, n : Step(w, s, n).event = at[w].event
    BY DEF Step
  <2>2. Idle.event = NoEvent
    BY Kinds
  <2>3. AfterObjects(w).event \in {at[w].event, NoEvent}
    BY <2>1, <2>2 DEF AfterObjects
  <2>4. AfterParent(w).event \in {at[w].event, NoEvent} /\ AfterExtend(w).event \in {at[w].event, NoEvent}
    BY <2>1, <2>2, <2>3 DEF AfterParent, AfterExtend
  <2>5. QED
    BY <2>1, <2>2, <2>3, <2>4 DEF WriteParent, ParentFails, WriteObject, ObjectFails,
       WriteExtend, ExtendFails, Goto
<1>7. \A k \in Message : k # m => ~Writing(place, k)
  <2>1. SUFFICES ASSUME NEW k \in Message, k # m, place.event = Said(k) PROVE FALSE
    BY DEF Writing
  <2>2. Said(k).msg = k /\ Said(m).msg = m /\ Said(k) # NoEvent
    BY Kinds
  <2>3. QED
    BY <1>2, <1>6, <2>1, <2>2
<1>8. \A k \in Message : k # m => child'[k] = child[k] /\ ext'[k] = ext[k]
  BY <1>2 DEF IInv, TypeOK, WriteParent, ParentFails, WriteObject, ObjectFails, WriteExtend, ExtendFails
<1>9. Excused(m)' \/ Children(m)
  <2>1. CASE WriteParent(w)
    BY <1>2, <1>4, <2>1 DEF WriteParent, Excused
  <2>2. CASE ParentFails(w)
    <3>1. [event |-> Said(m), what |-> "parent"] \in failures'
      BY <1>2, <2>2 DEF ParentFails, Note
    <3>2. QED
      BY <3>1 DEF Excused, Lost
  <2>3. CASE WriteObject(w) \/ ObjectFails(w) \/ WriteExtend(w) \/ ExtendFails(w)
    <3>1. at[w].step \in {"child", "ext"}
      BY <2>3 DEF WriteObject, ObjectFails, WriteExtend, ExtendFails, At
    <3>2. QED
      BY <1>2, <3>1 DEF Children, Writing
  <2>4. QED
    BY <2>1, <2>2, <2>3
<1>10. \A k \in Message : Owed(k, place)
  BY <1>7, <1>8, <1>9 DEF Owed
<1>11. at' = [at EXCEPT ![w] = place]
  BY <1>6
<1>12. QED
  BY <1>3, <1>5, <1>10, <1>11, ExcusesKept

LEMMA NextExcuses == IInv /\ Excuses /\ [Next]_vars => Excuses'
<1> SUFFICES ASSUME IInv, Excuses, [Next]_vars PROVE Excuses'
  OBVIOUS
<1>1. ASSUME UNCHANGED <<at, parent, child, ext, failures>> PROVE Excuses'
  BY <1>1 DEF Excuses, Excused, Lost, Children, Writing
<1>2. CASE UNCHANGED vars \/ Server
  BY <1>1, <1>2 DEF vars, processVars, indexVars, Server, Store, Say, Revoke, SendStray, Send
<1>3. ASSUME NEW w \in Worker, NEW p \in Partition, TakeSkipped(w, p) \/ TakePoison(w, p) \/ Commit(w, p)
      PROVE  Excuses'
  BY <1>1, <1>3 DEF TakeSkipped, TakePoison, Commit, processVars, indexVars
<1>4. ASSUME NEW w \in Worker, ConnectRaises(w) \/ Drop(w) PROVE Excuses'
  BY <1>1, <1>4 DEF ConnectRaises, Drop, indexVars
<1>5. ASSUME NEW w \in Worker, TakeNext(w) PROVE Excuses'
  BY <1>3, <1>5, QuietExcuses DEF TakeNext
<1>6. ASSUME NEW w \in Worker, Continue(w) \/ Fails(w) \/ Restart(w) PROVE Excuses'
  BY <1>4, <1>6, QuietExcuses, WriteExcuses DEF Continue, Fails
<1>7. QED
  BY <1>2, <1>3, <1>5, <1>6 DEF Next

\* handle_body writes the children whether or not the parent was written; for
\* any faults, the log then says that the parent failed.
THEOREM OrphansAreReported == Spec => []NoUnreportedOrphans
<1>1. Init => Excuses
  BY Kinds DEF Init, Excuses, Children, Writing
<1>2. Spec => []Excuses
  BY <1>1, AlwaysIInv, NextExcuses, PTL DEF Spec
<1>3. Excuses => NoUnreportedOrphans
  BY DEF Excuses, Children, Excused, NoUnreportedOrphans
<1>4. QED
  BY <1>2, <1>3, PTL
-----------------------------------------------------------------------------
\* A message has one revoke, in its partition, behind the message's own event
\* when the two share one.
RevokeOnce ==
  \A m \in Message : \A p \in Partition : \A i \in 1..Len(log[p]) :
    log[p][i] = Revoked(m) =>
      /\ p = RevokePart[m]
      /\ \A j \in 1..Len(log[p]) : log[p][j] = Revoked(m) => i = j
      /\ Ordered(m) => \E j \in 1..Len(log[p]) : j < i /\ log[p][j] = Said(m)

RevokeConsumed(m) ==
  \E i \in (origin[RevokePart[m]] + 1)..next[RevokePart[m]] : log[RevokePart[m]][i] = Revoked(m)
RevokeUnderWay(m) == \E w \in Worker : at[w].event = Revoked(m)

\* A revoke that was taken and is not under way has hidden the message or
\* failed.
HiddenBehind ==
  \A m \in Message : Ordered(m) /\ RevokeConsumed(m) /\ ~RevokeUnderWay(m) =>
    Failed(Revoked(m)) \/ parent[DocOf(m)].body # "text"

\* Only a revoke that some process took has hidden a message.
RevokeMet(m) == \E i \in 1..taken[RevokePart[m]] : log[RevokePart[m]][i] = Revoked(m)
MaskedByRevoke ==
  \A m \in Message :
    Ordered(m) /\ parent[DocOf(m)].body \in {"notice", "empty"} => RevokeMet(m)

Hiding == RevokeOnce /\ HiddenBehind /\ MaskedByRevoke

LEMMA OneRevoker ==
  ASSUME IInv, RevokeOnce, NEW w \in Worker, NEW m \in Message, at[w].event = Revoked(m)
  PROVE  /\ w = Owner[RevokePart[m]] /\ committed[RevokePart[m]] < next[RevokePart[m]]
         /\ log[RevokePart[m]][next[RevokePart[m]]] = Revoked(m)
         /\ next[RevokePart[m]] \in 1..Len(log[RevokePart[m]])
         /\ RevokeConsumed(m) /\ RevokeMet(m)
<1>1. at[w] # Idle
  BY Kinds
<1>2. PICK p \in Partition : /\ Owner[p] = w /\ committed[p] < next[p]
                             /\ origin[p] < next[p] /\ next[p] <= taken[p]
                             /\ log[p][next[p]] = Revoked(m)
  BY <1>1 DEF IInv, Where
<1>3. /\ next[p] \in 1..Len(log[p]) /\ next[p] \in (origin[p] + 1)..next[p]
      /\ next[p] \in 1..taken[p]
  BY <1>2, OffsetFacts
<1>4. p = RevokePart[m]
  BY <1>2, <1>3 DEF RevokeOnce
<1>5. QED
  BY <1>2, <1>3, <1>4 DEF RevokeConsumed, RevokeMet

\* While a message is being handled, its revoke is behind it.
LEMMA RevokeIsBehind ==
  ASSUME IInv, RevokeOnce, NEW w \in Worker, NEW m \in Message, Ordered(m), at[w].event = Said(m)
  PROVE  /\ ~RevokeConsumed(m)
         /\ RevokeMet(m) => next[ChatPart[m]] < taken[ChatPart[m]]
<1>1. PICK p \in Partition : p = ChatPart[m] /\ p = RevokePart[m]
  BY ShapeType DEF Ordered
<1>2. next[p] \in 1..Len(log[p]) /\ log[p][next[p]] = Said(m)
  BY <1>1, OneHandler
<1>3. ASSUME NEW i \in 1..Len(log[p]), log[p][i] = Revoked(m) PROVE next[p] < i
  <2>1. PICK j \in 1..Len(log[p]) : j < i /\ log[p][j] = Said(m)
    BY <1>3 DEF RevokeOnce
  <2>2. j = next[p]
    BY <1>2, <2>1 DEF IInv, Once
  <2>3. QED
    BY <2>1, <2>2
<1>4. ~RevokeConsumed(m)
  <2>1. SUFFICES ASSUME NEW i \in (origin[p] + 1)..next[p], log[p][i] = Revoked(m) PROVE FALSE
    BY <1>1 DEF RevokeConsumed
  <2>2. i \in 1..Len(log[p]) /\ i <= next[p]
    BY OffsetFacts
  <2>3. QED
    BY <1>2, <1>3, <2>1, <2>2
<1>5. ASSUME RevokeMet(m) PROVE next[p] < taken[p]
  <2>1. PICK i \in 1..taken[p] : log[p][i] = Revoked(m)
    BY <1>1, <1>5 DEF RevokeMet
  <2>2. i \in 1..Len(log[p]) /\ i <= taken[p] /\ taken[p] \in Nat
    BY OffsetFacts
  <2>3. next[p] < i
    BY <1>3, <2>1, <2>2
  <2>4. QED
    BY <1>2, <2>2, <2>3
<1>6. QED
  BY <1>1, <1>4, <1>5

-----------------------------------------------------------------------------
\* The chat server revokes a message once, after it sent it.
LEMMA SendRevokeOnce ==
  ASSUME IInv, RevokeOnce, NEW p \in Partition, NEW e \in Event, Send(p, e),
         \A m \in Message : e = Revoked(m) =>
           p = RevokePart[m] /\ ~Has(p, e) /\ Has(ChatPart[m], Said(m))
  PROVE  RevokeOnce'
<1>1. log \in [Partition -> Seq(Event)] /\ log' = [log EXCEPT ![p] = Append(@, e)]
  BY DEF Send, IInv, TypeOK
<1>2. /\ Len(log'[p]) = Len(log[p]) + 1 /\ Len(log[p]) \in Nat
      /\ log'[p][Len(log[p]) + 1] = e
      /\ \A i \in 1..Len(log[p]) : log'[p][i] = log[p][i]
      /\ \A q \in Partition : q # p => log'[q] = log[q]
  <2>1. log[p] \in Seq(Event) /\ log'[p] = Append(log[p], e)
    BY <1>1
  <2>2. QED
    BY <1>1, <2>1
<1>3. SUFFICES ASSUME NEW m \in Message, NEW q \in Partition,
                      NEW i \in 1..Len(log'[q]), log'[q][i] = Revoked(m)
               PROVE  /\ q = RevokePart[m]
                      /\ \A j \in 1..Len(log'[q]) : log'[q][j] = Revoked(m) => i = j
                      /\ Ordered(m) => \E j \in 1..Len(log'[q]) : j < i /\ log'[q][j] = Said(m)
  BY DEF RevokeOnce, Ordered
<1>4. CASE q # p
  BY <1>2, <1>3, <1>4 DEF RevokeOnce
<1>5. CASE q = p /\ e # Revoked(m)
  <2>1. \A j \in 1..Len(log'[p]) :
          log'[p][j] = Revoked(m) => j \in 1..Len(log[p]) /\ log[p][j] = Revoked(m)
    BY <1>2, <1>5
  <2>2. i \in 1..Len(log[p]) /\ log[p][i] = Revoked(m)
    BY <1>3, <1>5, <2>1
  <2>3. /\ p = RevokePart[m]
        /\ \A j \in 1..Len(log[p]) : log[p][j] = Revoked(m) => i = j
        /\ Ordered(m) => \E j \in 1..Len(log[p]) : j < i /\ log[p][j] = Said(m)
    BY <2>2 DEF RevokeOnce
  <2>4. Ordered(m) => \E j \in 1..Len(log'[p]) : j < i /\ log'[p][j] = Said(m)
    <3>1. SUFFICES ASSUME Ordered(m) PROVE \E j \in 1..Len(log'[p]) : j < i /\ log'[p][j] = Said(m)
      OBVIOUS
    <3>2. PICK j \in 1..Len(log[p]) : j < i /\ log[p][j] = Said(m)
      BY <2>3, <3>1
    <3>3. j \in 1..Len(log'[p]) /\ log'[p][j] = Said(m)
      BY <1>2, <3>2
    <3>4. QED
      BY <3>2, <3>3
  <2>5. QED
    BY <1>5, <2>1, <2>3, <2>4
<1>6. CASE q = p /\ e = Revoked(m)
  <2>1. p = RevokePart[m] /\ ~Has(p, e) /\ Has(ChatPart[m], Said(m))
    BY <1>6
  <2>2. DOMAIN log[p] = 1..Len(log[p])
    BY <1>1
  <2>3. \A j \in 1..Len(log[p]) : log[p][j] # e
    BY <2>1, <2>2 DEF Has
  <2>4. \A j \in 1..Len(log'[q]) : log'[q][j] = Revoked(m) => j = Len(log[p]) + 1
    BY <1>2, <1>6, <2>3
  <2>5. i = Len(log[p]) + 1
    BY <1>3, <2>4
  <2>6. Ordered(m) => \E j \in 1..Len(log[p]) : log[p][j] = Said(m)
    BY <2>1, <2>2 DEF Has, Ordered
  <2>7. Ordered(m) => \E j \in 1..Len(log'[p]) : j < i /\ log'[p][j] = Said(m)
    <3>1. SUFFICES ASSUME Ordered(m) PROVE \E j \in 1..Len(log'[p]) : j < i /\ log'[p][j] = Said(m)
      OBVIOUS
    <3>2. PICK j \in 1..Len(log[p]) : log[p][j] = Said(m)
      BY <2>6, <3>1
    <3>3. j \in 1..Len(log'[p]) /\ log'[p][j] = Said(m) /\ j < i
      BY <1>2, <2>5, <3>2
    <3>4. QED
      BY <3>3
  <2>8. QED
    BY <1>6, <2>1, <2>4, <2>5, <2>7
<1>7. QED
  BY <1>4, <1>5, <1>6

LEMMA SendHides ==
  ASSUME IInv, HiddenBehind, MaskedByRevoke, NEW p \in Partition, NEW e \in Event, Send(p, e)
  PROVE  HiddenBehind' /\ MaskedByRevoke'
<1>1. /\ log \in [Partition -> Seq(Event)] /\ log' = [log EXCEPT ![p] = Append(@, e)]
      /\ UNCHANGED <<next, origin, taken, at, parent, failures>>
  BY DEF Send, IInv, TypeOK, offsetVars, processVars, indexVars, faultVars
<1>2. \A q \in Partition : \A i \in 1..Len(log[q]) : log'[q][i] = log[q][i]
  <2>1. SUFFICES ASSUME NEW q \in Partition, NEW i \in 1..Len(log[q]) PROVE log'[q][i] = log[q][i]
    OBVIOUS
  <2>2. CASE q = p
    <3>1. log'[p] = Append(log[p], e)
      BY <1>1
    <3>2. QED
      BY <1>1, <2>2, <3>1
  <2>3. CASE q # p
    BY <1>1, <2>3
  <2>4. QED
    BY <2>2, <2>3
<1>3. ASSUME NEW m \in Message
      PROVE (RevokeConsumed(m)' => RevokeConsumed(m)) /\ (RevokeMet(m) => RevokeMet(m)')
  <2>1. PICK q \in Partition : q = RevokePart[m]
    BY ShapeType
  <2>2. \A i \in (origin[q] + 1)..next[q] : i \in 1..Len(log[q])
    BY OffsetFacts
  <2>3. \A i \in 1..taken[q] : i \in 1..Len(log[q])
    BY OffsetFacts
  <2>4. RevokeConsumed(m)' => RevokeConsumed(m)
    BY <1>1, <1>2, <2>1, <2>2 DEF RevokeConsumed
  <2>5. RevokeMet(m) => RevokeMet(m)'
    BY <1>1, <1>2, <2>1, <2>3 DEF RevokeMet
  <2>6. QED
    BY <2>4, <2>5
<1>4. \A m \in Message : (Failed(Revoked(m))' <=> Failed(Revoked(m)))
                        /\ (RevokeUnderWay(m)' <=> RevokeUnderWay(m))
  BY <1>1 DEF Failed, RevokeUnderWay
<1>5. QED
  BY <1>1, <1>3, <1>4 DEF HiddenBehind, MaskedByRevoke, Ordered

\* A step that leaves what the invariant speaks of alone.
LEMMA FrameHides ==
  ASSUME Hiding, UNCHANGED <<log, next, origin, taken, at, parent, failures>> PROVE Hiding'
<1>1. RevokeOnce'
  BY DEF Hiding, RevokeOnce, Ordered
<1>2. \A m \in Message : /\ (Failed(Revoked(m))' <=> Failed(Revoked(m)))
                        /\ (RevokeUnderWay(m)' <=> RevokeUnderWay(m))
                        /\ (RevokeConsumed(m)' <=> RevokeConsumed(m))
                        /\ (RevokeMet(m)' <=> RevokeMet(m))
  BY DEF Failed, RevokeUnderWay, RevokeConsumed, RevokeMet
<1>3. QED
  BY <1>1, <1>2 DEF Hiding, HiddenBehind, MaskedByRevoke, Ordered

LEMMA ServerHides == ASSUME IInv, Hiding, Server PROVE Hiding'
<1>1. CASE \E m \in Message : Store(m)
  BY <1>1, FrameHides DEF Store, offsetVars, processVars, indexVars, faultVars
<1>2. CASE \E m \in Message : Say(m)
  <2>1. PICK m \in Message : Say(m)
    BY <1>2
  <2>2. ChatPart[m] \in Partition /\ Said(m) \in Event /\ Send(ChatPart[m], Said(m))
    BY <2>1, ShapeType, Kinds DEF Say, Event
  <2>3. \A k \in Message : Said(m) # Revoked(k)
    BY Kinds
  <2>4. QED
    BY <2>2, <2>3, SendRevokeOnce, SendHides DEF Hiding
<1>3. CASE \E m \in Message : Revoke(m)
  <2>1. PICK m \in Message : Revoke(m)
    BY <1>3
  <2>2. RevokePart[m] \in Partition /\ Revoked(m) \in Event /\ Send(RevokePart[m], Revoked(m))
    BY <2>1, ShapeType, Kinds DEF Revoke, Event
  <2>3. \A k \in Message : Revoked(m) = Revoked(k) => k = m
    <3>1. \A k \in Message : Revoked(k).msg = k
      BY Kinds
    <3>2. QED
      BY <3>1
  <2>4. ~Has(RevokePart[m], Revoked(m)) /\ Has(ChatPart[m], Said(m))
    BY <2>1 DEF Revoke
  <2>5. QED
    BY <2>2, <2>3, <2>4, SendRevokeOnce, SendHides DEF Hiding
<1>4. CASE \E p \in Partition, e \in StrayEvent : SendStray(p, e)
  <2>1. PICK p \in Partition, e \in StrayEvent : SendStray(p, e)
    BY <1>4
  <2>2. e \in Event /\ Send(p, e)
    BY <2>1 DEF SendStray, Event
  <2>3. \A k \in Message : e # Revoked(k)
    <3>1. e.kind \in {"skipped", "poison"} /\ \A k \in Message : Revoked(k).kind = "revoke"
      BY Kinds
    <3>2. QED
      BY <3>1
  <2>4. QED
    BY <2>2, <2>3, SendRevokeOnce, SendHides DEF Hiding
<1>5. QED
  BY <1>1, <1>2, <1>3, <1>4 DEF Server

-----------------------------------------------------------------------------
\* What a step of w that leads to place may do to the document of m: nothing,
\* unless w handles the message or its revoke; and a revoke does not end without
\* a failure or a hidden document.
Spares(w, m, place) ==
  \/ /\ parent'[DocOf(m)] = parent[DocOf(m)]
     /\ at[w].event = Revoked(m) => place.event = Revoked(m) \/ Failed(Revoked(m))'
  \/ at[w].event = Said(m) /\ parent'[DocOf(m)] \in {parent[DocOf(m)], Live}
  \/ at[w].event = Revoked(m) /\ parent'[DocOf(m)].body \in {"notice", "empty"}

LEMMA HandleHides ==
  ASSUME IInv, Hiding, NEW w \in Worker, NEW place, at' = [at EXCEPT ![w] = place],
         UNCHANGED <<log, next, origin, taken>>, failures \subseteq failures',
         \A m \in Message : Ordered(m) => Spares(w, m, place)
  PROVE  Hiding'
<1>1. at'[w] = place /\ \A u \in Worker : u # w => at'[u] = at[u]
  BY DEF IInv, TypeOK
<1>2. RevokeOnce'
  BY DEF Hiding, RevokeOnce, Ordered
<1>3. \A m \in Message : /\ (RevokeConsumed(m)' <=> RevokeConsumed(m))
                        /\ (RevokeMet(m)' <=> RevokeMet(m))
                        /\ (Failed(Revoked(m)) => Failed(Revoked(m))')
  BY DEF RevokeConsumed, RevokeMet, Failed
<1>4. HiddenBehind'
  <2>1. SUFFICES ASSUME NEW m \in Message, Ordered(m), RevokeConsumed(m), ~RevokeUnderWay(m)'
                 PROVE  Failed(Revoked(m))' \/ parent'[DocOf(m)].body # "text"
    BY <1>3 DEF HiddenBehind, Ordered
  <2>2. CASE /\ parent'[DocOf(m)] = parent[DocOf(m)]
             /\ at[w].event = Revoked(m) => place.event = Revoked(m) \/ Failed(Revoked(m))'
    <3>1. CASE RevokeUnderWay(m)
      <4>1. PICK u \in Worker : at[u].event = Revoked(m)
        BY <3>1 DEF RevokeUnderWay
      <4>2. u = w /\ place.event # Revoked(m)
        BY <1>1, <2>1, <4>1 DEF RevokeUnderWay
      <4>3. QED
        BY <2>2, <4>1, <4>2
    <3>2. CASE ~RevokeUnderWay(m)
      BY <1>3, <2>1, <2>2, <3>2 DEF Hiding, HiddenBehind
    <3>3. QED
      BY <3>1, <3>2
  <2>3. CASE at[w].event = Said(m)
    BY <2>1, <2>3, RevokeIsBehind DEF Hiding
  <2>4. CASE parent'[DocOf(m)].body \in {"notice", "empty"}
    BY <2>4
  <2>5. QED
    BY <2>1, <2>2, <2>3, <2>4 DEF Spares
<1>5. MaskedByRevoke'
  <2>1. SUFFICES ASSUME NEW m \in Message, Ordered(m),
                        parent'[DocOf(m)].body \in {"notice", "empty"}
                 PROVE  RevokeMet(m)
    BY <1>3 DEF MaskedByRevoke, Ordered
  <2>2. CASE parent'[DocOf(m)] = parent[DocOf(m)]
    BY <2>1, <2>2 DEF Hiding, MaskedByRevoke
  <2>3. CASE parent'[DocOf(m)] = Live
    BY <2>1, <2>3 DEF Live
  <2>4. CASE at[w].event = Revoked(m)
    BY <2>4, OneRevoker DEF Hiding
  <2>5. QED
    BY <2>1, <2>2, <2>3, <2>4 DEF Spares
<1>6. QED
  BY <1>2, <1>4, <1>5 DEF Hiding

\* Steps that write no parent document keep the event or note its failure.
LEMMA QuietHides ==
  ASSUME IInv, Hiding, NEW w \in Worker,
         \/ Found(w) \/ NotFoundYet(w) \/ NeverFound(w) \/ LookupRaises(w) \/ Connect(w) \/ Exists(w)
         \/ WriteObject(w) \/ ObjectFails(w) \/ WriteExtend(w) \/ ExtendFails(w)
  PROVE  Hiding'
<1>1. at[w].step \in {"lookup", "connect", "exists", "child", "ext"}
  BY DEF Found, NotFoundYet, NeverFound, LookupRaises, Connect, Exists, WriteObject, ObjectFails,
         WriteExtend, ExtendFails, At
<1>2. at[w] # Idle /\ TypeOK
  BY <1>1, Kinds DEF IInv
<1>3. UNCHANGED <<log, next, origin, taken, parent>> /\ failures \subseteq failures'
  BY DEF Found, NotFoundYet, NeverFound, LookupRaises, Connect, Exists, WriteObject, ObjectFails,
         WriteExtend, ExtendFails, Note, serverVars, offsetVars, indexVars, faultVars
<1>4. \A s, n : Step(w, s, n).event = at[w].event
  BY DEF Step
<1>5. CASE NotFoundYet(w) \/ Connect(w) \/ Exists(w)
  <2>1. PICK s, n : at' = [at EXCEPT ![w] = Step(w, s, n)]
    BY <1>5 DEF NotFoundYet, Connect, Exists, Goto
  <2>2. PICK place : place = Step(w, s, n)
    OBVIOUS
  <2>3. at' = [at EXCEPT ![w] = place] /\ \A m \in Message : Spares(w, m, place)
    BY <1>3, <1>4, <2>1, <2>2 DEF Spares
  <2>4. QED
    BY <1>3, <2>3, HandleHides
<1>6. CASE NeverFound(w) \/ LookupRaises(w)
  <2>1. PICK what : failures' = failures \cup {[event |-> at[w].event, what |-> what]}
    BY <1>6 DEF NeverFound, LookupRaises, Note
  <2>2. PICK f : f = [event |-> at[w].event, what |-> what]
    OBVIOUS
  <2>3. f \in failures' /\ f.event = at[w].event
    BY <2>1, <2>2
  <2>4. \A m \in Message : Spares(w, m, Idle)
    BY <1>3, <2>3 DEF Spares, Named, Failed, Lost
  <2>5. at' = [at EXCEPT ![w] = Idle]
    BY <1>6 DEF NeverFound, LookupRaises, Goto
  <2>6. QED
    BY <1>3, <2>4, <2>5, HandleHides
<1>7. CASE Found(w)
  <2>1. PICK place : place = AfterLookup(w)
    OBVIOUS
  <2>2. at' = [at EXCEPT ![w] = place]
    BY <1>7, <2>1 DEF Found, Goto
  <2>3. \A m \in Message : at[w].event = Revoked(m) => place.event = Revoked(m)
    BY <1>2, <1>4, <2>1, AfterLookupIs
  <2>4. \A m \in Message : Spares(w, m, place)
    BY <1>3, <2>3 DEF Spares
  <2>5. QED
    BY <1>3, <2>2, <2>4, HandleHides
<1>8. CASE WriteObject(w) \/ ObjectFails(w) \/ WriteExtend(w) \/ ExtendFails(w)
  <2>1. \A m \in Message : at[w].event # Revoked(m)
    <3>1. at[w].step \in {"child", "ext"}
      BY <1>8 DEF WriteObject, ObjectFails, WriteExtend, ExtendFails, At
    <3>2. QED
      BY <3>1, HandlesMessage, Kinds
  <2>2. PICK place : at' = [at EXCEPT ![w] = place]
    BY <1>8 DEF WriteObject, ObjectFails, WriteExtend, ExtendFails, Goto
  <2>3. \A m \in Message : Spares(w, m, place)
    BY <1>3, <2>1 DEF Spares
  <2>4. QED
    BY <1>3, <2>2, <2>3, HandleHides
<1>9. QED
  BY <1>5, <1>6, <1>7, <1>8

\* Only the handler of a message makes its text searchable.
LEMMA ParentHides ==
  ASSUME IInv, Hiding, NEW w \in Worker, WriteParent(w) \/ ParentFails(w)
  PROVE  Hiding'
<1>1. PICK m \in Message : m = Msg(w) /\ at[w].event = Said(m)
  BY HandlesMessage DEF WriteParent, ParentFails, At
<1>2. UNCHANGED <<log, next, origin, taken>> /\ failures \subseteq failures'
  BY DEF WriteParent, ParentFails, Note, serverVars, offsetVars, faultVars
<1>3. /\ parent \in [Document -> ParentDoc]
      /\ parent' = parent \/ parent' = [parent EXCEPT ![DocOf(m)] = Live]
  BY <1>1 DEF WriteParent, ParentFails, IInv, TypeOK
<1>4. PICK place : at' = [at EXCEPT ![w] = place]
  BY DEF WriteParent, ParentFails, Goto
<1>5. ASSUME NEW k \in Message PROVE Spares(w, k, place)
  <2>1. CASE k = m
    BY <1>1, <1>3, <2>1, ShapeType DEF Spares
  <2>2. CASE k # m
    <3>1. DocOf(k) # DocOf(m) /\ DocOf(k) \in Document
      BY <2>2, ShapeType DEF DocOf
    <3>2. at[w].event # Revoked(k)
      BY <1>1, Kinds
    <3>3. QED
      BY <1>3, <3>1, <3>2 DEF Spares
  <2>3. QED
    BY <2>1, <2>2
<1>6. QED
  BY <1>2, <1>4, <1>5, HandleHides

\* What the steps of revoke_es write.
LEMMA RevokeWrites ==
  ASSUME IInv, NEW w \in Worker,
         Mask(w) \/ PutPlaceholder(w) \/ PlaceholderRetry(w) \/ RevokeFails(w)
  PROVE  \E m \in Message :
           /\ at[w].event = Revoked(m)
           /\ \/ parent' = parent /\ ~Mask(w) /\ ~PutPlaceholder(w)
              \/ parent' = [parent EXCEPT ![RevokeDocOf(m)] = Masked(parent[RevokeDocOf(m)])]
              \/ parent' = [parent EXCEPT ![RevokeDocOf(m)] = Placeholder]
           /\ Masked(parent[RevokeDocOf(m)]).body = "notice" /\ Placeholder.body = "empty"
<1>1. at[w].step \in {"exists", "mask", "placeholder"}
  BY DEF Mask, MaskWith, PutPlaceholder, PlaceholderRetry, RevokeFails, At
<1>2. at[w] # Idle /\ TypeOK
  BY <1>1, Kinds DEF IInv
<1>3. \A m \in Message : at[w].event # Said(m)
  BY <1>1 DEF IInv, Stage, MessageStage, StageOf
<1>4. PICK m \in Message : m = Msg(w) /\ at[w].event = Revoked(m)
  BY <1>2, <1>3, AtType
<1>5. \/ parent' = parent /\ ~Mask(w) /\ ~PutPlaceholder(w)
      \/ parent' = [parent EXCEPT ![RevokeDocOf(m)] = Masked(parent[RevokeDocOf(m)])]
      \/ parent' = [parent EXCEPT ![RevokeDocOf(m)] = Placeholder]
  <2>1. CASE Mask(w)
    BY <1>4, <2>1 DEF Mask, MaskWith
  <2>2. CASE PutPlaceholder(w)
    BY <1>4, <2>2 DEF PutPlaceholder
  <2>3. CASE ~Mask(w) /\ ~PutPlaceholder(w)
    BY <1>4, <2>3 DEF PlaceholderRetry, RevokeFails
  <2>4. QED
    BY <2>1, <2>2, <2>3
<1>6. parent[RevokeDocOf(m)] \in ParentDoc
  BY <1>2, ShapeType DEF TypeOK
<1>7. Masked(parent[RevokeDocOf(m)]).body = "notice" /\ Placeholder.body = "empty"
  BY <1>6 DEF Masked, Placeholder, ParentDoc
<1>8. QED
  BY <1>4, <1>5, <1>7

\* A revoke ends with the text hidden or its failure noted.
LEMMA RevokeHides ==
  ASSUME IInv, Hiding, NEW w \in Worker,
         Mask(w) \/ PutPlaceholder(w) \/ PlaceholderRetry(w) \/ RevokeFails(w)
  PROVE  Hiding'
<1>1. TypeOK
  BY DEF IInv
<1>2. PICK m \in Message :
        /\ at[w].event = Revoked(m)
        /\ \/ parent' = parent /\ ~Mask(w) /\ ~PutPlaceholder(w)
           \/ parent' = [parent EXCEPT ![RevokeDocOf(m)] = Masked(parent[RevokeDocOf(m)])]
           \/ parent' = [parent EXCEPT ![RevokeDocOf(m)] = Placeholder]
        /\ Masked(parent[RevokeDocOf(m)]).body = "notice" /\ Placeholder.body = "empty"
  BY RevokeWrites
<1>3. UNCHANGED <<log, next, origin, taken>> /\ failures \subseteq failures'
  BY DEF Mask, MaskWith, PutPlaceholder, PlaceholderRetry, RevokeFails, Note,
         serverVars, offsetVars, faultVars
<1>4. \A k \in Message : at[w].event = Revoked(k) => k = m
  <2>1. SUFFICES ASSUME NEW k \in Message, Revoked(k) = Revoked(m) PROVE k = m
    BY <1>2
  <2>2. Revoked(k).msg = k /\ Revoked(m).msg = m
    BY Kinds
  <2>3. QED
    BY <2>1, <2>2
<1>5. parent \in [Document -> ParentDoc] /\ RevokeDocOf(m) \in Document
  BY <1>1, ShapeType DEF TypeOK
<1>6. \A k \in Message : k # m => parent'[DocOf(k)] = parent[DocOf(k)]
  <2>1. SUFFICES ASSUME NEW k \in Message, k # m PROVE parent'[DocOf(k)] = parent[DocOf(k)]
    OBVIOUS
  <2>2. DocOf(k) # RevokeDocOf(m) /\ DocOf(k) \in Document
    BY <2>1, ShapeType DEF DocOf, RevokeDocOf
  <2>3. QED
    BY <1>2, <1>5, <2>2
<1>7. Ordered(m) => DocOf(m) = RevokeDocOf(m)
  BY DEF Ordered, DocOf, RevokeDocOf
<1>8. PICK place : at' = [at EXCEPT ![w] = place] /\ (PlaceholderRetry(w) => place.event = at[w].event)
  <2>1. CASE PlaceholderRetry(w)
    BY <2>1 DEF PlaceholderRetry, Goto, Step
  <2>2. CASE ~PlaceholderRetry(w)
    BY <2>2 DEF Mask, MaskWith, PutPlaceholder, RevokeFails, Goto
  <2>3. QED
    BY <2>1, <2>2
<1>9. RevokeFails(w) => Failed(Revoked(m))'
  <2>1. SUFFICES ASSUME RevokeFails(w) PROVE Failed(Revoked(m))'
    OBVIOUS
  <2>2. PICK f : f = [event |-> at[w].event, what |-> "revoke"]
    OBVIOUS
  <2>3. f \in failures' /\ f.event = Revoked(m)
    BY <1>2, <2>1, <2>2 DEF RevokeFails, Note
  <2>4. QED
    BY <2>3 DEF Named, Failed, Lost
<1>10. ASSUME NEW k \in Message, Ordered(k) PROVE Spares(w, k, place)
  <2>1. CASE k # m
    BY <1>4, <1>6, <2>1 DEF Spares
  <2>2. CASE k = m /\ parent' = parent /\ ~Mask(w) /\ ~PutPlaceholder(w)
    BY <1>2, <1>8, <1>9, <2>2 DEF Spares
  <2>3. CASE /\ k = m
             /\ \/ parent' = [parent EXCEPT ![RevokeDocOf(m)] = Masked(parent[RevokeDocOf(m)])]
                \/ parent' = [parent EXCEPT ![RevokeDocOf(m)] = Placeholder]
    <3>1. /\ Masked(parent[RevokeDocOf(m)]).body = "notice" /\ Placeholder.body = "empty"
      BY <1>2
    <3>2. parent'[RevokeDocOf(m)].body \in {"notice", "empty"}
      BY <1>5, <2>3, <3>1
    <3>3. QED
      BY <1>2, <1>7, <1>10, <2>3, <3>2 DEF Spares
  <2>4. QED
    BY <1>2, <2>1, <2>2, <2>3
<1>11. at' = [at EXCEPT ![w] = place]
  BY <1>8
<1>12. QED
  BY <1>3, <1>10, <1>11, HandleHides

-----------------------------------------------------------------------------
\* What is taken now is handled now, unless it is no message event.
LEMMA TakeHides ==
  ASSUME IInv, Hiding, NEW w \in Worker, NEW p \in Partition,
         TakeMessage(w, p) \/ TakeSkipped(w, p) \/ TakePoison(w, p)
  PROVE  Hiding'
<1>1. /\ at[w] = Idle /\ next' = [next EXCEPT ![p] = @ + 1] /\ next[p] \in Nat /\ TypeOK
      /\ taken' = [taken EXCEPT ![p] = IF @ <= next[p] THEN next[p] + 1 ELSE @]
      /\ UNCHANGED <<log, origin, parent, failures>>
  BY DEF TakeMessage, TakeSkipped, TakePoison, Take, Ready, serverVars, indexVars, faultVars, IInv, TypeOK
<1>2. \A q \in Partition : /\ next[q] \in Nat /\ origin[q] \in Nat /\ taken[q] \in Nat
                           /\ next'[q] = IF q = p THEN next[q] + 1 ELSE next[q]
                           /\ taken'[q] \in Nat /\ taken[q] <= taken'[q]
  BY <1>1 DEF TypeOK
<1>3. \A u \in Worker : u # w => at'[u] = at[u]
  BY <1>1 DEF TypeOK, TakeMessage, TakeSkipped, TakePoison, processVars
<1>4. \A m \in Message : at[w].event # Revoked(m)
  BY <1>1, Kinds
<1>5. \A m \in Message : RevokeMet(m) => RevokeMet(m)'
  <2>1. SUFFICES ASSUME NEW m \in Message, RevokeMet(m) PROVE RevokeMet(m)'
    OBVIOUS
  <2>2. PICK q \in Partition : q = RevokePart[m]
    BY ShapeType
  <2>3. PICK i \in 1..taken[q] : log[q][i] = Revoked(m)
    BY <2>1, <2>2 DEF RevokeMet
  <2>4. i \in 1..taken'[q]
    BY <1>2, <2>3
  <2>5. QED
    BY <1>1, <2>2, <2>3, <2>4 DEF RevokeMet
<1>6. ASSUME NEW m \in Message, RevokeConsumed(m)', ~RevokeConsumed(m) PROVE at'[w].event = Revoked(m)
  <2>1. RevokePart[m] \in Partition
    BY ShapeType
  <2>2. PICK i \in (origin[RevokePart[m]] + 1)..next'[RevokePart[m]] : log[RevokePart[m]][i] = Revoked(m)
    BY <1>1, <1>6 DEF RevokeConsumed
  <2>3. i \notin (origin[RevokePart[m]] + 1)..next[RevokePart[m]]
    BY <1>6, <2>2 DEF RevokeConsumed
  <2>4. RevokePart[m] = p /\ i = next[p] + 1
    BY <1>2, <2>1, <2>2, <2>3
  <2>5. log[p][next[p] + 1] = Revoked(m) /\ Revoked(m).kind = "revoke"
    BY <2>2, <2>4, Kinds
  <2>6. TakeMessage(w, p)
    BY <2>5 DEF TakeSkipped, TakePoison
  <2>7. PICK place : place = [step |-> "lookup", event |-> Revoked(m), n |-> 0]
    OBVIOUS
  <2>8. at' = [at EXCEPT ![w] = place] /\ place.event = Revoked(m)
    BY <2>5, <2>6, <2>7 DEF TakeMessage
  <2>9. QED
    BY <1>1, <2>8 DEF TypeOK
<1>7. RevokeOnce'
  BY <1>1 DEF Hiding, RevokeOnce, Ordered
<1>8. HiddenBehind'
  <2>1. SUFFICES ASSUME NEW m \in Message, Ordered(m), RevokeConsumed(m)', ~RevokeUnderWay(m)'
                 PROVE  Failed(Revoked(m)) \/ parent[DocOf(m)].body # "text"
    BY <1>1 DEF HiddenBehind, Ordered, Failed
  <2>2. RevokeConsumed(m)
    BY <1>6, <2>1 DEF RevokeUnderWay
  <2>3. ~RevokeUnderWay(m)
    BY <1>3, <1>4, <2>1 DEF RevokeUnderWay
  <2>4. QED
    BY <2>1, <2>2, <2>3 DEF Hiding, HiddenBehind
<1>9. MaskedByRevoke'
  BY <1>1, <1>5 DEF Hiding, MaskedByRevoke, Ordered
<1>10. QED
  BY <1>7, <1>8, <1>9 DEF Hiding

\* A new process has no revoke under way that was committed before.
LEMMA RestartHides ==
  ASSUME IInv, Hiding, NEW w \in Worker, Restart(w) PROVE Hiding'
<1>1. /\ at' = [at EXCEPT ![w] = Idle]
      /\ next' = [p \in Partition |-> IF Owner[p] = w THEN ResumeAt(p) ELSE next[p]]
      /\ origin' = [p \in Partition |-> IF Owner[p] = w /\ committed[p] = NoOffset
                                        THEN Len(log[p]) ELSE origin[p]]
      /\ UNCHANGED <<log, taken, parent, failures>> /\ at \in [Worker -> Place]
  BY DEF Restart, RestartAt, serverVars, indexVars, IInv, TypeOK
<1>2. \A q \in Partition :
        /\ next[q] \in Nat /\ origin[q] \in Nat /\ Len(log[q]) \in Nat
        /\ committed[q] <= next[q] /\ next[q] <= Len(log[q])
        /\ \/ Owner[q] # w /\ next'[q] = next[q] /\ origin'[q] = origin[q]
           \/ next'[q] = origin'[q] /\ origin'[q] \in Nat
           \/ /\ Owner[q] = w /\ committed[q] \in Nat
              /\ next'[q] = committed[q] /\ origin'[q] = origin[q]
  BY <1>1, OffsetFacts DEF ResumeAt, NoOffset
<1>3. RevokeOnce'
  BY <1>1 DEF Hiding, RevokeOnce, Ordered
<1>4. MaskedByRevoke'
  <2>1. \A m \in Message : RevokeMet(m)' <=> RevokeMet(m)
    BY <1>1 DEF RevokeMet
  <2>2. QED
    BY <1>1, <2>1 DEF Hiding, MaskedByRevoke, Ordered
<1>5. HiddenBehind'
  <2>1. SUFFICES ASSUME NEW m \in Message, Ordered(m), RevokeConsumed(m)', ~RevokeUnderWay(m)'
                 PROVE  Failed(Revoked(m)) \/ parent[DocOf(m)].body # "text"
    BY <1>1 DEF HiddenBehind, Ordered, Failed
  <2>2. PICK p \in Partition : p = RevokePart[m]
    BY ShapeType
  <2>3. PICK i \in (origin'[p] + 1)..next'[p] : log[p][i] = Revoked(m)
    BY <1>1, <2>1, <2>2 DEF RevokeConsumed
  <2>4. /\ i \in (origin[p] + 1)..next[p] /\ i \in 1..Len(log[p])
        /\ Owner[p] # w \/ i <= committed[p]
    BY <1>2, <2>3
  <2>5. ~RevokeUnderWay(m)
    <3>1. SUFFICES ASSUME NEW u \in Worker, at[u].event = Revoked(m) PROVE FALSE
      BY DEF RevokeUnderWay
    <3>2. u = w
      BY <1>1, <2>1, <3>1 DEF RevokeUnderWay
    <3>3. /\ w = Owner[p] /\ committed[p] < next[p] /\ log[p][next[p]] = Revoked(m)
          /\ next[p] \in 1..Len(log[p])
      BY <2>2, <3>1, <3>2, OneRevoker DEF Hiding
    <3>4. i = next[p]
      BY <2>3, <2>4, <3>3 DEF Hiding, RevokeOnce
    <3>5. QED
      BY <1>2, <2>4, <3>3, <3>4
  <2>6. RevokeConsumed(m)
    BY <2>2, <2>3, <2>4 DEF RevokeConsumed
  <2>7. QED
    BY <2>1, <2>5, <2>6 DEF Hiding, HiddenBehind
<1>6. QED
  BY <1>3, <1>4, <1>5 DEF Hiding

LEMMA NextHides == IInv /\ Hiding /\ [Next]_vars => Hiding'
<1> SUFFICES ASSUME IInv, Hiding, [Next]_vars PROVE Hiding'
  OBVIOUS
<1>1. CASE UNCHANGED vars
  BY <1>1, FrameHides DEF vars, serverVars, offsetVars, processVars, indexVars, faultVars
<1>2. ASSUME NEW w \in Worker, ConnectRaises(w) \/ Drop(w) PROVE Hiding'
  BY <1>2, FrameHides DEF ConnectRaises, Drop, serverVars, offsetVars, indexVars
<1>3. ASSUME NEW w \in Worker, NEW p \in Partition, Commit(w, p) PROVE Hiding'
  BY <1>3, FrameHides DEF Commit, serverVars, processVars, indexVars, faultVars
<1>4. ASSUME NEW w \in Worker, TakeNext(w) PROVE Hiding'
  BY <1>4, TakeHides DEF TakeNext
<1>5. ASSUME NEW w \in Worker, Continue(w) PROVE Hiding'
  BY <1>5, QuietHides, ParentHides, RevokeHides DEF Continue
<1>6. ASSUME NEW w \in Worker, Fails(w) PROVE Hiding'
  BY <1>2, <1>6, QuietHides, ParentHides, RevokeHides DEF Fails
<1>7. QED
  BY <1>1, <1>3, <1>4, <1>5, <1>6, ServerHides, RestartHides DEF Next

LEMMA AlwaysHides == Spec => []Hiding
<1>1. Init => RevokeOnce
  BY DEF Init, RevokeOnce
<1>2. Init => HiddenBehind
  <2>1. SUFFICES ASSUME Init, NEW m \in Message PROVE ~RevokeConsumed(m)
    BY DEF HiddenBehind
  <2>2. RevokePart[m] \in Partition
    BY ShapeType
  <2>3. QED
    BY <2>1, <2>2 DEF Init, RevokeConsumed
<1>3. Init => MaskedByRevoke
  BY ShapeType DEF Init, MaskedByRevoke, Absent
<1>4. QED
  BY <1>1, <1>2, <1>3, AlwaysIInv, NextHides, PTL DEF Spec, Hiding

\* For any number of faults and restarts, once the revoke of a message is
\* committed and none of its requests failed, the text is out of reach of searches.
THEOREM RevokesHold == Spec => []RevokedStaysHidden
<1>1. IInv /\ Hiding => RevokedStaysHidden
  <2>1. SUFFICES ASSUME IInv, Hiding, NEW m \in Message,
                        Ordered(m), Committed(Revoked(m)), ~Failed(Revoked(m))
                 PROVE  parent[DocOf(m)].body # "text"
    BY DEF RevokedStaysHidden
  <2>2. PICK p \in Partition : \E i \in (origin[p] + 1)..committed[p] : log[p][i] = Revoked(m)
    BY <2>1 DEF Committed
  <2>3. PICK i \in (origin[p] + 1)..committed[p] : log[p][i] = Revoked(m)
    BY <2>2
  <2>4. /\ next[p] \in Nat /\ i \in (origin[p] + 1)..next[p] /\ i \in 1..Len(log[p])
        /\ committed[p] \in Nat
    BY <2>1, <2>3, OffsetFacts
  <2>5. p = RevokePart[m] /\ \A j \in 1..Len(log[p]) : log[p][j] = Revoked(m) => i = j
    BY <2>1, <2>3, <2>4 DEF Hiding, RevokeOnce
  <2>6. ~RevokeUnderWay(m)
    <3>1. SUFFICES ASSUME NEW u \in Worker, at[u].event = Revoked(m) PROVE FALSE
      BY DEF RevokeUnderWay
    <3>2. /\ committed[p] < next[p] /\ log[p][next[p]] = Revoked(m)
          /\ next[p] \in 1..Len(log[p])
      BY <2>1, <2>5, <3>1, OneRevoker DEF Hiding
    <3>3. QED
      BY <2>3, <2>4, <2>5, <3>2
  <2>7. QED
    BY <2>1, <2>3, <2>4, <2>5, <2>6 DEF Hiding, HiddenBehind, RevokeConsumed
<1>2. QED
  BY <1>1, AlwaysIInv, AlwaysHides, PTL

\* A document becomes searchable by the hand of its message's handler only.
LEMMA OnlyHandlerShows ==
  ASSUME IInv, [Next]_vars, NEW m \in Message,
         parent[DocOf(m)].body # "text", parent'[DocOf(m)].body = "text"
  PROVE  \E w \in Worker : at[w].event = Said(m)
<1>1. parent \in [Document -> ParentDoc] /\ DocOf(m) \in Document /\ parent' # parent
  BY ShapeType DEF IInv, TypeOK
<1>2. PICK w \in Worker :
        \/ WriteParent(w) \/ ParentFails(w)
        \/ Mask(w) \/ PutPlaceholder(w) \/ PlaceholderRetry(w) \/ RevokeFails(w)
  <2>1. CASE Server \/ UNCHANGED vars
    BY <1>1, <2>1 DEF Server, Store, Say, Revoke, SendStray, Send, indexVars, vars
  <2>2. ASSUME NEW u \in Worker, TakeNext(u) PROVE FALSE
    BY <1>1, <2>2 DEF TakeNext, TakeMessage, TakeSkipped, TakePoison, indexVars
  <2>3. ASSUME NEW u \in Worker, NEW p \in Partition, Commit(u, p) PROVE FALSE
    BY <1>1, <2>3 DEF Commit, indexVars
  <2>4. ASSUME NEW u \in Worker, Restart(u) PROVE FALSE
    BY <1>1, <2>4 DEF Restart, RestartAt, indexVars
  <2>5. ASSUME NEW u \in Worker,
               \/ Found(u) \/ NotFoundYet(u) \/ NeverFound(u) \/ LookupRaises(u) \/ Connect(u)
               \/ Exists(u) \/ WriteObject(u) \/ WriteExtend(u)
               \/ ConnectRaises(u) \/ ObjectFails(u) \/ ExtendFails(u) \/ Drop(u)
        PROVE  FALSE
    BY <1>1, <2>5 DEF Found, NotFoundYet, NeverFound, LookupRaises, Connect, Exists, WriteObject,
       WriteExtend, ConnectRaises, ObjectFails, ExtendFails, Drop, indexVars
  <2>6. QED
    BY <2>1, <2>2, <2>3, <2>4, <2>5 DEF Next, Continue, Fails
<1>3. CASE WriteParent(w) \/ ParentFails(w)
  <2>1. PICK k \in Message : k = Msg(w) /\ at[w].event = Said(k)
    BY <1>3, HandlesMessage DEF WriteParent, ParentFails, At
  <2>2. parent' = [parent EXCEPT ![DocOf(k)] = Live]
    BY <1>1, <1>3, <2>1 DEF WriteParent, ParentFails
  <2>3. DocOf(k) = DocOf(m)
    BY <1>1, <2>2
  <2>4. QED
    BY <2>1, <2>3 DEF DocOf
<1>4. CASE Mask(w) \/ PutPlaceholder(w) \/ PlaceholderRetry(w) \/ RevokeFails(w)
  <2>1. PICK k \in Message :
           /\ \/ parent' = parent /\ ~Mask(w) /\ ~PutPlaceholder(w)
              \/ parent' = [parent EXCEPT ![RevokeDocOf(k)] = Masked(parent[RevokeDocOf(k)])]
              \/ parent' = [parent EXCEPT ![RevokeDocOf(k)] = Placeholder]
           /\ Masked(parent[RevokeDocOf(k)]).body = "notice" /\ Placeholder.body = "empty"
    BY <1>4, RevokeWrites
  <2>2. QED
    BY <1>1, <2>1
<1>5. QED
  BY <1>2, <1>3, <1>4

\* Of messages and revokes that share a partition, a hidden one is shown again
\* only by handling it anew when its revoke had been taken before.
THEOREM HiddenUntilReplay == Spec => OnlyReplayUnmasks
<1>1. ASSUME IInv, Hiding, [Next]_vars, NEW m \in Message, Ordered(m),
             parent[DocOf(m)].body \in {"notice", "empty"}, parent'[DocOf(m)].body = "text"
      PROVE  Replaying(m)
  <2>1. RevokeMet(m)
    BY <1>1 DEF Hiding, MaskedByRevoke
  <2>2. PICK w \in Worker : at[w].event = Said(m)
    BY <1>1, OnlyHandlerShows
  <2>3. next[ChatPart[m]] < taken[ChatPart[m]]
    BY <1>1, <2>1, <2>2, RevokeIsBehind DEF Hiding
  <2>4. w = Owner[ChatPart[m]]
    BY <1>1, <2>2, OneHandler
  <2>5. QED
    BY <2>2, <2>3, <2>4 DEF Replaying
<1>2. IInv /\ Hiding /\ [Next]_vars =>
        [\A m \in Message :
           /\ Ordered(m)
           /\ parent[DocOf(m)].body \in {"notice", "empty"}
           /\ parent'[DocOf(m)].body = "text"
           => Replaying(m)]_vars
  BY <1>1
<1>3. QED
  BY <1>2, AlwaysIInv, AlwaysHides, PTL DEF Spec, OnlyReplayUnmasks
=============================================================================
