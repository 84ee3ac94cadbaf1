------------------------- MODULE RecentContactsProofs -------------------------
(***************************************************************************)
(* Theorems about RecentContacts: for every set of users, rooms and events, *)
(* every buffer size and any number of faults, the Redis lists are well     *)
(* typed, have no duplicates and stay within the bound of BoundedLists, the  *)
(* two sides of a conversation count alike, and no counter counts too little *)
(* or too much.  RecentContacts implements RecencyView: a reader of the first*)
(* MAX_BUFFER contacts of a list sees it whole or, while it is rewritten,     *)
(* empty; it comes back with one contact moved to the head, and a fault       *)
(* costs at most that list.  A consumer that caught up leaves every list in   *)
(* the order of last messages, unless a process began behind events that      *)
(* nobody handled, and, without faults, with nobody missing who belongs in   *)
(* it.                                                                       *)
(***************************************************************************)
EXTENDS RecentContacts, ListProofs

\* The events waiting in a topic, and the work under way for one, are the topic's.
OwnTopic ==
  \A t \in Topic :
    /\ \A i \in 1..Len(log[t]) : TopicOf(log[t][i]) = t
    /\ \A i \in 1..Len(jobs[t]) : jobs[t][i].key[1] = t

\* A consumer past LRANGE is in the middle of a list job; after DELETE and
\* until LPUSH the list it rewrites is empty.
InMiddle ==
  \A t \in Topic :
    /\ step[t] # "lrange" => jobs[t] # <<>> /\ Head(jobs[t]).op = "touch"
    /\ AtCommand(t, "lpush") => recent[Head(jobs[t]).key] = <<>>

\* What a consumer read has no duplicates and is as bounded as the lists.
SoundRead ==
  \A t \in Topic :
    /\ IsInjective(contacts[t])
    /\ Len(contacts[t]) <= MaxBuffer + failures + deaths

IInv == TypeOK /\ OwnTopic /\ InMiddle /\ SoundRead /\ NoDuplicates /\ BoundedLists

-----------------------------------------------------------------------------
\* The work of an event is a sequence of jobs on keys of the event's topic.
LEMMA JobsOfType ==
  ASSUME NEW e \in Event
  PROVE  /\ TopicOf(e) \in Topic
         /\ JobsOf(e) \in Seq(Job)
         /\ \A i \in 1..Len(JobsOf(e)) : JobsOf(e)[i].key[1] = TopicOf(e)
<1>1. e \in ChatEvent \/ e \in GroupEvent \/ e \in StrayEvent
  BY EventAssumption
<1>2. CASE e \in StrayEvent
  <2>1. e.kind \in {"skipped", "undecodable"} /\ e.topic \in Topic
    BY <1>2 DEF StrayEvent
  <2>2. JobsOf(e) = <<>> /\ TopicOf(e) = e.topic
    BY <2>1 DEF JobsOf, Accepted, TopicOf
  <2>3. QED
    BY <2>1, <2>2
<1>3. CASE e \in ChatEvent
  <2>1. e.kind = "chat" /\ e.from \in User /\ e.to \in User
    BY <1>3 DEF ChatEvent
  <2>2. TopicOf(e) = "single" /\ "single" \in Topic
    BY <2>1 DEF TopicOf, Topic
  <2>3. /\ ChatJobs(e) \in Seq(Job)
        /\ \A i \in 1..Len(ChatJobs(e)) : ChatJobs(e)[i].key[1] = "single"
    BY <2>1 DEF ChatJobs, Touch, Count, Job, ListKey, Topic, Contact
  <2>4. JobsOf(e) = <<>> \/ JobsOf(e) = ChatJobs(e)
    BY <2>1 DEF JobsOf
  <2>5. CASE JobsOf(e) = <<>>
    BY <2>2, <2>5
  <2>6. CASE JobsOf(e) = ChatJobs(e)
    BY <2>2, <2>3, <2>6
  <2>7. QED
    BY <2>4, <2>5, <2>6
<1>4. CASE e \in GroupEvent
  <2>1. e.kind = "groupchat" /\ e.from \in User /\ e.users \in Seq(User) /\ e.room \in Room
    BY <1>4 DEF GroupEvent
  <2>2. TopicOf(e) = "muc" /\ "muc" \in Topic
    BY <2>1 DEF TopicOf, Topic
  <2> DEFINE touches == [i \in 1..Len(e.users) |-> Touch("muc", e.users[i], e.room)]
             last == Count("muc", e.from, e.room)
  <2>3. /\ touches \in Seq(Job)
        /\ \A i \in 1..Len(touches) : touches[i].key[1] = "muc"
    BY <2>1 DEF Touch, Job, ListKey, Topic, Contact
  <2>4. last \in Job /\ last.key[1] = "muc"
    BY <2>1 DEF Count, Job, ListKey, Topic, Contact
  <2>5. GroupJobs(e) = Append(touches, last)
    BY DEF GroupJobs
  <2> HIDE DEF touches, last
  <2>6. /\ GroupJobs(e) \in Seq(Job)
        /\ \A i \in 1..Len(GroupJobs(e)) : GroupJobs(e)[i].key[1] = "muc"
    BY <2>3, <2>4, <2>5, AppendProperties
  <2>7. JobsOf(e) = <<>> \/ JobsOf(e) = GroupJobs(e)
    BY <2>1 DEF JobsOf
  <2>8. CASE JobsOf(e) = <<>>
    BY <2>2, <2>8
  <2>9. CASE JobsOf(e) = GroupJobs(e)
    BY <2>2, <2>6, <2>9
  <2>10. QED
    BY <2>7, <2>8, <2>9
<1>5. QED
  BY <1>1, <1>2, <1>3, <1>4

-----------------------------------------------------------------------------
\* The job at the head of a topic and what is left after it.
LEMMA HeadJob ==
  ASSUME TypeOK, OwnTopic, NEW t \in Topic, jobs[t] # <<>>
  PROVE  /\ Head(jobs[t]) \in Job
         /\ Head(jobs[t]).key \in ListKey
         /\ Head(jobs[t]).key[1] = t
         /\ Head(jobs[t]).value \in Contact
         /\ Tail(jobs[t]) \in Seq(Job)
         /\ \A i \in 1..Len(Tail(jobs[t])) : Tail(jobs[t])[i].key[1] = t
<1>1. jobs[t] \in Seq(Job)
  BY DEF TypeOK
<1>2. /\ Head(jobs[t]) \in Job
      /\ Head(jobs[t]) = jobs[t][1]
      /\ 1 \in 1..Len(jobs[t])
      /\ Tail(jobs[t]) \in Seq(Job)
      /\ Len(Tail(jobs[t])) = Len(jobs[t]) - 1
      /\ \A i \in 1..Len(Tail(jobs[t])) : Tail(jobs[t])[i] = jobs[t][i + 1]
  BY <1>1
<1>3. \A i \in 1..Len(jobs[t]) : jobs[t][i].key[1] = t
  BY DEF OwnTopic
<1>4. \A i \in 1..Len(Tail(jobs[t])) : i + 1 \in 1..Len(jobs[t])
  BY <1>1, <1>2
<1>5. QED
  BY <1>2, <1>3, <1>4 DEF Job

LEMMA InitIInv == Init => IInv
<1> SUFFICES ASSUME Init PROVE IInv
  OBVIOUS
<1> USE DEF Init
<1>1. TypeOK
  <2>1. up \in BOOLEAN /\ missed \in BOOLEAN
    OBVIOUS
  <2>2. committed \in [Topic -> Nat \cup {NoOffset}]
    OBVIOUS
  <2>3. trace \in [ListKey -> [Contact -> Nat]]
    OBVIOUS
  <2>4. QED
    BY <2>1, <2>2, <2>3 DEF TypeOK
<1>2. OwnTopic /\ InMiddle
  BY DEF OwnTopic, InMiddle, AtCommand
<1>3. SoundRead /\ NoDuplicates /\ BoundedLists
  BY BufferAssumption DEF SoundRead, NoDuplicates, BoundedLists, IsInjective
<1>4. QED
  BY <1>1, <1>2, <1>3 DEF IInv

LEMMA PublishIInv ==
  ASSUME IInv, NEW e \in Event, Publish(e)
  PROVE  IInv'
<1>1. TopicOf(e) \in Topic
  BY JobsOfType
<1>2. TypeOK'
  BY <1>1 DEF IInv, TypeOK, Publish, processVars, consumerVars, redisVars, faultVars
<1>3. OwnTopic'
  <2>1. UNCHANGED jobs /\ log' = [log EXCEPT ![TopicOf(e)] = Append(log[TopicOf(e)], e)]
    BY DEF Publish, consumerVars
  <2>2. ASSUME NEW u \in Topic, NEW i \in 1..Len(log'[u])
        PROVE  TopicOf(log'[u][i]) = u
    <3>1. CASE u = TopicOf(e) /\ i = Len(log[u]) + 1
      BY <3>1, <2>1 DEF IInv, TypeOK
    <3>2. CASE ~(u = TopicOf(e) /\ i = Len(log[u]) + 1)
      <4>1. i \in 1..Len(log[u]) /\ log'[u][i] = log[u][i]
        BY <3>2, <2>1, <1>1 DEF IInv, TypeOK
      <4>2. QED
        BY <4>1 DEF IInv, OwnTopic
    <3>3. QED
      BY <3>1, <3>2
  <2>3. QED
    BY <2>1, <2>2 DEF IInv, OwnTopic
<1>4. InMiddle' /\ SoundRead' /\ NoDuplicates' /\ BoundedLists'
  BY DEF IInv, InMiddle, SoundRead, NoDuplicates, BoundedLists, AtCommand, Trimming,
         Publish, processVars, consumerVars, redisVars, faultVars
<1>5. QED
  BY <1>2, <1>3, <1>4 DEF IInv

LEMMA PollIInv ==
  ASSUME IInv, NEW t \in Topic, Poll(t)
  PROVE  IInv'
<1> DEFINE e == log[t][next[t] + 1]
<1>1. e \in Event /\ TopicOf(e) = t
  <2>1. next[t] \in Nat /\ log[t] \in Seq(Event) /\ next[t] < Len(log[t])
    BY DEF IInv, TypeOK, Poll
  <2>2. next[t] + 1 \in 1..Len(log[t])
    BY <2>1
  <2>3. QED
    BY <2>1, <2>2 DEF IInv, OwnTopic
<1>2. JobsOf(e) \in Seq(Job) /\ \A i \in 1..Len(JobsOf(e)) : JobsOf(e)[i].key[1] = t
  BY <1>1, JobsOfType
<1>3. jobs' = [jobs EXCEPT ![t] = JobsOf(e)]
  BY DEF Poll
<1> HIDE DEF e
<1>4. TypeOK'
  BY <1>2, <1>3 DEF IInv, TypeOK, Poll, processVars, redisVars, faultVars
<1>5. OwnTopic'
  BY <1>2, <1>3 DEF IInv, TypeOK, OwnTopic, Poll
<1>6. step[t] = "lrange"
  BY DEF IInv, InMiddle, Poll, Idle
<1>7. InMiddle'
  BY <1>3, <1>6 DEF IInv, TypeOK, InMiddle, AtCommand, Poll, redisVars
<1>8. BoundedLists'
  BY <1>3, <1>6 DEF IInv, TypeOK, BoundedLists, AtCommand, Trimming, Poll, processVars, redisVars, faultVars,
     ListKey
<1>9. SoundRead' /\ NoDuplicates'
  BY DEF IInv, SoundRead, NoDuplicates, Poll, processVars, redisVars, faultVars
<1>10. QED
  BY <1>4, <1>5, <1>7, <1>8, <1>9 DEF IInv

LEMMA CommitIInv ==
  ASSUME IInv, Commit
  PROVE  IInv'
<1>1. TypeOK'
  BY DEF IInv, TypeOK, Commit, processVars, redisVars, faultVars
<1>2. OwnTopic' /\ InMiddle' /\ SoundRead' /\ NoDuplicates' /\ BoundedLists'
  BY DEF IInv, OwnTopic, InMiddle, SoundRead, NoDuplicates, BoundedLists, AtCommand, Trimming,
         Commit, processVars, redisVars, faultVars
<1>3. QED
  BY <1>1, <1>2 DEF IInv

LEMMA LrangeIInv ==
  ASSUME IInv, NEW t \in Topic, Lrange(t)
  PROVE  IInv'
<1> DEFINE k == Head(jobs[t]).key
<1>1. k \in ListKey /\ jobs[t] # <<>> /\ Head(jobs[t]).op = "touch" /\ step[t] = "lrange"
  BY HeadJob DEF IInv, Lrange, AtCommand
<1>2. contacts' = [contacts EXCEPT ![t] = recent[k]] /\ step' = [step EXCEPT ![t] = "delete"]
  BY DEF Lrange
<1>3. UNCHANGED <<log, up, missed, next, committed, jobs, recent, trace, failures, deaths>>
  BY DEF Lrange, processVars, redisVars, faultVars
<1>4. k[1] = t
  BY <1>1, HeadJob DEF IInv
<1> HIDE DEF k
<1>5. TypeOK'
  BY <1>1, <1>2, <1>3 DEF IInv, TypeOK
<1>6. OwnTopic' /\ InMiddle'
  BY <1>1, <1>2, <1>3 DEF IInv, TypeOK, OwnTopic, InMiddle, AtCommand
<1>7. IsInjective(recent[k]) /\ Len(recent[k]) <= MaxBuffer + failures + deaths
  <2>1. ~Trimming(k)
    BY <1>1, <1>4 DEF Trimming, AtCommand
  <2>2. Len(recent[k]) <= MaxBuffer + failures + deaths + 0
    BY <1>1, <2>1 DEF IInv, BoundedLists
  <2>3. QED
    BY <1>1, <2>2, BufferAssumption DEF IInv, TypeOK, NoDuplicates
<1>8. SoundRead'
  BY <1>2, <1>3, <1>7 DEF IInv, TypeOK, SoundRead
<1>9. NoDuplicates' /\ BoundedLists'
  BY <1>1, <1>2, <1>3 DEF IInv, TypeOK, NoDuplicates, BoundedLists, Trimming, AtCommand, ListKey
<1>10. QED
  BY <1>5, <1>6, <1>8, <1>9 DEF IInv

LEMMA DeleteIInv ==
  ASSUME IInv, NEW t \in Topic, Delete(t)
  PROVE  IInv'
<1> DEFINE k == Head(jobs[t]).key
<1>1. k \in ListKey /\ jobs[t] # <<>> /\ Head(jobs[t]).op = "touch" /\ step[t] = "delete"
  BY HeadJob DEF IInv, Delete, AtCommand
<1>2. recent' = [recent EXCEPT ![k] = <<>>] /\ step' = [step EXCEPT ![t] = "lpush"]
  BY DEF Delete
<1>3. UNCHANGED <<log, up, missed, next, committed, jobs, contacts, trace, failures, deaths>>
  BY DEF Delete, processVars, faultVars
<1>4. \A u \in Topic : Head(jobs[u]).key = k /\ jobs[u] # <<>> => u = t
  BY <1>1, HeadJob DEF IInv
<1>5. Head(jobs[t]).key = k
  OBVIOUS
<1> HIDE DEF k
<1>6. TypeOK'
  BY <1>1, <1>2, <1>3 DEF IInv, TypeOK
<1>7. OwnTopic'
  BY <1>3 DEF IInv, OwnTopic
<1>8. InMiddle'
  BY <1>1, <1>2, <1>3, <1>5, HeadJob DEF IInv, TypeOK, InMiddle, AtCommand
<1>9. SoundRead'
  BY <1>3 DEF IInv, SoundRead
<1>10. NoDuplicates'
  BY <1>2 DEF IInv, TypeOK, NoDuplicates, IsInjective
<1>11. BoundedLists'
  <2> SUFFICES ASSUME NEW l \in ListKey
               PROVE  Len(recent'[l]) <= MaxBuffer + failures' + deaths'
                                         + (IF Trimming(l)' THEN 1 ELSE 0)
    BY DEF BoundedLists
  <2>1. CASE l = k
    BY <2>1, <1>2, <1>3, BufferAssumption DEF IInv, TypeOK
  <2>2. CASE l # k
    <3>1. recent'[l] = recent[l]
      BY <2>2, <1>2 DEF IInv, TypeOK
    <3>2. Trimming(l)' = Trimming(l)
      BY <2>2, <1>1, <1>2, <1>3, <1>5 DEF IInv, TypeOK, Trimming, AtCommand, ListKey
    <3>3. QED
      BY <3>1, <3>2, <1>3 DEF IInv, BoundedLists
  <2>3. QED
    BY <2>1, <2>2
<1>12. QED
  BY <1>6, <1>7, <1>8, <1>9, <1>10, <1>11 DEF IInv

\* LPUSH finds the list it deleted still empty: one consumer owns the topic.
LEMMA LpushIInv ==
  ASSUME IInv, NEW t \in Topic, Lpush(t)
  PROVE  IInv'
<1> DEFINE k == Head(jobs[t]).key
           moved == MoveToFront(contacts[t], Head(jobs[t]).value)
<1>1. /\ k \in ListKey
      /\ jobs[t] # <<>> /\ Head(jobs[t]).op = "touch" /\ step[t] = "lpush"
      /\ Head(jobs[t]).value \in Contact
  BY HeadJob DEF IInv, Lpush, PushBack, AtCommand
<1>2. recent[k] = <<>>
  BY <1>1 DEF IInv, InMiddle, AtCommand
<1>3. recent' = [recent EXCEPT ![k] = moved] /\ step' = [step EXCEPT ![t] = "ltrim"]
  BY <1>2 DEF Lpush, PushBack, MoveToFront
<1>4. UNCHANGED <<log, up, missed, next, committed, jobs, contacts, trace, failures, deaths>>
  BY DEF Lpush, PushBack, processVars, faultVars
<1>5. Head(jobs[t]).key = k /\ k[1] = t
  BY <1>1, HeadJob DEF IInv
<1>6. /\ moved \in Seq(Contact)
      /\ IsInjective(moved)
      /\ Len(moved) <= Len(contacts[t]) + 1
  BY <1>1, MoveToFrontProperties DEF IInv, TypeOK, SoundRead
<1> HIDE DEF k, moved
<1>7. TypeOK'
  BY <1>3, <1>4, <1>6 DEF IInv, TypeOK
<1>8. OwnTopic' /\ SoundRead'
  BY <1>4 DEF IInv, OwnTopic, SoundRead
<1>9. InMiddle'
  <2> SUFFICES ASSUME NEW u \in Topic
               PROVE  /\ step'[u] # "lrange" => jobs'[u] # <<>> /\ Head(jobs'[u]).op = "touch"
                      /\ AtCommand(u, "lpush")' => recent'[Head(jobs'[u]).key] = <<>>
    BY DEF InMiddle
  <2>1. CASE u = t
    BY <2>1, <1>1, <1>3, <1>4 DEF IInv, TypeOK, AtCommand
  <2>2. CASE u # t
    <3>1. step'[u] = step[u] /\ jobs'[u] = jobs[u] /\ AtCommand(u, "lpush")' = AtCommand(u, "lpush")
      BY <2>2, <1>3, <1>4 DEF IInv, TypeOK, AtCommand
    <3>2. jobs[u] # <<>> => Head(jobs[u]).key \in ListKey /\ Head(jobs[u]).key # k
      BY <2>2, <1>5, HeadJob DEF IInv
    <3>3. QED
      BY <3>1, <3>2, <1>3 DEF IInv, TypeOK, InMiddle, AtCommand
  <2>3. QED
    BY <2>1, <2>2
<1>10. NoDuplicates'
  BY <1>3, <1>6 DEF IInv, TypeOK, NoDuplicates
<1>11. BoundedLists'
  <2> SUFFICES ASSUME NEW l \in ListKey
               PROVE  Len(recent'[l]) <= MaxBuffer + failures' + deaths'
                                         + (IF Trimming(l)' THEN 1 ELSE 0)
    BY DEF BoundedLists
  <2>1. CASE l = k
    <3>1. Trimming(l)'
      BY <2>1, <1>1, <1>3, <1>4, <1>5 DEF IInv, TypeOK, Trimming, AtCommand
    <3>2. Len(moved) <= MaxBuffer + failures + deaths + 1
      BY <1>6, BufferAssumption DEF IInv, TypeOK, SoundRead
    <3>3. recent'[l] = moved
      BY <2>1, <1>3 DEF IInv, TypeOK
    <3>4. QED
      BY <3>1, <3>2, <3>3, <1>4
  <2>2. CASE l # k
    <3>1. recent'[l] = recent[l]
      BY <2>2, <1>3 DEF IInv, TypeOK
    <3>2. Trimming(l)' = Trimming(l)
      BY <2>2, <1>1, <1>3, <1>4, <1>5 DEF IInv, TypeOK, Trimming, AtCommand, ListKey
    <3>3. QED
      BY <3>1, <3>2, <1>4 DEF IInv, BoundedLists
  <2>3. QED
    BY <2>1, <2>2
<1>12. QED
  BY <1>7, <1>8, <1>9, <1>10, <1>11 DEF IInv

LEMMA LtrimIInv ==
  ASSUME IInv, NEW t \in Topic, Ltrim(t)
  PROVE  IInv'
<1> DEFINE k == Head(jobs[t]).key
           kept == LTrim(recent[k], MaxBuffer)
<1>1. /\ k \in ListKey /\ k[1] = t
      /\ Tail(jobs[t]) \in Seq(Job)
      /\ \A i \in 1..Len(Tail(jobs[t])) : Tail(jobs[t])[i].key[1] = t
  BY HeadJob DEF IInv, Ltrim, KeepOnly, AtCommand
<1>2. /\ recent' = [recent EXCEPT ![k] = kept]
      /\ step' = [step EXCEPT ![t] = "lrange"]
      /\ jobs' = [jobs EXCEPT ![t] = Tail(jobs[t])]
      /\ contacts' = [contacts EXCEPT ![t] = <<>>]
      /\ UNCHANGED <<log, up, missed, next, committed, trace, failures, deaths>>
  BY DEF Ltrim, KeepOnly, processVars, faultVars
<1>3. /\ kept \in Seq(Contact)
      /\ IsInjective(kept)
      /\ Len(kept) <= MaxBuffer
  BY <1>1, LTrimProperties, BufferAssumption DEF IInv, TypeOK, NoDuplicates
<1>4. \A u \in Topic : u # t /\ jobs[u] # <<>> => Head(jobs[u]).key \in ListKey
                                                  /\ Head(jobs[u]).key # k
  BY <1>1, HeadJob DEF IInv
<1> HIDE DEF k, kept
<1>5. TypeOK'
  BY <1>1, <1>2, <1>3 DEF IInv, TypeOK
<1>6. OwnTopic'
  BY <1>1, <1>2 DEF IInv, TypeOK, OwnTopic
<1>7. InMiddle'
  BY <1>2, <1>4 DEF IInv, TypeOK, InMiddle, AtCommand
<1>8. IsInjective(<<>>)
  BY DEF IsInjective
<1>9. SoundRead' /\ NoDuplicates'
  BY <1>2, <1>3, <1>8, BufferAssumption DEF IInv, TypeOK, SoundRead, NoDuplicates
<1>10. BoundedLists'
  <2> SUFFICES ASSUME NEW l \in ListKey
               PROVE  Len(recent'[l]) <= MaxBuffer + failures' + deaths'
                                         + (IF Trimming(l)' THEN 1 ELSE 0)
    BY DEF BoundedLists
  <2>1. CASE l = k
    BY <2>1, <1>2, <1>3, BufferAssumption DEF IInv, TypeOK
  <2>2. CASE l # k
    <3>1. recent'[l] = recent[l]
      BY <2>2, <1>2 DEF IInv, TypeOK
    <3>2. Trimming(l) => Trimming(l)'
      BY <2>2, <1>1, <1>2, <1>4 DEF IInv, TypeOK, Trimming, AtCommand, ListKey, k
    <3>3. QED
      BY <3>1, <3>2, <1>2, BufferAssumption DEF IInv, TypeOK, BoundedLists
  <2>3. QED
    BY <2>1, <2>2
<1>11. QED
  BY <1>5, <1>6, <1>7, <1>9, <1>10 DEF IInv

LEMMA ZincrbyIInv ==
  ASSUME IInv, NEW t \in Topic, Zincrby(t)
  PROVE  IInv'
<1> DEFINE job == Head(jobs[t])
<1>1. /\ jobs[t] # <<>> /\ job.op = "count"
      /\ job.key \in ListKey /\ job.value \in Contact
      /\ Tail(jobs[t]) \in Seq(Job)
      /\ \A i \in 1..Len(Tail(jobs[t])) : Tail(jobs[t])[i].key[1] = t
  BY HeadJob DEF IInv, Zincrby
<1>2. /\ trace' = [trace EXCEPT ![job.key][job.value] = @ + 1]
      /\ jobs' = [jobs EXCEPT ![t] = Tail(jobs[t])]
      /\ UNCHANGED <<log, up, missed, next, committed, step, contacts, recent, failures, deaths>>
  BY DEF Zincrby, processVars, faultVars
<1>3. step[t] = "lrange"
  BY <1>1 DEF IInv, InMiddle
<1>4. TypeOK'
  <2>1. trace' \in [ListKey -> [Contact -> Nat]]
    BY <1>1, <1>2 DEF IInv, TypeOK
  <2>2. QED
    BY <1>1, <1>2, <2>1 DEF IInv, TypeOK
<1>5. OwnTopic'
  BY <1>1, <1>2 DEF IInv, TypeOK, OwnTopic
<1>6. InMiddle'
  BY <1>2, <1>3 DEF IInv, TypeOK, InMiddle, AtCommand
<1>7. SoundRead' /\ NoDuplicates'
  BY <1>2 DEF IInv, SoundRead, NoDuplicates
<1>8. \A l \in ListKey : Trimming(l)' = Trimming(l)
  BY <1>2, <1>3 DEF IInv, TypeOK, Trimming, AtCommand, ListKey
<1>9. BoundedLists'
  BY <1>2, <1>8 DEF IInv, BoundedLists
<1>10. QED
  BY <1>4, <1>5, <1>6, <1>7, <1>9 DEF IInv

\* What the end of the process leaves of topic t.
EndedAt(t) ==
  /\ jobs'[t] = <<>> /\ step'[t] = "lrange" /\ contacts'[t] = <<>>
  /\ next'[t] = IF committed[t] = NoOffset THEN next[t] ELSE committed[t]
  /\ ~missed' => ~missed /\ (committed[t] = NoOffset => jobs[t] = <<>>)

Ending == Die \/ \E t \in Topic : Undecodable(t)

LEMMA EndFacts ==
  ASSUME IInv, Ending
  PROVE  /\ \A t \in Topic : EndedAt(t)
         /\ UNCHANGED <<log, committed, recent, trace, failures>>
         /\ deaths' = deaths + 1 /\ deaths' \in Nat /\ up' = FALSE /\ missed' \in BOOLEAN
         /\ next' \in [Topic -> Nat] /\ jobs' \in [Topic -> Seq(Job)]
         /\ step' \in [Topic -> {"lrange"}] /\ contacts' \in [Topic -> Seq(Contact)]
<1>1. End(Resume)
  BY DEF Ending, Die, Undecodable
<1>2. /\ UNCHANGED <<log, committed, recent, trace, failures>>
      /\ up' = FALSE /\ deaths' = deaths + 1 /\ next' = Resume
      /\ missed' = (missed \/ \E t \in Topic : committed[t] = NoOffset /\ jobs[t] # <<>>)
      /\ jobs' = [t \in Topic |-> <<>>] /\ step' = [t \in Topic |-> "lrange"]
      /\ contacts' = [t \in Topic |-> <<>>]
  BY <1>1 DEF End, redisVars
<1>3. deaths' \in Nat /\ missed' \in BOOLEAN
  BY <1>2 DEF IInv, TypeOK
<1>4. next' \in [Topic -> Nat]
  BY <1>2 DEF IInv, TypeOK, Resume
<1>5. ASSUME NEW t \in Topic PROVE EndedAt(t)
  BY <1>2 DEF EndedAt, Resume
<1>6. <<>> \in Seq(Job) /\ <<>> \in Seq(Contact)
  OBVIOUS
<1>7. jobs' \in [Topic -> Seq(Job)] /\ contacts' \in [Topic -> Seq(Contact)]
  BY <1>2, <1>6, Zenon
<1>8. QED
  BY <1>2, <1>3, <1>4, <1>5, <1>7

\* An abandoned event leaves its list as it is: one more allowed element
\* replaces the one that was about to be trimmed.
LEMMA AbandonIInv ==
  ASSUME IInv, Ending \/ \E t \in Topic : Fail(t)
  PROVE  IInv'
<1>1. /\ UNCHANGED <<log, committed, recent, trace>>
      /\ \A u \in Topic :
           /\ \/ jobs'[u] = <<>> /\ step'[u] = "lrange"
              \/ jobs'[u] = jobs[u] /\ step'[u] = step[u]
           /\ contacts'[u] = <<>> \/ contacts'[u] = contacts[u]
  <2>1. CASE Ending
    BY <2>1, EndFacts DEF EndedAt
  <2>2. CASE \E t \in Topic : Fail(t)
    BY <2>2 DEF Fail, IInv, TypeOK, redisVars
  <2>3. QED
    BY <2>1, <2>2
<1>2. /\ failures' \in Nat /\ deaths' \in Nat
      /\ failures \in Nat /\ deaths \in Nat
      /\ \/ failures' = failures + 1 /\ deaths' = deaths
         \/ failures' = failures /\ deaths' = deaths + 1
  <2>1. failures \in Nat /\ deaths \in Nat
    BY DEF IInv, TypeOK
  <2>2. CASE \E t \in Topic : Fail(t)
    BY <2>1, <2>2 DEF Fail
  <2>3. CASE Ending
    BY <2>1, <2>3, EndFacts
  <2>4. QED
    BY <2>2, <2>3
<1>4. TypeOK'
  <2>1. CASE Ending
    <3>1. /\ jobs' \in [Topic -> Seq(Job)] /\ step' \in [Topic -> {"lrange"}]
          /\ contacts' \in [Topic -> Seq(Contact)] /\ next' \in [Topic -> Nat]
          /\ missed' \in BOOLEAN /\ up' \in BOOLEAN
      BY <2>1, EndFacts
    <3>2. QED
      BY <1>1, <1>2, <3>1 DEF IInv, TypeOK
  <2>2. CASE \E t \in Topic : Fail(t)
    BY <1>2, <2>2 DEF Fail, IInv, TypeOK, processVars, redisVars
  <2>3. QED
    BY <2>1, <2>2
<1>5. OwnTopic' /\ InMiddle'
  BY <1>1 DEF IInv, TypeOK, OwnTopic, InMiddle, AtCommand
<1>6. IsInjective(<<>>)
  BY DEF IsInjective
<1>7. NoDuplicates' /\ SoundRead'
  <2>1. NoDuplicates'
    BY <1>1 DEF IInv, NoDuplicates
  <2>2. ASSUME NEW u \in Topic
        PROVE  IsInjective(contacts'[u]) /\ Len(contacts'[u]) <= MaxBuffer + failures' + deaths'
    <3>1. contacts'[u] = <<>> \/ contacts'[u] = contacts[u]
      BY <1>1
    <3>2. Len(contacts[u]) \in Nat /\ Len(contacts[u]) <= MaxBuffer + failures + deaths
      BY DEF IInv, TypeOK, SoundRead
    <3>3. QED
      BY <3>1, <3>2, <1>2, <1>6, BufferAssumption DEF IInv, SoundRead
  <2>3. QED
    BY <2>1, <2>2 DEF SoundRead
<1>8. BoundedLists'
  <2> SUFFICES ASSUME NEW l \in ListKey
               PROVE  Len(recent'[l]) <= MaxBuffer + failures' + deaths'
                                         + (IF Trimming(l)' THEN 1 ELSE 0)
    BY DEF BoundedLists
  <2>0. Len(recent[l]) \in Nat
    BY DEF IInv, TypeOK
  <2>1. Len(recent[l]) <= MaxBuffer + failures + deaths + 1
    BY BufferAssumption DEF IInv, TypeOK, BoundedLists
  <2>2. Len(recent[l]) <= MaxBuffer + failures' + deaths'
    <3>1. MaxBuffer \in Nat
      BY BufferAssumption
    <3>2. MaxBuffer + failures + deaths + 1 = MaxBuffer + failures' + deaths'
      <4>1. CASE failures' = failures + 1 /\ deaths' = deaths
        BY <4>1, <3>1, <1>2
      <4>2. CASE failures' = failures /\ deaths' = deaths + 1
        BY <4>2, <3>1, <1>2
      <4>3. QED
        BY <4>1, <4>2, <1>2
    <3>3. QED
      BY <2>1, <3>2
  <2>3. QED
    BY <1>1, <1>2, <2>0, <2>2, BufferAssumption
<1>9. QED
  BY <1>4, <1>5, <1>7, <1>8 DEF IInv

LEMMA StartIInv ==
  ASSUME IInv, Start
  PROVE  IInv'
<1>1. TypeOK'
  <2>1. next' \in [Topic -> Nat] /\ missed' \in BOOLEAN
    BY DEF IInv, TypeOK, Start
  <2>2. QED
    BY <2>1 DEF IInv, TypeOK, Start, redisVars, faultVars
<1>2. OwnTopic' /\ InMiddle' /\ SoundRead' /\ NoDuplicates' /\ BoundedLists'
  BY DEF IInv, OwnTopic, InMiddle, SoundRead, NoDuplicates, BoundedLists, AtCommand, Trimming,
         Start, redisVars, faultVars
<1>3. QED
  BY <1>1, <1>2 DEF IInv

LEMMA StutterIInv ==
  ASSUME IInv, UNCHANGED vars
  PROVE  IInv'
<1>1. TypeOK'
  BY DEF IInv, TypeOK, vars, processVars, consumerVars, redisVars, faultVars
<1>2. OwnTopic' /\ InMiddle' /\ SoundRead' /\ NoDuplicates' /\ BoundedLists'
  BY DEF IInv, OwnTopic, InMiddle, SoundRead, NoDuplicates, BoundedLists, AtCommand, Trimming,
         vars, processVars, consumerVars, redisVars, faultVars
<1>3. QED
  BY <1>1, <1>2 DEF IInv

-----------------------------------------------------------------------------
\* The inductive invariant behind the theorems below.
THEOREM InductiveInvariant == Spec => []IInv
<1>1. Init => IInv
  BY InitIInv
<1>2. IInv /\ [Next]_vars => IInv'
  <2> SUFFICES ASSUME IInv, [Next]_vars
               PROVE  IInv'
    OBVIOUS
  <2>1. CASE \E e \in Event : Publish(e)
    BY <2>1, PublishIInv
  <2>2. ASSUME NEW t \in Topic, Poll(t)
        PROVE  IInv'
    BY <2>2, PollIInv
  <2>3. ASSUME NEW t \in Topic, Command(t)
        PROVE  IInv'
    BY <2>3, LrangeIInv, DeleteIInv, LpushIInv, LtrimIInv, ZincrbyIInv DEF Command
  <2>4. CASE Ending \/ \E t \in Topic : Fail(t)
    BY <2>4, AbandonIInv
  <2>5. CASE Commit \/ Start \/ UNCHANGED vars
    BY <2>5, CommitIInv, StartIInv, StutterIInv
  <2>6. QED
    BY <2>1, <2>2, <2>3, <2>4, <2>5 DEF Next, Ending
<1>3. QED
  BY <1>1, <1>2, PTL DEF Spec

-----------------------------------------------------------------------------
\* One event is under way, in a running process; events are missed only after
\* a process has ended.
Running ==
  /\ ~up => Idle
  /\ \A s, t \in Topic : jobs[s] # <<>> /\ jobs[t] # <<>> => s = t
  /\ (~up \/ missed) => deaths > 0

LEMMA RunningStep ==
  ASSUME IInv, Running, [Next]_vars
  PROVE  Running'
<1> USE DEF Running, Idle
<1>1. ASSUME UNCHANGED <<up, missed, deaths>>,
             \A t \in Topic : jobs'[t] # <<>> => jobs[t] # <<>>
      PROVE  Running'
  BY <1>1
<1>2. CASE UNCHANGED vars \/ Commit \/ \E e \in Event : Publish(e)
  BY <1>1, <1>2 DEF vars, Commit, Publish, processVars, consumerVars, faultVars
<1>3. ASSUME NEW t \in Topic, Poll(t) PROVE Running'
  <2>1. /\ up /\ Idle /\ UNCHANGED <<up, missed, deaths>>
        /\ \A s \in Topic : s # t => jobs'[s] = jobs[s]
    BY <1>3 DEF Poll, processVars, faultVars, IInv, TypeOK
  <2>2. QED
    BY <2>1
<1>4. ASSUME NEW t \in Topic, Command(t) \/ Fail(t) PROVE Running'
  <2>1. UNCHANGED <<up, missed, deaths>>
    BY <1>4 DEF Command, Lrange, Delete, Lpush, PushBack, Ltrim, KeepOnly, Zincrby, Fail,
                processVars, faultVars
  <2>2. jobs[t] # <<>> /\ \A s \in Topic : s # t => jobs'[s] = jobs[s]
    BY <1>4 DEF Command, Lrange, Delete, Lpush, PushBack, Ltrim, KeepOnly, Zincrby, Fail,
                AtCommand, IInv, TypeOK
  <2>3. QED
    BY <1>1, <2>1, <2>2
<1>5. CASE Ending
  <2>1. deaths \in Nat
    BY DEF IInv, TypeOK
  <2>2. QED
    BY <1>5, <2>1, EndFacts DEF EndedAt
<1>6. CASE Start
  BY <1>6 DEF Start, faultVars
<1>7. QED
  BY <1>2, <1>3, <1>4, <1>5, <1>6 DEF Next, Ending

LEMMA RunningInvariant == Spec => []Running
<1>1. Init => Running
  BY DEF Init, Running, Idle
<1>2. QED
  BY <1>1, InductiveInvariant, RunningStep, PTL DEF Spec

-----------------------------------------------------------------------------
\* The variables keep their types: every job names a known user's key, every
\* list and counter a known contact.
THEOREM TypeCorrect == Spec => []TypeOK
<1>1. IInv => TypeOK
  BY DEF IInv
<1>2. QED
  BY <1>1, InductiveInvariant, PTL

\* However commands, failures and ends of the process follow one another, no
\* Redis list names a contact twice.
THEOREM ListsHaveNoDuplicates == Spec => []NoDuplicates
<1>1. IInv => NoDuplicates
  BY DEF IInv
<1>2. QED
  BY <1>1, InductiveInvariant, PTL

\* A list is longer than MAX_BUFFER by at most the element being trimmed and
\* one per fault, for any number of faults.
THEOREM ListsAreBounded == Spec => []BoundedLists
<1>1. IInv => BoundedLists
  BY DEF IInv
<1>2. QED
  BY <1>1, InductiveInvariant, PTL

-----------------------------------------------------------------------------
(* The two sides of a conversation                                         *)

\* What is left of the work of a chat event is an end of its four jobs.
Remains(s, e) == Len(s) <= 4 /\ \A i \in 1..Len(s) : s[i] = ChatJobs(e)[4 - Len(s) + i]
ChatShape ==
  jobs["single"] # <<>> => \E e \in ChatEvent : Remains(jobs["single"], e)

\* 1 when what is left of an event counts v's side of u and v, u's being counted.
OneSided(s, u, v) == IF Len(s) = 1 /\ s[1] = Count("single", v, u) THEN 1 ELSE 0
Apart(counts, s, faults, u, v) ==
  counts[<<"single", u>>][v] + OneSided(s, v, u)
    <= counts[<<"single", v>>][u] + faults + OneSided(s, u, v)
Sides == \A u, v \in User : Apart(trace, jobs["single"], failures + deaths, u, v)

LEMMA Counters ==
  ASSUME TypeOK, NEW u \in User, NEW v \in User
  PROVE  /\ trace[<<"single", u>>][v] \in Nat /\ trace[<<"single", v>>][u] \in Nat
         /\ failures \in Nat /\ deaths \in Nat
         /\ OneSided(jobs["single"], u, v) \in {0, 1} /\ OneSided(jobs["single"], v, u) \in {0, 1}
BY DEF TypeOK, OneSided, ListKey, Topic, Contact

\* A step that leaves the counters of chats alone and, at most, begins or
\* shortens the work of an event at a point where both sides are counted or none.
LEMMA SidesFrame ==
  ASSUME TypeOK, Sides, TypeOK', failures' = failures, deaths' = deaths,
         \A u, v \in User : trace'[<<"single", u>>][v] = trace[<<"single", u>>][v],
         \A u, v \in User : OneSided(jobs'["single"], u, v) = OneSided(jobs["single"], u, v)
  PROVE  Sides'
BY DEF Sides, Apart

LEMMA ChatEnd ==
  ASSUME TypeOK, NEW e \in ChatEvent, Remains(jobs["single"], e), jobs["single"] # <<>>
  PROVE  /\ Len(jobs["single"]) \in 1..4
         /\ Remains(Tail(jobs["single"]), e)
         /\ Len(Tail(jobs["single"])) = Len(jobs["single"]) - 1
         /\ Len(jobs["single"]) > 1 => Tail(jobs["single"])[1] = jobs["single"][2]
         /\ Head(jobs["single"]) = jobs["single"][1]
         /\ Len(jobs["single"]) = 4 => jobs["single"][1] = Touch("single", e.from, e.to)
         /\ Len(jobs["single"]) = 3 => jobs["single"][1] = Touch("single", e.to, e.from)
         /\ Len(jobs["single"]) = 2 => /\ jobs["single"][1] = Count("single", e.from, e.to)
                                       /\ jobs["single"][2] = Count("single", e.to, e.from)
         /\ Len(jobs["single"]) = 1 => jobs["single"][1] = Count("single", e.to, e.from)
<1> DEFINE s == jobs["single"]
<1>1. s \in Seq(Job)
  BY DEF TypeOK, Topic
<1> HIDE DEF s
<1>2. s # <<>> /\ Len(s) <= 4 /\ \A i \in 1..Len(s) : s[i] = ChatJobs(e)[4 - Len(s) + i]
  BY DEF s, Remains
<1>3. Len(s) \in 1..4 /\ Head(s) = s[1]
  <2>1. Len(s) \in Nat /\ Len(s) # 0
    BY <1>1, <1>2
  <2>2. Len(s) <= 4
    BY <1>2
  <2>a. Len(s) \in 1..4
    <3>1. PICK n : n = Len(s)
      OBVIOUS
    <3>2. n \in 1..4
      BY <2>1, <2>2, <3>1
    <3>3. QED
      BY <3>1, <3>2
  <2>3. QED
    BY <1>1, <2>1, <2>a
<1>4. Len(Tail(s)) = Len(s) - 1 /\ \A i \in 1..(Len(s) - 1) : Tail(s)[i] = s[i + 1]
  BY <1>1, <1>2
<1>5. \A i \in 1..(Len(s) - 1) : Tail(s)[i] = ChatJobs(e)[4 - (Len(s) - 1) + i]
  <2>1. SUFFICES ASSUME NEW i \in 1..(Len(s) - 1)
                 PROVE  Tail(s)[i] = ChatJobs(e)[4 - (Len(s) - 1) + i]
    OBVIOUS
  <2>2. i + 1 \in 1..Len(s) /\ 4 - Len(s) + (i + 1) = 4 - (Len(s) - 1) + i
    BY <1>3
  <2>3. QED
    BY <1>2, <1>4, <2>2
<1>6. Remains(Tail(s), e)
  <2>1. PICK r : r = Tail(s)
    OBVIOUS
  <2>a. Len(r) = Len(s) - 1
    BY <1>4, <2>1
  <2>2. Len(r) = Len(s) - 1 /\ Len(r) <= 4
    BY <1>3, <2>a
  <2>3. \A i \in 1..Len(r) : r[i] = ChatJobs(e)[4 - Len(r) + i]
    BY <1>5, <2>1, <2>2
  <2>4. QED
    BY <2>1, <2>2, <2>3 DEF Remains
<1>7. /\ ChatJobs(e)[1] = Touch("single", e.from, e.to) /\ ChatJobs(e)[2] = Touch("single", e.to, e.from)
      /\ ChatJobs(e)[3] = Count("single", e.from, e.to) /\ ChatJobs(e)[4] = Count("single", e.to, e.from)
  BY DEF ChatJobs
<1>8. /\ Len(s) = 4 => s[1] = Touch("single", e.from, e.to)
      /\ Len(s) = 3 => s[1] = Touch("single", e.to, e.from)
      /\ Len(s) = 2 => s[1] = Count("single", e.from, e.to) /\ s[2] = Count("single", e.to, e.from)
      /\ Len(s) = 1 => s[1] = Count("single", e.to, e.from)
  <2>1. s[1] = ChatJobs(e)[5 - Len(s)] /\ (Len(s) = 2 => s[2] = ChatJobs(e)[4])
    BY <1>2, <1>3
  <2>2. CASE Len(s) = 1
    BY <1>7, <2>1, <2>2
  <2>3. CASE Len(s) = 2
    BY <1>7, <2>1, <2>3
  <2>4. CASE Len(s) = 3
    BY <1>7, <2>1, <2>4
  <2>5. CASE Len(s) = 4
    BY <1>7, <2>1, <2>5
  <2>6. QED
    BY <1>3, <2>2, <2>3, <2>4, <2>5
<1>9. Len(s) > 1 => Tail(s)[1] = s[2]
  BY <1>3, <1>4
<1>10. QED
  BY <1>3, <1>4, <1>6, <1>8, <1>9 DEF s

LEMMA SameCount ==
  \A u, v, x, y : Count("single", u, v) = Count("single", x, y) <=> u = x /\ v = y
BY DEF Count

LEMMA PollSides == ASSUME IInv, ChatShape, Sides, NEW t \in Topic, Poll(t) PROVE ChatShape' /\ Sides'
<1>1. /\ TypeOK /\ TypeOK' /\ jobs[t] = <<>>
      /\ jobs' = [jobs EXCEPT ![t] = JobsOf(log[t][next[t] + 1])]
      /\ UNCHANGED <<trace, failures, deaths>>
  BY PollIInv DEF IInv, Poll, Idle, redisVars, faultVars
<1>2. PICK e : e = log[t][next[t] + 1]
  OBVIOUS
<1>3. e \in Event /\ TopicOf(e) = t
  <2>1. next[t] \in Nat /\ log[t] \in Seq(Event) /\ next[t] < Len(log[t])
    BY DEF IInv, TypeOK, Poll
  <2>2. next[t] + 1 \in 1..Len(log[t])
    BY <2>1
  <2>3. QED
    BY <1>2, <2>1, <2>2 DEF IInv, OwnTopic
<1>4. CASE t = "single"
  <2>1. e \notin GroupEvent
    BY <1>3, <1>4 DEF TopicOf, GroupEvent
  <2>2. JobsOf(e) = <<>> \/ (e \in ChatEvent /\ JobsOf(e) = ChatJobs(e))
    <3>1. CASE e \in ChatEvent
      BY <3>1 DEF JobsOf, ChatEvent
    <3>2. CASE e \in StrayEvent
      BY <3>2 DEF JobsOf, StrayEvent, Accepted
    <3>3. QED
      BY <1>3, <2>1, <3>1, <3>2, EventAssumption
  <2>3. jobs'["single"] = JobsOf(e)
    BY <1>1, <1>2, <1>4 DEF TypeOK, Topic
  <2>4. Len(ChatJobs(e)) = 4 /\ Remains(ChatJobs(e), e) /\ Len(<<>>) = 0
    BY DEF ChatJobs, Remains
  <2>5. ChatShape'
    BY <2>2, <2>3, <2>4 DEF ChatShape
  <2>6. \A u, v \in User : OneSided(jobs'["single"], u, v) = OneSided(jobs["single"], u, v)
    <3>1. Len(JobsOf(e)) # 1
      <4>1. CASE JobsOf(e) = <<>>
        BY <2>4, <4>1
      <4>2. CASE JobsOf(e) = ChatJobs(e)
        BY <2>4, <4>2
      <4>3. QED
        BY <2>2, <4>1, <4>2
    <3>2. Len(jobs["single"]) # 1
      BY <1>1, <1>4, <2>4
    <3>3. QED
      BY <2>3, <3>1, <3>2 DEF OneSided
  <2>7. QED
    BY <1>1, <2>5, <2>6, SidesFrame
<1>5. CASE t # "single"
  <2>1. jobs'["single"] = jobs["single"]
    BY <1>1, <1>5 DEF TypeOK, Topic
  <2>2. QED
    BY <1>1, <2>1, SidesFrame DEF ChatShape, OneSided
<1>6. QED
  BY <1>4, <1>5

\* The end of a list job: both counters are still to come, or none is.
LEMMA LtrimSides == ASSUME IInv, ChatShape, Sides, NEW t \in Topic, Ltrim(t) PROVE ChatShape' /\ Sides'
<1>1. /\ TypeOK /\ TypeOK' /\ jobs[t] # <<>> /\ Head(jobs[t]).op = "touch"
      /\ jobs' = [jobs EXCEPT ![t] = Tail(jobs[t])]
      /\ UNCHANGED <<trace, failures, deaths>>
  BY LtrimIInv DEF IInv, Ltrim, KeepOnly, AtCommand, faultVars
<1>2. CASE t = "single"
  <2>1. PICK e \in ChatEvent : Remains(jobs["single"], e)
    BY <1>1, <1>2 DEF ChatShape
  <2>2. jobs'["single"] = Tail(jobs["single"])
    BY <1>1, <1>2 DEF TypeOK, Topic
  <2>3. Len(jobs["single"]) \in {3, 4}
    <3>1. Head(jobs["single"]).op = "touch"
      BY <1>1, <1>2
    <3>2. \A x, y : Count("single", x, y).op = "count"
      BY DEF Count
    <3>3. Len(jobs["single"]) \in 1..4 /\ Len(jobs["single"]) # 1 /\ Len(jobs["single"]) # 2
      BY <1>1, <1>2, <2>1, <3>1, <3>2, ChatEnd
    <3>4. QED
      BY <3>3
  <2>4. ChatShape'
    BY <1>1, <1>2, <2>1, <2>2, ChatEnd DEF ChatShape
  <2>a. Len(jobs'["single"]) = Len(jobs["single"]) - 1
    BY <1>1, <1>2, <2>1, <2>2, ChatEnd
  <2>5. Len(jobs'["single"]) # 1 /\ Len(jobs["single"]) # 1
    <3>1. PICK m, n : m = Len(jobs'["single"]) /\ n = Len(jobs["single"])
      OBVIOUS
    <3>2. m = n - 1
      BY <2>a, <3>1
    <3>3. n = 3 \/ n = 4
      BY <2>3, <3>1
    <3>4. m # 1 /\ n # 1
      BY <3>2, <3>3
    <3>5. QED
      BY <3>1, <3>4
  <2>6. \A u, v \in User : OneSided(jobs'["single"], u, v) = OneSided(jobs["single"], u, v)
    BY <2>5 DEF OneSided
  <2>7. QED
    BY <1>1, <2>4, <2>6, SidesFrame
<1>3. CASE t # "single"
  <2>1. jobs'["single"] = jobs["single"]
    BY <1>1, <1>3 DEF TypeOK, Topic
  <2>2. QED
    BY <1>1, <2>1, SidesFrame DEF ChatShape, OneSided
<1>4. QED
  BY <1>2, <1>3

\* ZINCRBY adds one to one counter.
LEMMA ZincrbyCounts ==
  ASSUME TypeOK, NEW t \in Topic, Zincrby(t), NEW k \in ListKey, NEW w \in Contact,
         k = Head(jobs[t]).key, w = Head(jobs[t]).value
  PROVE  \A l \in ListKey, c \in Contact :
           trace'[l][c] = IF l = k /\ c = w THEN trace[l][c] + 1 ELSE trace[l][c]
<1>1. trace' = [trace EXCEPT ![k][w] = @ + 1] /\ trace \in [ListKey -> [Contact -> Nat]]
  BY DEF Zincrby, TypeOK
<1>2. PICK row : row = [trace[k] EXCEPT ![w] = @ + 1]
  OBVIOUS
<1>3. trace' = [trace EXCEPT ![k] = row]
  BY <1>1, <1>2
<1>4. \A c \in Contact : row[c] = IF c = w THEN trace[k][c] + 1 ELSE trace[k][c]
  BY <1>1, <1>2
<1>5. QED
  BY <1>1, <1>3, <1>4

LEMMA ZincrbySides == ASSUME IInv, ChatShape, Sides, NEW t \in Topic, Zincrby(t) PROVE ChatShape' /\ Sides'
<1>1. /\ TypeOK /\ TypeOK' /\ jobs[t] # <<>> /\ Head(jobs[t]).op = "count"
      /\ jobs' = [jobs EXCEPT ![t] = Tail(jobs[t])]
      /\ UNCHANGED <<failures, deaths>>
  BY ZincrbyIInv DEF IInv, Zincrby, faultVars
<1>2. PICK k, w : k = Head(jobs[t]).key /\ w = Head(jobs[t]).value
  OBVIOUS
<1>3. k \in ListKey /\ k[1] = t /\ w \in Contact
  BY <1>1, <1>2, HeadJob DEF IInv
<1>4. \A l \in ListKey, c \in Contact :
        trace'[l][c] = IF l = k /\ c = w THEN trace[l][c] + 1 ELSE trace[l][c]
  BY <1>1, <1>2, <1>3, ZincrbyCounts
<1>5. CASE t = "single"
  <2>1. PICK e \in ChatEvent : Remains(jobs["single"], e)
    BY <1>1, <1>5 DEF ChatShape
  <2>a. e.from \in User /\ e.to \in User
    BY DEF ChatEvent
  <2>b. jobs'["single"] = Tail(jobs["single"])
    BY <1>1, <1>5 DEF TypeOK, Topic
  <2>2. Len(jobs["single"]) \in 1..4 /\ Len(jobs'["single"]) = Len(jobs["single"]) - 1
    BY <1>1, <1>5, <2>1, <2>b, ChatEnd
  <2>3. Len(jobs["single"]) \in {1, 2}
    <3>1. Head(jobs["single"]).op = "count"
      BY <1>1, <1>5
    <3>2. \A x, y : Touch("single", x, y).op = "touch"
      BY DEF Touch
    <3>3. Len(jobs["single"]) \in 1..4 /\ Len(jobs["single"]) # 3 /\ Len(jobs["single"]) # 4
      BY <1>1, <1>5, <2>1, <3>1, <3>2, ChatEnd
    <3>4. QED
      BY <3>3
  <2>4. ChatShape'
    BY <1>1, <1>5, <2>1, <2>2, ChatEnd DEF ChatShape
  <2>5. \A u, v : Count("single", u, v).key = <<"single", u>> /\ Count("single", u, v).value = v
    BY DEF Count
  <2>6. \A u, v \in User : <<"single", u>> \in ListKey /\ v \in Contact
    BY DEF ListKey, Topic, Contact
  <2>7. CASE Len(jobs["single"]) = 2
    <3>1. k = <<"single", e.from>> /\ w = e.to
      BY <1>1, <1>2, <1>5, <2>1, <2>5, <2>7, ChatEnd
    <3>2. Len(jobs'["single"]) = 1 /\ jobs'["single"][1] = Count("single", e.to, e.from)
      BY <1>1, <1>5, <2>1, <2>2, <2>7, ChatEnd
    <3>3. \A u, v \in User : /\ OneSided(jobs["single"], u, v) = 0
                             /\ OneSided(jobs'["single"], u, v) = IF u = e.from /\ v = e.to THEN 1 ELSE 0
      BY <2>7, <3>2, SameCount DEF OneSided
    <3>4. \A u, v \in User : trace'[<<"single", u>>][v] =
             IF u = e.from /\ v = e.to THEN trace[<<"single", u>>][v] + 1 ELSE trace[<<"single", u>>][v]
      BY <1>4, <2>6, <3>1
    <3>5. ASSUME NEW u \in User, NEW v \in User
          PROVE  Apart(trace', jobs'["single"], failures' + deaths', u, v)
      <4>1. PICK p, q, x, y, f : /\ p = trace[<<"single", u>>][v] /\ q = trace[<<"single", v>>][u]
                                 /\ x = OneSided(jobs["single"], u, v)
                                 /\ y = OneSided(jobs["single"], v, u)
                                 /\ f = failures + deaths
        OBVIOUS
      <4>2. p \in Nat /\ q \in Nat /\ f \in Nat
        <5>1. p \in Nat /\ q \in Nat /\ failures \in Nat /\ deaths \in Nat
          BY <1>1, <4>1, Counters
        <5>2. QED
          BY <4>1, <5>1
      <4>3. p + y <= q + f + x
        <5>1. Apart(trace, jobs["single"], failures + deaths, u, v)
          BY DEF Sides
        <5>2. QED
          BY <4>1, <5>1 DEF Apart
      <4>4. PICK P, Q, X, Y : /\ P = trace'[<<"single", u>>][v] /\ Q = trace'[<<"single", v>>][u]
                              /\ X = OneSided(jobs'["single"], u, v)
                              /\ Y = OneSided(jobs'["single"], v, u)
        OBVIOUS
      <4>5. /\ P = IF u = e.from /\ v = e.to THEN p + 1 ELSE p
            /\ Q = IF v = e.from /\ u = e.to THEN q + 1 ELSE q
        BY <3>4, <4>1, <4>4
      <4>6. /\ X = IF u = e.from /\ v = e.to THEN 1 ELSE 0
            /\ Y = IF v = e.from /\ u = e.to THEN 1 ELSE 0
            /\ x = 0 /\ y = 0
        BY <3>3, <4>1, <4>4
      <4>7. P + Y <= Q + f + X
        BY <4>2, <4>3, <4>5, <4>6
      <4>8. QED
        BY <1>1, <4>1, <4>4, <4>7 DEF Apart
    <3>6. QED
      BY <2>4, <3>5 DEF Sides
  <2>8. CASE Len(jobs["single"]) = 1
    <3>1. k = <<"single", e.to>> /\ w = e.from
      BY <1>1, <1>2, <1>5, <2>1, <2>5, <2>8, ChatEnd
    <3>2. jobs["single"][1] = Count("single", e.to, e.from) /\ Len(jobs'["single"]) = 0
      BY <1>1, <1>5, <2>1, <2>2, <2>8, ChatEnd
    <3>3. \A u, v \in User : /\ OneSided(jobs'["single"], u, v) = 0
                             /\ OneSided(jobs["single"], u, v) = IF u = e.from /\ v = e.to THEN 1 ELSE 0
      BY <2>8, <3>2, SameCount DEF OneSided
    <3>4. \A u, v \in User : trace'[<<"single", u>>][v] =
             IF u = e.to /\ v = e.from THEN trace[<<"single", u>>][v] + 1 ELSE trace[<<"single", u>>][v]
      BY <1>4, <2>6, <3>1
    <3>5. ASSUME NEW u \in User, NEW v \in User
          PROVE  Apart(trace', jobs'["single"], failures' + deaths', u, v)
      <4>1. PICK p, q, x, y, f : /\ p = trace[<<"single", u>>][v] /\ q = trace[<<"single", v>>][u]
                                 /\ x = OneSided(jobs["single"], u, v)
                                 /\ y = OneSided(jobs["single"], v, u)
                                 /\ f = failures + deaths
        OBVIOUS
      <4>2. p \in Nat /\ q \in Nat /\ f \in Nat
        <5>1. p \in Nat /\ q \in Nat /\ failures \in Nat /\ deaths \in Nat
          BY <1>1, <4>1, Counters
        <5>2. QED
          BY <4>1, <5>1
      <4>3. p + y <= q + f + x
        <5>1. Apart(trace, jobs["single"], failures + deaths, u, v)
          BY DEF Sides
        <5>2. QED
          BY <4>1, <5>1 DEF Apart
      <4>4. PICK P, Q, X, Y : /\ P = trace'[<<"single", u>>][v] /\ Q = trace'[<<"single", v>>][u]
                              /\ X = OneSided(jobs'["single"], u, v)
                              /\ Y = OneSided(jobs'["single"], v, u)
        OBVIOUS
      <4>5. /\ P = IF u = e.to /\ v = e.from THEN p + 1 ELSE p
            /\ Q = IF v = e.to /\ u = e.from THEN q + 1 ELSE q
        BY <3>4, <4>1, <4>4
      <4>6. /\ x = IF u = e.from /\ v = e.to THEN 1 ELSE 0
            /\ y = IF v = e.from /\ u = e.to THEN 1 ELSE 0
            /\ X = 0 /\ Y = 0
        BY <3>3, <4>1, <4>4
      <4>7. P + Y <= Q + f + X
        BY <4>2, <4>3, <4>5, <4>6
      <4>8. QED
        BY <1>1, <4>1, <4>4, <4>7 DEF Apart
    <3>6. QED
      BY <2>4, <3>5 DEF Sides
  <2>9. QED
    BY <2>3, <2>7, <2>8
<1>6. CASE t # "single"
  <2>1. jobs'["single"] = jobs["single"]
    BY <1>1, <1>6 DEF TypeOK, Topic
  <2>2. \A u, v \in User : trace'[<<"single", u>>][v] = trace[<<"single", u>>][v]
    BY <1>3, <1>4, <1>6 DEF ListKey, Topic, Contact
  <2>3. QED
    BY <1>1, <2>1, <2>2, SidesFrame DEF ChatShape, OneSided
<1>7. QED
  BY <1>5, <1>6

\* An event given up between its two counters costs one.
LEMMA AbandonSides ==
  ASSUME IInv, ChatShape, Sides, Ending \/ \E t \in Topic : Fail(t) PROVE ChatShape' /\ Sides'
<1>1. /\ TypeOK /\ TypeOK' /\ trace' = trace
      /\ failures' + deaths' = failures + deaths + 1
      /\ \A t \in Topic : jobs'[t] = <<>> \/ jobs'[t] = jobs[t]
  <2>1. TypeOK /\ TypeOK' /\ failures \in Nat /\ deaths \in Nat
    BY AbandonIInv DEF IInv, TypeOK
  <2>2. CASE Ending
    BY <2>1, <2>2, EndFacts DEF EndedAt
  <2>3. CASE \E t \in Topic : Fail(t)
    BY <2>1, <2>3 DEF Fail, TypeOK, redisVars
  <2>4. QED
    BY <2>1, <2>2, <2>3
<1>2. jobs'["single"] = <<>> \/ jobs'["single"] = jobs["single"]
  BY <1>1 DEF TypeOK, Topic
<1>3. ChatShape'
  BY <1>2 DEF ChatShape
<1>4. ASSUME NEW u \in User, NEW v \in User
      PROVE  Apart(trace', jobs'["single"], failures' + deaths', u, v)
  <2>1. PICK p, q, x, y, f : /\ p = trace[<<"single", u>>][v] /\ q = trace[<<"single", v>>][u]
                             /\ x = OneSided(jobs["single"], u, v)
                             /\ y = OneSided(jobs["single"], v, u)
                             /\ f = failures + deaths
    OBVIOUS
  <2>2. /\ p \in Nat /\ q \in Nat /\ f \in Nat /\ x \in {0, 1} /\ y \in {0, 1}
        /\ failures' + deaths' = f + 1
    <3>1. p \in Nat /\ q \in Nat /\ failures \in Nat /\ deaths \in Nat /\ x \in {0, 1} /\ y \in {0, 1}
      BY <1>1, <2>1, Counters
    <3>2. QED
      BY <1>1, <2>1, <3>1
  <2>3. p + y <= q + f + x
    <3>1. Apart(trace, jobs["single"], failures + deaths, u, v)
      BY DEF Sides
    <3>2. QED
      BY <2>1, <3>1 DEF Apart
  <2>4. PICK X, Y : /\ X = OneSided(jobs'["single"], u, v)
                    /\ Y = OneSided(jobs'["single"], v, u)
    OBVIOUS
  <2>5. (X = x /\ Y = y) \/ (X = 0 /\ Y = 0)
    <3>1. OneSided(<<>>, u, v) = 0 /\ OneSided(<<>>, v, u) = 0
      BY DEF OneSided
    <3>2. QED
      BY <1>2, <2>1, <2>4, <3>1
  <2>6. p + Y <= q + (f + 1) + X
    BY <2>2, <2>3, <2>5
  <2>7. QED
    BY <1>1, <2>1, <2>2, <2>4, <2>6 DEF Apart
<1>5. QED
  BY <1>3, <1>4 DEF Sides

LEMMA NextSides == IInv /\ ChatShape /\ Sides /\ [Next]_vars => ChatShape' /\ Sides'
<1> SUFFICES ASSUME IInv, ChatShape, Sides, [Next]_vars PROVE ChatShape' /\ Sides'
  OBVIOUS
<1>1. ASSUME UNCHANGED <<jobs, trace, failures, deaths>> PROVE ChatShape' /\ Sides'
  BY <1>1 DEF ChatShape, Sides, Apart, OneSided
<1>2. CASE UNCHANGED vars \/ \E e \in Event : Publish(e)
  BY <1>1, <1>2 DEF vars, consumerVars, redisVars, faultVars, Publish
<1>3. ASSUME NEW t \in Topic, Lrange(t) \/ Delete(t) \/ Lpush(t) PROVE ChatShape' /\ Sides'
  BY <1>1, <1>3 DEF Lrange, Delete, Lpush, PushBack, redisVars, faultVars
<1>4. ASSUME NEW t \in Topic, Poll(t) \/ Command(t) PROVE ChatShape' /\ Sides'
  BY <1>3, <1>4, PollSides, LtrimSides, ZincrbySides DEF Command
<1>5. CASE Commit \/ Start
  BY <1>1, <1>5 DEF Commit, Start, redisVars, faultVars
<1>6. CASE Ending \/ \E t \in Topic : Fail(t)
  BY <1>6, AbandonSides
<1>7. QED
  BY <1>2, <1>4, <1>5, <1>6 DEF Next, Ending

\* For any events and any number of faults, the counters of the two sides of a
\* conversation differ by no more than the events given up.
THEOREM SidesCountAlike == Spec => []SidesAgree
<1>1. Init => ChatShape /\ Sides
  <2>1. SUFFICES ASSUME Init PROVE Sides
    BY DEF Init, ChatShape, Topic
  <2>2. jobs["single"] = <<>> /\ Len(<<>>) = 0
    BY <2>1 DEF Init, Topic
  <2>3. QED
    BY <2>1, <2>2 DEF Init, Sides, Apart, OneSided, ListKey, Topic, Contact
<1>2. Spec => [](ChatShape /\ Sides)
  BY <1>1, InductiveInvariant, NextSides, PTL DEF Spec
<1>3. IInv /\ ChatShape /\ Sides => SidesAgree
  <2>1. SUFFICES ASSUME IInv, Sides, Quiet("single"), NEW u \in User, NEW v \in User
                 PROVE  trace[<<"single", u>>][v] <= trace[<<"single", v>>][u] + failures + deaths
    BY DEF SidesAgree
  <2>2. PICK p, q, f, r : /\ p = trace[<<"single", u>>][v] /\ q = trace[<<"single", v>>][u]
                          /\ f = failures /\ r = deaths
    OBVIOUS
  <2>3. p \in Nat /\ q \in Nat /\ f \in Nat /\ r \in Nat
    BY <2>1, <2>2, Counters DEF IInv
  <2>4. OneSided(jobs["single"], u, v) = 0 /\ OneSided(jobs["single"], v, u) = 0
    BY <2>1 DEF Quiet, OneSided
  <2>5. p + 0 <= q + (f + r) + 0
    BY <2>1, <2>2, <2>4 DEF Sides, Apart
  <2>6. p <= q + f + r
    BY <2>3, <2>5
  <2>7. QED
    BY <2>2, <2>6
<1>4. QED
  BY <1>2, <1>3, InductiveInvariant, PTL

-----------------------------------------------------------------------------
(* What the counters count                                                 *)

\* The places of job j in a sequence of jobs, and in the work of the first n
\* events of a topic.
Places(j, s) == {i \in DOMAIN s : s[i] = j}
Times(j, s) == Cardinality(Places(j, s))
Askings(events, j, n) == UNION {{p} \X Places(j, JobsOf(events[p])) : p \in 1..n}
AskedIn(events, j, n) == Cardinality(Askings(events, j, n))

LEMMA AskedIsAskedIn == \A j, n : Asked(j, n) = AskedIn(log[j.key[1]], j, n)
BY DEF Asked, AskedIn, Askings, Places

LEMMA PlacesFinite ==
  ASSUME NEW j, NEW s \in Seq(Job)
  PROVE  IsFiniteSet(Places(j, s)) /\ Times(j, s) \in Nat
<1>1. IsFiniteSet(1..Len(s))
  <2>1. Len(s) \in Int /\ 1 \in Int
    OBVIOUS
  <2>2. QED
    BY <2>1, FS_Interval
<1>2. Places(j, s) \in SUBSET (1..Len(s))
  BY DEF Places
<1>3. IsFiniteSet(Places(j, s))
  BY <1>1, <1>2, FS_Subset
<1>4. QED
  BY <1>3, FS_CardinalityType DEF Times

LEMMA TimesInNone == \A j : Times(j, <<>>) = 0
<1>1. \A j : Places(j, <<>>) = {}
  BY DEF Places
<1>2. QED
  BY <1>1, FS_EmptySet DEF Times

\* Doing the job at the head leaves it to do once less, and the others as often.
LEMMA TimesInTail ==
  ASSUME NEW j, NEW s \in Seq(Job), s # <<>>
  PROVE  Times(j, s) = Times(j, Tail(s)) + IF Head(s) = j THEN 1 ELSE 0
<1>1. PICK r : r = Tail(s)
  OBVIOUS
<1>2. PICK n : n = Len(r)
  OBVIOUS
<1>3. /\ n \in Nat /\ r \in Seq(Job) /\ DOMAIN r = 1..n /\ DOMAIN s = 1..(n + 1)
      /\ Head(s) = s[1] /\ \A i \in 1..n : r[i] = s[i + 1]
  <2>1. r \in Seq(Job) /\ Len(r) = Len(s) - 1 /\ \A i \in 1..Len(r) : r[i] = s[i + 1]
    BY <1>1
  <2>2. Len(s) \in Nat /\ n \in Nat /\ n = Len(s) - 1
    BY <1>2, <2>1
  <2>3. Len(s) = n + 1
    BY <2>2
  <2>4. QED
    BY <1>2, <2>1, <2>2, <2>3
<1>4. IsFiniteSet(Places(j, r)) /\ IsFiniteSet(Places(j, s))
  BY <1>3, PlacesFinite
<1> DEFINE later == Places(j, s) \ {1}
           back == [i \in Places(j, r) |-> i + 1]
<1>5. Places(j, r) \subseteq 1..n /\ \A i \in 1..n : i \in Places(j, r) <=> s[i + 1] = j
  BY <1>3 DEF Places
<1>6. \A i : i \in later <=> i \in 2..(n + 1) /\ s[i] = j
  BY <1>3 DEF Places
<1>7. back \in Bijection(Places(j, r), later)
  <2>1. \A i \in Places(j, r) : i \in 1..n /\ i + 1 \in 2..(n + 1) /\ s[i + 1] = j
    BY <1>3, <1>5
  <2>2. back \in [Places(j, r) -> later]
    BY <1>6, <2>1
  <2>3. ASSUME NEW i \in later PROVE \E h \in Places(j, r) : back[h] = i
    <3>1. i \in 2..(n + 1) /\ s[i] = j
      BY <1>6
    <3>2. i - 1 \in 1..n /\ (i - 1) + 1 = i
      BY <1>3, <3>1
    <3>3. i - 1 \in Places(j, r)
      BY <1>5, <3>1, <3>2
    <3>4. back[i - 1] = i
      BY <3>2, <3>3
    <3>5. QED
      BY <3>3, <3>4
  <2>4. \A h, i \in Places(j, r) : back[h] = back[i] => h = i
    BY <1>3, <2>1
  <2>5. QED
    BY <2>2, <2>3, <2>4 DEF Bijection, Injection, Surjection, IsInjective
<1> HIDE DEF later, back
<1>8. Cardinality(later) = Times(j, r)
  <2>1. ExistsBijection(Places(j, r), later)
    BY <1>7 DEF ExistsBijection
  <2>2. QED
    BY <1>4, <2>1, FS_Bijection DEF Times
<1>9. Cardinality(later) = IF 1 \in Places(j, s) THEN Times(j, s) - 1 ELSE Times(j, s)
  BY <1>4, FS_RemoveElement DEF later, Times
<1>10. 1 \in Places(j, s) <=> Head(s) = j
  BY <1>3 DEF Places
<1>11. Times(j, s) \in Nat
  BY PlacesFinite
<1>12. QED
  BY <1>1, <1>8, <1>9, <1>10, <1>11

-----------------------------------------------------------------------------
LEMMA AskingsFinite ==
  ASSUME NEW events \in Seq(Event), NEW j, NEW n \in 0..Len(events)
  PROVE  IsFiniteSet(Askings(events, j, n)) /\ AskedIn(events, j, n) \in Nat
<1> DEFINE f == [p \in 1..n |-> {p} \X Places(j, JobsOf(events[p]))]
           T == {{p} \X Places(j, JobsOf(events[p])) : p \in 1..n}
<1>1. n \in Nat /\ \A p \in 1..n : p \in 1..Len(events)
  OBVIOUS
<1>2. \A p \in 1..n : events[p] \in Event
  BY <1>1
<1>3. ASSUME NEW p \in 1..n PROVE IsFiniteSet({p} \X Places(j, JobsOf(events[p])))
  <2>1. JobsOf(events[p]) \in Seq(Job)
    BY <1>2, JobsOfType
  <2>2. IsFiniteSet(Places(j, JobsOf(events[p]))) /\ IsFiniteSet({p})
    BY <2>1, PlacesFinite, FS_Singleton
  <2>3. QED
    BY <2>2, FS_Product
<1>4. IsFiniteSet(1..n)
  <2>1. n \in Int /\ 1 \in Int
    BY <1>1
  <2>2. QED
    BY <2>1, FS_Interval
<1>5. f \in Surjection(1..n, T)
  BY DEF Surjection
<1>6. IsFiniteSet(T)
  <2> HIDE DEF f, T
  <2>1. QED
    BY <1>4, <1>5, FS_Surjection
<1>7. \A s \in T : IsFiniteSet(s)
  BY <1>3
<1>8. IsFiniteSet(UNION T)
  <2> HIDE DEF T
  <2>1. QED
    BY <1>6, <1>7, FS_UNION
<1>9. QED
  BY <1>8, FS_CardinalityType DEF Askings, AskedIn

LEMMA AskedNone == \A events, j : AskedIn(events, j, 0) = 0
<1>1. \A events, j : Askings(events, j, 0) = {}
  BY DEF Askings
<1>2. QED
  BY <1>1, FS_EmptySet DEF AskedIn

\* Without a committed offset, no event is committed.
LEMMA NothingBefore == \A events, j : AskedIn(events, j, NoOffset) = AskedIn(events, j, 0)
<1>1. 1..NoOffset = {} /\ 1..0 = {}
  BY DEF NoOffset
<1>2. QED
  BY <1>1 DEF AskedIn, Askings

\* One more event asks for what it asks for.
LEMMA AskedNext ==
  ASSUME NEW events \in Seq(Event), NEW j, NEW n \in Nat, n < Len(events)
  PROVE  AskedIn(events, j, n + 1) = AskedIn(events, j, n) + Times(j, JobsOf(events[n + 1]))
<1> DEFINE new == {n + 1} \X Places(j, JobsOf(events[n + 1]))
           old == Askings(events, j, n)
<1>1. n \in 0..Len(events) /\ n + 1 \in 1..Len(events)
  OBVIOUS
<1>2. Askings(events, j, n + 1) = old \cup new
  <2>1. 1..(n + 1) = (1..n) \cup {n + 1}
    OBVIOUS
  <2>2. QED
    BY <2>1 DEF Askings
<1>3. old \cap new = {}
  <2>1. \A x \in old : x[1] \in 1..n
    BY DEF Askings
  <2>2. \A x \in new : x[1] = n + 1
    OBVIOUS
  <2>3. QED
    BY <2>1, <2>2
<1>4. IsFiniteSet(old) /\ AskedIn(events, j, n) \in Nat
  BY <1>1, AskingsFinite
<1>5. IsFiniteSet(new) /\ Cardinality(new) = Times(j, JobsOf(events[n + 1]))
  <2>1. JobsOf(events[n + 1]) \in Seq(Job)
    BY <1>1, JobsOfType
  <2>2. /\ IsFiniteSet(Places(j, JobsOf(events[n + 1]))) /\ Times(j, JobsOf(events[n + 1])) \in Nat
        /\ IsFiniteSet({n + 1}) /\ Cardinality({n + 1}) = 1
    BY <2>1, PlacesFinite, FS_Singleton
  <2>3. IsFiniteSet(new) /\ Cardinality(new) = Cardinality({n + 1}) * Cardinality(Places(j, JobsOf(events[n + 1])))
    BY <2>2, FS_Product
  <2>4. QED
    BY <2>2, <2>3 DEF Times
<1> HIDE DEF new, old
<1>6. Cardinality(old \cup new) = Cardinality(old) + Cardinality(new) - Cardinality({})
  BY <1>3, <1>4, <1>5, FS_Union
<1>7. PICK a, b : a = Cardinality(old) /\ b = Cardinality(new)
  OBVIOUS
<1>8. a \in Nat /\ b \in Nat
  BY <1>4, <1>5, <1>7, FS_CardinalityType
<1>9. a + b - 0 = a + b
  BY <1>8
<1>10. QED
  BY <1>2, <1>5, <1>6, <1>7, <1>9, FS_EmptySet DEF AskedIn, old

\* More events ask for no less.
LEMMA AskedGrows ==
  ASSUME NEW events \in Seq(Event), NEW j, NEW m \in Nat, NEW n \in Nat, m <= n, n <= Len(events)
  PROVE  AskedIn(events, j, m) <= AskedIn(events, j, n)
<1>1. n \in 0..Len(events) /\ \A p \in 1..m : p \in 1..n
  OBVIOUS
<1>2. Askings(events, j, m) \in SUBSET Askings(events, j, n)
  BY <1>1 DEF Askings
<1>3. IsFiniteSet(Askings(events, j, n))
  BY <1>1, AskingsFinite
<1>4. QED
  BY <1>2, <1>3, FS_Subset DEF AskedIn

\* A new event changes nothing about the older ones.
LEMMA AskedBefore ==
  ASSUME NEW events \in Seq(Event), NEW e \in Event, NEW j, NEW n \in 0..Len(events)
  PROVE  AskedIn(Append(events, e), j, n) = AskedIn(events, j, n)
<1>1. \A p \in 1..n : Append(events, e)[p] = events[p]
  OBVIOUS
<1>2. Askings(Append(events, e), j, n) = Askings(events, j, n)
  BY <1>1 DEF Askings
<1>3. QED
  BY <1>2 DEF AskedIn
-----------------------------------------------------------------------------
\* The group commits what was taken, and takes what was published.
Offsets == \A t \in Topic : committed[t] <= next[t] /\ next[t] <= Len(log[t])

\* How many events of topic t are committed, and whether any may be lost.
Base(t) == IF committed[t] = NoOffset THEN 0 ELSE committed[t]
Losses == failures + (IF missed THEN 1 ELSE 0)

\* v: a counter, left: the times the work under way still adds to it, a, b, c:
\* the times the committed events, the events taken and all events ask for it.
Tally(v, left, f, r, a, b, c) ==
  /\ f = 0 => v >= a /\ v + left >= b
  /\ v + left <= r * c + b

TallyOf(counts, s, f, r, events, m, n, k, w) ==
  Tally(counts[k][w], Times(Count(k[1], k[2], w), s), f, r,
        AskedIn(events, Count(k[1], k[2], w), m), AskedIn(events, Count(k[1], k[2], w), n),
        AskedIn(events, Count(k[1], k[2], w), Len(events)))

Tallied ==
  \A k \in ListKey, w \in Contact :
    TallyOf(trace, jobs[k[1]], Losses, deaths, log[k[1]], Base(k[1]), next[k[1]], k, w)

CInv == IInv /\ Running /\ Offsets /\ Tallied

LEMMA OffsetsStep == IInv /\ Offsets /\ [Next]_vars => Offsets'
<1> SUFFICES ASSUME IInv, Offsets, [Next]_vars PROVE Offsets'
  OBVIOUS
<1> USE DEF IInv, TypeOK, Offsets
<1>1. ASSUME UNCHANGED <<log, next, committed>> PROVE Offsets'
  BY <1>1
<1>2. CASE UNCHANGED vars
  BY <1>1, <1>2 DEF vars, consumerVars
<1>3. ASSUME NEW e \in Event, Publish(e) PROVE Offsets'
  <2>1. PICK t : t = TopicOf(e)
    OBVIOUS
  <2>2. t \in Topic
    BY <2>1, JobsOfType
  <2>3. log' = [log EXCEPT ![t] = Append(log[t], e)] /\ UNCHANGED <<next, committed>>
    BY <1>3, <2>1 DEF Publish, consumerVars
  <2>4. ASSUME NEW u \in Topic PROVE Len(log[u]) <= Len(log'[u])
    BY <2>2, <2>3
  <2>5. ASSUME NEW u \in Topic PROVE next[u] <= Len(log'[u])
    <3>1. PICK a, b, c : a = next[u] /\ b = Len(log[u]) /\ c = Len(log'[u])
      OBVIOUS
    <3>2. a \in Nat /\ b \in Nat /\ c \in Nat
      <4>1. log'[u] \in Seq(Event)
        BY <2>2, <2>3
      <4>2. QED
        BY <3>1, <4>1
    <3>3. a <= b /\ b <= c
      BY <2>4, <3>1
    <3>4. QED
      BY <3>1, <3>2, <3>3
  <2>6. QED
    BY <2>3, <2>5
<1>4. ASSUME NEW t \in Topic, Poll(t) PROVE Offsets'
  <2>1. /\ next[t] < Len(log[t]) /\ next' = [next EXCEPT ![t] = next[t] + 1]
        /\ UNCHANGED <<log, committed>>
    BY <1>4 DEF Poll
  <2>2. ASSUME NEW u \in Topic PROVE committed[u] <= next'[u] /\ next'[u] <= Len(log[u])
    <3>1. PICK a, b, c : a = committed[u] /\ b = next[u] /\ c = Len(log[u])
      OBVIOUS
    <3>2. (a \in Nat \/ a = NoOffset) /\ b \in Nat /\ c \in Nat /\ a <= b /\ b <= c
      BY <3>1
    <3>3. next'[u] = b \/ (next'[u] = b + 1 /\ b < c)
      BY <2>1, <3>1
    <3>4. QED
      BY <3>1, <3>2, <3>3 DEF NoOffset
  <2>3. QED
    BY <2>1, <2>2
<1>5. CASE Commit
  BY <1>5 DEF Commit
<1>6. CASE Ending
  <2>1. UNCHANGED <<log, committed>> /\ \A u \in Topic : EndedAt(u)
    BY <1>6, EndFacts
  <2>2. ASSUME NEW u \in Topic PROVE committed[u] <= next'[u] /\ next'[u] <= Len(log[u])
    <3>1. PICK a, b, c : a = committed[u] /\ b = next[u] /\ c = Len(log[u])
      OBVIOUS
    <3>2. (a \in Nat \/ a = NoOffset) /\ b \in Nat /\ c \in Nat /\ a <= b /\ b <= c
      BY <3>1
    <3>3. next'[u] = b \/ (next'[u] = a /\ a \in Nat)
      BY <2>1, <3>1, <3>2 DEF EndedAt
    <3>4. QED
      BY <3>1, <3>2, <3>3 DEF NoOffset
  <2>3. QED
    BY <2>1, <2>2
<1>6a. CASE Start
  BY <1>6a DEF Start, NoOffset
<1>7. ASSUME NEW t \in Topic, Command(t) \/ Fail(t) PROVE Offsets'
  <2>1. UNCHANGED <<log, next, committed>>
    BY <1>7 DEF Command, Lrange, Delete, Lpush, PushBack, Ltrim, KeepOnly, Zincrby, Fail
  <2>2. QED
    BY <1>1, <2>1
<1>8. QED
  BY <1>2, <1>3, <1>4, <1>5, <1>6, <1>6a, <1>7 DEF Next, Ending

\* The numbers of one counter.
LEMMA TallyNumbers ==
  ASSUME IInv, Offsets, NEW k \in ListKey, NEW w \in Contact, NEW j
  PROVE  /\ k[1] \in Topic /\ log[k[1]] \in Seq(Event) /\ jobs[k[1]] \in Seq(Job)
         /\ trace[k][w] \in Nat /\ Times(j, jobs[k[1]]) \in Nat
         /\ Losses \in Nat /\ deaths \in Nat
         /\ Base(k[1]) \in 0..Len(log[k[1]]) /\ next[k[1]] \in 0..Len(log[k[1]])
         /\ AskedIn(log[k[1]], j, Base(k[1])) \in Nat
         /\ AskedIn(log[k[1]], j, next[k[1]]) \in Nat
         /\ AskedIn(log[k[1]], j, Len(log[k[1]])) \in Nat
         /\ AskedIn(log[k[1]], j, Base(k[1])) <= AskedIn(log[k[1]], j, next[k[1]])
         /\ AskedIn(log[k[1]], j, next[k[1]]) <= AskedIn(log[k[1]], j, Len(log[k[1]]))
<1>1. /\ k[1] \in Topic /\ log[k[1]] \in Seq(Event) /\ jobs[k[1]] \in Seq(Job)
      /\ trace[k][w] \in Nat /\ Losses \in Nat /\ deaths \in Nat
      /\ next[k[1]] \in Nat /\ Base(k[1]) \in Nat
  BY DEF IInv, TypeOK, ListKey, Base, Losses
<1>2. Base(k[1]) <= next[k[1]] /\ next[k[1]] <= Len(log[k[1]]) /\ Len(log[k[1]]) \in Nat
  BY <1>1 DEF Offsets, Base
<1>3. Base(k[1]) \in 0..Len(log[k[1]]) /\ next[k[1]] \in 0..Len(log[k[1]])
      /\ Len(log[k[1]]) \in 0..Len(log[k[1]]) /\ Len(log[k[1]]) <= Len(log[k[1]])
  BY <1>1, <1>2
<1>4. Times(j, jobs[k[1]]) \in Nat
  BY <1>1, PlacesFinite
<1>5. /\ AskedIn(log[k[1]], j, Base(k[1])) \in Nat
      /\ AskedIn(log[k[1]], j, next[k[1]]) \in Nat
      /\ AskedIn(log[k[1]], j, Len(log[k[1]])) \in Nat
  BY <1>1, <1>3, AskingsFinite
<1>6. /\ AskedIn(log[k[1]], j, Base(k[1])) <= AskedIn(log[k[1]], j, next[k[1]])
      /\ AskedIn(log[k[1]], j, next[k[1]]) <= AskedIn(log[k[1]], j, Len(log[k[1]]))
  BY <1>1, <1>2, <1>3, AskedGrows
<1>7. QED
  BY <1>1, <1>3, <1>4, <1>5, <1>6

LEMMA TimesMonotone ==
  ASSUME NEW r \in Nat, NEW b \in Nat, NEW c \in Nat, b <= c
  PROVE  r * b \in Nat /\ r * c \in Nat /\ r * b <= r * c /\ (r + 1) * c = r * c + c
OBVIOUS

\* What a step does to the numbers of a counter.
LEMMA TallySteps ==
  ASSUME NEW v \in Nat, NEW left \in Nat, NEW f \in Nat, NEW r \in Nat,
         NEW a \in Nat, NEW b \in Nat, NEW c \in Nat, a <= b, b <= c, Tally(v, left, f, r, a, b, c)
  PROVE  /\ \A f2, r2, c2 \in Nat :
              f2 >= f /\ (r2 = r \/ r2 = r + 1) /\ c2 >= c => Tally(v, left, f2, r2, a, b, c2)
         /\ Tally(v, 0, f + 1, r, a, b, c)
         /\ \A f2 \in Nat : f2 >= f => Tally(v, 0, f2, r + 1, a, a, c)
         /\ \A f2 \in Nat : f2 > 0 => Tally(v, 0, f2, r + 1, a, b, c) /\ Tally(v, 0, f2, r, a, c, c)
         /\ left = 0 => Tally(v, 0, f, r, b, b, c) /\ Tally(v, 0, f, r + 1, a, b, c)
         /\ left = 0 => \A x \in Nat : Tally(v, x, f, r, a, b + x, c)
         /\ \A x \in Nat : left = x + 1 => Tally(v + 1, x, f, r, a, b, c)
<1>1. PICK x : x = r * c
  OBVIOUS
<1>2. x \in Nat /\ (r + 1) * c = x + c
  BY <1>1, TimesMonotone
<1>3. (f = 0 => v >= a /\ v + left >= b) /\ v + left <= x + b
  BY <1>1 DEF Tally
<1>4. ASSUME NEW f2 \in Nat, NEW r2 \in Nat, NEW c2 \in Nat,
             f2 >= f, r2 = r \/ r2 = r + 1, c2 >= c
      PROVE  Tally(v, left, f2, r2, a, b, c2)
  <2>1. PICK y : y = r * c2
    OBVIOUS
  <2>2. y \in Nat /\ x <= y /\ (r + 1) * c2 = y + c2
    BY <1>1, <1>4, <2>1, TimesMonotone
  <2>3. f2 = 0 => f = 0
    BY <1>4
  <2>4. CASE r2 = r
    BY <1>2, <1>3, <2>1, <2>2, <2>3, <2>4 DEF Tally
  <2>5. CASE r2 = r + 1
    <3>1. v + left <= (y + c2) + b
      BY <1>2, <1>3, <2>2
    <3>2. QED
      BY <1>3, <2>2, <2>3, <2>5, <3>1 DEF Tally
  <2>6. QED
    BY <1>4, <2>4, <2>5
<1>5. Tally(v, 0, f + 1, r, a, b, c)
  <2>1. v + 0 <= x + b /\ f + 1 # 0
    BY <1>2, <1>3
  <2>2. QED
    BY <1>1, <2>1 DEF Tally
<1>6. ASSUME NEW f2 \in Nat, f2 >= f PROVE Tally(v, 0, f2, r + 1, a, a, c)
  <2>1. v + 0 <= (x + c) + a /\ (v >= a => v + 0 >= a) /\ (f2 = 0 => f = 0)
    BY <1>2, <1>3, <1>6
  <2>2. QED
    BY <1>2, <1>3, <2>1 DEF Tally
<1>7. ASSUME left = 0 PROVE Tally(v, 0, f, r, b, b, c) /\ Tally(v, 0, f, r + 1, a, b, c)
  <2>1. (v + 0 >= b => v >= b) /\ v + 0 <= (x + c) + b
    BY <1>2, <1>3, <1>7
  <2>2. QED
    BY <1>1, <1>2, <1>3, <1>7, <2>1 DEF Tally
<1>8. ASSUME NEW y \in Nat, left = 0 PROVE Tally(v, y, f, r, a, b + y, c)
  <2>1. v + y <= x + (b + y) /\ (v + left >= b => v + y >= b + y)
    BY <1>2, <1>3, <1>8
  <2>2. QED
    BY <1>1, <1>3, <2>1 DEF Tally
<1>9. ASSUME NEW y \in Nat, left = y + 1 PROVE Tally(v + 1, y, f, r, a, b, c)
  <2>1. /\ (v + 1) + y <= x + b /\ (v >= a => v + 1 >= a)
        /\ v + left >= b => (v + 1) + y >= b
    BY <1>2, <1>3, <1>9
  <2>2. QED
    BY <1>1, <1>3, <2>1 DEF Tally
<1>9a. ASSUME NEW f2 \in Nat, f2 > 0 PROVE Tally(v, 0, f2, r + 1, a, b, c) /\ Tally(v, 0, f2, r, a, c, c)
  <2>1. v + 0 <= (x + c) + b /\ v + 0 <= x + c /\ f2 # 0
    BY <1>2, <1>3, <1>9a
  <2>2. QED
    BY <1>1, <1>2, <2>1 DEF Tally
<1>10. QED
  BY <1>4, <1>5, <1>6, <1>7, <1>8, <1>9, <1>9a

\* The counters of a topic that a step leaves alone, in a log it may extend.
LEMMA OtherTally ==
  ASSUME CInv, NEW k \in ListKey, NEW w \in Contact,
         trace'[k][w] = trace[k][w],
         jobs'[k[1]] = jobs[k[1]], next'[k[1]] = next[k[1]], Base(k[1])' = Base(k[1]),
         log'[k[1]] = log[k[1]] \/ \E e \in Event : log'[k[1]] = Append(log[k[1]], e),
         Losses' = Losses \/ Losses' = Losses + 1,
         deaths' = deaths \/ deaths' = deaths + 1
  PROVE  TallyOf(trace', jobs'[k[1]], Losses', deaths', log'[k[1]], Base(k[1])',
                 next'[k[1]], k, w)
<1>1. PICK j : j = Count(k[1], k[2], w)
  OBVIOUS
<1>2. PICK events : events = log'[k[1]]
  OBVIOUS
<1>3. PICK v, left, f, r, a, b, c :
        /\ v = trace[k][w] /\ left = Times(j, jobs[k[1]]) /\ f = Losses /\ r = deaths
        /\ a = AskedIn(log[k[1]], j, Base(k[1])) /\ b = AskedIn(log[k[1]], j, next[k[1]])
        /\ c = AskedIn(log[k[1]], j, Len(log[k[1]]))
  OBVIOUS
<1>4. v \in Nat /\ left \in Nat /\ f \in Nat /\ r \in Nat /\ a \in Nat /\ b \in Nat /\ c \in Nat
      /\ a <= b /\ b <= c
  BY <1>3, TallyNumbers DEF CInv
<1>5. Tally(v, left, f, r, a, b, c)
  BY <1>1, <1>3 DEF CInv, Tallied, TallyOf
<1>6. /\ AskedIn(events, j, Base(k[1])) = a /\ AskedIn(events, j, next[k[1]]) = b
      /\ AskedIn(events, j, Len(events)) \in Nat /\ AskedIn(events, j, Len(events)) >= c
  <2>0. log[k[1]] \in Seq(Event) /\ Base(k[1]) \in 0..Len(log[k[1]])
        /\ next[k[1]] \in 0..Len(log[k[1]]) /\ Len(log[k[1]]) \in 0..Len(log[k[1]])
    <3>1. log[k[1]] \in Seq(Event) /\ Base(k[1]) \in 0..Len(log[k[1]])
          /\ next[k[1]] \in 0..Len(log[k[1]])
      BY TallyNumbers DEF CInv
    <3>2. QED
      BY <3>1
  <2>1. CASE events = log[k[1]]
    BY <1>3, <1>4, <2>1
  <2>2. ASSUME NEW e \in Event, events = Append(log[k[1]], e)
        PROVE <1>6
    <3>1. /\ AskedIn(events, j, Base(k[1])) = a /\ AskedIn(events, j, next[k[1]]) = b
          /\ AskedIn(events, j, Len(log[k[1]])) = c
      BY <1>3, <2>0, <2>2, AskedBefore
    <3>2. events \in Seq(Event) /\ Len(events) = Len(log[k[1]]) + 1
      BY <2>0, <2>2
    <3>3. Len(log[k[1]]) \in Nat /\ Len(events) \in Nat /\ Len(log[k[1]]) <= Len(events)
          /\ Len(events) <= Len(events) /\ Len(events) \in 0..Len(events)
      BY <2>0, <3>2
    <3>4. AskedIn(events, j, Len(log[k[1]])) <= AskedIn(events, j, Len(events))
      BY <3>2, <3>3, AskedGrows
    <3>5. AskedIn(events, j, Len(events)) \in Nat
      BY <3>2, <3>3, AskingsFinite
    <3>6. QED
      BY <1>4, <3>1, <3>4, <3>5
  <2>3. QED
    BY <1>2, <2>1, <2>2
<1>7. PICK d, f2, r2 : d = AskedIn(events, j, Len(events)) /\ f2 = Losses' /\ r2 = deaths'
  OBVIOUS
<1>8. d \in Nat /\ d >= c /\ f2 \in Nat /\ f2 >= f /\ r2 \in Nat /\ (r2 = r \/ r2 = r + 1)
  BY <1>3, <1>4, <1>6, <1>7
<1>9. Tally(v, left, f2, r2, a, b, d)
  BY <1>4, <1>5, <1>8, TallySteps
<1>10. QED
  BY <1>1, <1>2, <1>3, <1>6, <1>7, <1>9 DEF TallyOf

\* The counters of the topic a step is about, in an unchanged log.
LEMMA OwnTally ==
  ASSUME CInv, NEW t \in Topic, NEW k \in ListKey, NEW w \in Contact, k[1] = t,
         Poll(t) \/ Ltrim(t) \/ Zincrby(t) \/ Fail(t) \/ Commit \/ Ending \/ Start
  PROVE  TallyOf(trace', jobs'[t], Losses', deaths', log'[t], Base(t)', next'[t], k, w)
<1>1. PICK j : j = Count(t, k[2], w)
  OBVIOUS
<1>2. PICK events : events = log[t]
  OBVIOUS
<1>3. PICK v, left, f, r, a, b, c :
        /\ v = trace[k][w] /\ left = Times(j, jobs[t]) /\ f = Losses /\ r = deaths
        /\ a = AskedIn(events, j, Base(t)) /\ b = AskedIn(events, j, next[t])
        /\ c = AskedIn(events, j, Len(events))
  OBVIOUS
<1>4. v \in Nat /\ left \in Nat /\ f \in Nat /\ r \in Nat /\ a \in Nat /\ b \in Nat /\ c \in Nat
      /\ a <= b /\ b <= c
  BY <1>2, <1>3, TallyNumbers DEF CInv
<1>5. Tally(v, left, f, r, a, b, c)
  BY <1>1, <1>2, <1>3 DEF CInv, Tallied, TallyOf
<1>6. /\ Tally(v, 0, f + 1, r, a, b, c)
      /\ \A f2 \in Nat : f2 >= f => Tally(v, 0, f2, r + 1, a, a, c)
      /\ \A f2 \in Nat : f2 > 0 => Tally(v, 0, f2, r + 1, a, b, c) /\ Tally(v, 0, f2, r, a, c, c)
      /\ left = 0 => Tally(v, 0, f, r + 1, a, b, c)
      /\ left = 0 => Tally(v, 0, f, r, b, b, c) /\ \A x \in Nat : Tally(v, x, f, r, a, b + x, c)
      /\ \A x \in Nat : left = x + 1 => Tally(v + 1, x, f, r, a, b, c)
  BY <1>4, <1>5, TallySteps
<1>6a. \A f2 \in Nat : f2 >= f => Tally(v, left, f2, r, a, b, c)
  <2>1. \A f2, r2, c2 \in Nat :
          f2 >= f /\ (r2 = r \/ r2 = r + 1) /\ c2 >= c => Tally(v, left, f2, r2, a, b, c2)
    BY <1>4, <1>5, TallySteps
  <2>2. c >= c
    BY <1>4
  <2>3. QED
    BY <1>4, <2>1, <2>2
<1>7. jobs[t] = <<>> => left = 0
  BY <1>3, TimesInNone
<1>7a. ASSUME Zincrby(t), NEW kk \in ListKey, NEW ww \in Contact,
              kk = Head(jobs[t]).key, ww = Head(jobs[t]).value
       PROVE  trace'[k][w] = IF k = kk /\ w = ww THEN trace[k][w] + 1 ELSE trace[k][w]
  <2>1. TypeOK
    BY DEF CInv, IInv
  <2>2. QED
    BY <1>7a, <2>1, ZincrbyCounts
<1>7b. jobs[t] # <<>> => Tail(jobs[t]) \in Seq(Job) /\ jobs[t] \in Seq(Job)
  BY HeadJob DEF CInv, IInv, TypeOK
<1>7c. committed' = committed => Base(t)' = Base(t)
  BY DEF Base
<1>7d. failures' = failures /\ missed' = missed => Losses' = Losses
  BY DEF Losses
<1> USE DEF CInv, IInv, TypeOK
<1>8. CASE Poll(t)
  <2>1. PICK x : x = Times(j, JobsOf(events[next[t] + 1]))
    OBVIOUS
  <2>2. /\ jobs[t] = <<>> /\ jobs'[t] = JobsOf(events[next[t] + 1]) /\ next'[t] = next[t] + 1
        /\ UNCHANGED <<log, committed, missed, trace, failures, deaths>>
    BY <1>2, <1>8 DEF Poll, Idle, processVars, redisVars, faultVars
  <2>3. next[t] \in Nat /\ events \in Seq(Event) /\ next[t] < Len(events)
    BY <1>2, <1>8 DEF Poll
  <2>4. AskedIn(events, j, next[t] + 1) = b + x
    BY <1>3, <2>1, <2>3, AskedNext
  <2>5. x \in Nat
    <3>1. next[t] + 1 \in 1..Len(events)
      BY <2>3
    <3>2. events[next[t] + 1] \in Event
      BY <2>3, <3>1
    <3>3. QED
      BY <2>1, <3>2, JobsOfType, PlacesFinite
  <2>6. Tally(v, x, f, r, a, b + x, c)
    BY <1>6, <1>7, <2>2, <2>5
  <2>7. QED
    BY <1>1, <1>2, <1>3, <1>7c, <1>7d, <2>1, <2>2, <2>4, <2>6 DEF TallyOf
<1>9. CASE Commit
  <2>1. /\ jobs[t] = <<>> /\ jobs'[t] = <<>> /\ committed'[t] = next[t] /\ next'[t] = next[t]
        /\ UNCHANGED <<log, missed, trace, failures, deaths>>
    BY <1>9 DEF Commit, Idle, processVars, redisVars, faultVars
  <2>1a. Base(t)' = next[t]
    BY <2>1 DEF Base, NoOffset
  <2>2. Tally(v, 0, f, r, b, b, c)
    BY <1>6, <1>7, <2>1
  <2>3. QED
    BY <1>1, <1>2, <1>3, <1>7d, <2>1, <2>1a, <2>2, TimesInNone DEF TallyOf
<1>10. CASE Ltrim(t)
  <2>1. /\ jobs[t] # <<>> /\ Head(jobs[t]).op = "touch" /\ jobs'[t] = Tail(jobs[t])
        /\ UNCHANGED <<log, next, committed, missed, trace, failures, deaths>>
    BY <1>10 DEF Ltrim, KeepOnly, AtCommand, processVars, faultVars
  <2>2. Head(jobs[t]) # j
    BY <1>1, <2>1 DEF Count
  <2>3. Times(j, jobs'[t]) \in Nat /\ left = Times(j, jobs'[t]) + 0
    <3>1. jobs[t] \in Seq(Job) /\ Tail(jobs[t]) \in Seq(Job)
      BY <1>7b, <2>1
    <3>2. Times(j, Tail(jobs[t])) \in Nat
      BY <3>1, PlacesFinite
    <3>3. left = Times(j, Tail(jobs[t])) + 0
      BY <1>3, <2>1, <2>2, <3>1, TimesInTail
    <3>4. QED
      BY <2>1, <3>2, <3>3
  <2>4. Times(j, jobs'[t]) = left
    BY <2>3
  <2>5. QED
    BY <1>1, <1>2, <1>3, <1>5, <1>7c, <1>7d, <2>1, <2>4 DEF TallyOf
<1>11. CASE Zincrby(t)
  <2>1. /\ jobs[t] # <<>> /\ Head(jobs[t]).op = "count" /\ jobs'[t] = Tail(jobs[t])
        /\ UNCHANGED <<log, next, committed, missed, failures, deaths>>
    BY <1>11 DEF Zincrby, processVars, faultVars
  <2>2. PICK x : x = Times(j, Tail(jobs[t]))
    OBVIOUS
  <2>3. jobs[t] \in Seq(Job) /\ Tail(jobs[t]) \in Seq(Job) /\ x \in Nat
    BY <1>7b, <2>1, <2>2, PlacesFinite
  <2>4. PICK h, kk, ww : h = Head(jobs[t]) /\ kk = h.key /\ ww = h.value
    OBVIOUS
  <2>5. h \in Job /\ kk \in ListKey /\ kk[1] = t /\ ww \in Contact
    BY <2>1, <2>4, HeadJob
  <2>6. trace'[k][w] = IF k = kk /\ w = ww THEN v + 1 ELSE v
    BY <1>3, <1>7a, <1>11, <2>4, <2>5
  <2>7. h = j <=> k = kk /\ w = ww
    <3>1. h = [op |-> "count", key |-> kk, value |-> ww]
      BY <2>1, <2>4, <2>5 DEF Job
    <3>2. k = <<t, k[2]>>
      BY DEF ListKey
    <3>3. QED
      BY <1>1, <3>1, <3>2 DEF Count
  <2>8. left = x + IF h = j THEN 1 ELSE 0
    BY <1>3, <2>1, <2>2, <2>3, <2>4, TimesInTail
  <2>9. CASE h = j
    <3>1. left = x + 1 /\ trace'[k][w] = v + 1
      BY <2>6, <2>7, <2>8, <2>9
    <3>2. Tally(v + 1, x, f, r, a, b, c)
      BY <1>6, <2>3, <3>1
    <3>3. QED
      BY <1>1, <1>2, <1>3, <1>7c, <1>7d, <2>1, <2>2, <3>1, <3>2 DEF TallyOf
  <2>10. CASE h # j
    <3>1. left = x /\ trace'[k][w] = v
      BY <2>3, <2>6, <2>7, <2>8, <2>10
    <3>2. QED
      BY <1>1, <1>2, <1>3, <1>5, <1>7c, <1>7d, <2>1, <2>2, <3>1 DEF TallyOf
  <2>11. QED
    BY <2>9, <2>10
<1>12. CASE Fail(t)
  <2>1. /\ jobs'[t] = <<>> /\ failures' = failures + 1
        /\ UNCHANGED <<log, next, committed, missed, trace, deaths>>
    BY <1>12 DEF Fail, processVars, redisVars
  <2>2. Losses' = f + 1
    BY <1>3, <2>1 DEF Losses
  <2>3. QED
    BY <1>1, <1>2, <1>3, <1>6, <1>7c, <2>1, <2>2, TimesInNone DEF TallyOf
<1>13. CASE Ending
  <2>1. /\ EndedAt(t) /\ deaths' = deaths + 1 /\ missed' \in BOOLEAN
        /\ UNCHANGED <<log, committed, trace, failures>>
    BY <1>13, EndFacts
  <2>2. PICK f2, n : f2 = Losses' /\ n = AskedIn(events, j, next'[t])
    OBVIOUS
  <2>3. /\ f2 \in Nat /\ f2 >= f /\ (f2 > 0 \/ (f2 = f /\ ~missed'))
        /\ jobs'[t] = <<>>
    <3>1. CASE missed'
      BY <1>3, <2>1, <2>2, <3>1 DEF Losses, EndedAt
    <3>2. CASE ~missed'
      BY <1>3, <2>1, <2>2, <3>2 DEF Losses, EndedAt
    <3>3. QED
      BY <3>1, <3>2
  <2>4. CASE committed[t] # NoOffset
    <3>1. next'[t] = Base(t)
      BY <2>1, <2>4 DEF EndedAt, Base
    <3>2. Tally(v, 0, f2, r + 1, a, a, c)
      BY <1>4, <1>6, <2>3
    <3>3. QED
      BY <1>1, <1>2, <1>3, <1>7c, <2>1, <2>2, <2>3, <3>1, <3>2, TimesInNone DEF TallyOf
  <2>5. CASE committed[t] = NoOffset
    <3>1. next'[t] = next[t]
      BY <2>1, <2>5 DEF EndedAt
    <3>2. Tally(v, 0, f2, r + 1, a, b, c)
      <4>1. CASE f2 > 0
        BY <1>4, <1>6, <2>3, <4>1
      <4>2. CASE f2 = f /\ ~missed'
        <5>1. left = 0
          BY <1>7, <2>1, <2>5, <4>2 DEF EndedAt
        <5>2. QED
          BY <1>4, <1>6, <4>2, <5>1
      <4>3. QED
        BY <2>3, <4>1, <4>2
    <3>3. QED
      BY <1>1, <1>2, <1>3, <1>7c, <2>1, <2>2, <2>3, <3>1, <3>2, TimesInNone DEF TallyOf
  <2>6. QED
    BY <2>4, <2>5
<1>14. CASE Start
  <2>1. /\ ~up /\ jobs'[t] = jobs[t] /\ missed' = (missed \/ next' # next)
        /\ next'[t] = IF committed[t] = NoOffset THEN Len(log[t]) ELSE next[t]
        /\ UNCHANGED <<log, committed, trace, failures, deaths>>
    BY <1>14 DEF Start, redisVars, faultVars
  <2>2. PICK f2 : f2 = Losses'
    OBVIOUS
  <2>3. f2 \in Nat /\ f2 >= f /\ (f2 > 0 \/ next'[t] = next[t])
    <3>1. missed' <=> missed \/ next' # next
      BY <2>1
    <3>2. CASE missed \/ next' # next
      BY <1>3, <2>1, <2>2, <3>1, <3>2 DEF Losses
    <3>3. CASE ~missed /\ next' = next
      BY <1>3, <2>1, <2>2, <3>1, <3>3 DEF Losses
    <3>4. QED
      BY <3>2, <3>3
  <2>4. CASE next'[t] = next[t]
    <3>1. Tally(v, left, f2, r, a, b, c)
      BY <1>6a, <2>3
    <3>2. QED
      BY <1>1, <1>2, <1>3, <1>7c, <2>1, <2>2, <2>4, <3>1 DEF TallyOf
  <2>5. CASE next'[t] # next[t]
    <3>1. next'[t] = Len(events) /\ f2 > 0
      BY <1>2, <2>1, <2>3, <2>5
    <3>2. left = 0
      BY <1>3, <1>7, <2>1 DEF Running, Idle
    <3>3. Tally(v, 0, f2, r, a, c, c)
      BY <1>4, <1>6, <2>3, <3>1
    <3>4. QED
      BY <1>1, <1>2, <1>3, <1>7c, <2>1, <2>2, <3>1, <3>2, <3>3 DEF TallyOf
  <2>6. QED
    BY <2>4, <2>5
<1>15. QED
  BY <1>8, <1>9, <1>10, <1>11, <1>12, <1>13, <1>14

LEMMA NextTallied == CInv /\ [Next]_vars => Tallied'
<1> SUFFICES ASSUME CInv, [Next]_vars, NEW k \in ListKey, NEW w \in Contact
             PROVE  TallyOf(trace', jobs'[k[1]], Losses', deaths', log'[k[1]],
                            Base(k[1])', next'[k[1]], k, w)
  BY DEF Tallied
<1>0. k[1] \in Topic
  BY DEF ListKey
<1>1. CASE UNCHANGED vars
  BY <1>1, OtherTally DEF vars, processVars, consumerVars, redisVars, faultVars, Losses, Base
<1>2. ASSUME NEW e \in Event, Publish(e)
      PROVE  TallyOf(trace', jobs'[k[1]], Losses', deaths', log'[k[1]],
                     Base(k[1])', next'[k[1]], k, w)
  <2>1. UNCHANGED <<next, committed, jobs, missed, trace, failures, deaths>>
    BY <1>2 DEF Publish, processVars, consumerVars, redisVars, faultVars
  <2>2. log' = [log EXCEPT ![TopicOf(e)] = Append(log[TopicOf(e)], e)] /\ TopicOf(e) \in Topic
    BY <1>2, JobsOfType DEF Publish
  <2>3. log'[k[1]] = log[k[1]] \/ log'[k[1]] = Append(log[k[1]], e)
    BY <1>0, <2>2 DEF CInv, IInv, TypeOK
  <2>4. QED
    BY <2>1, <2>3, OtherTally DEF Losses, Base
<1>3. ASSUME NEW t \in Topic, Lrange(t) \/ Delete(t) \/ Lpush(t)
      PROVE  TallyOf(trace', jobs'[k[1]], Losses', deaths', log'[k[1]],
                     Base(k[1])', next'[k[1]], k, w)
  <2>1. UNCHANGED <<log, next, committed, jobs, missed, trace, failures, deaths>>
    BY <1>3 DEF Lrange, Delete, Lpush, PushBack, processVars, redisVars, faultVars
  <2>2. QED
    BY <2>1, OtherTally DEF Losses, Base
<1>4. ASSUME NEW t \in Topic,
             Poll(t) \/ Ltrim(t) \/ Zincrby(t) \/ Fail(t)
      PROVE  TallyOf(trace', jobs'[k[1]], Losses', deaths', log'[k[1]],
                     Base(k[1])', next'[k[1]], k, w)
  <2>1. CASE k[1] = t
    BY <1>4, <2>1, OwnTally
  <2>2. CASE k[1] # t
    <3>1. /\ log' = log /\ jobs'[k[1]] = jobs[k[1]] /\ next'[k[1]] = next[k[1]]
          /\ committed' = committed /\ missed' = missed
          /\ (failures' = failures \/ failures' = failures + 1)
          /\ deaths' = deaths
      BY <1>0, <1>4, <2>2 DEF CInv, IInv, TypeOK, Poll, Ltrim, KeepOnly, Zincrby, Fail,
         processVars, redisVars, faultVars
    <3>1a. Base(k[1])' = Base(k[1]) /\ (Losses' = Losses \/ Losses' = Losses + 1)
      BY <3>1 DEF Base, Losses, CInv, IInv, TypeOK
    <3>2. trace'[k][w] = trace[k][w]
      <4>1. CASE Zincrby(t)
        <5>1. TypeOK /\ jobs[t] # <<>>
          BY <4>1 DEF CInv, IInv, Zincrby
        <5>2. PICK kk, ww : kk = Head(jobs[t]).key /\ ww = Head(jobs[t]).value
          OBVIOUS
        <5>3. kk \in ListKey /\ kk[1] = t /\ ww \in Contact
          BY <5>1, <5>2, HeadJob DEF CInv, IInv
        <5>4. trace'[k][w] = IF k = kk /\ w = ww THEN trace[k][w] + 1 ELSE trace[k][w]
          BY <4>1, <5>1, <5>2, <5>3, ZincrbyCounts
        <5>5. QED
          BY <2>2, <5>3, <5>4
      <4>2. CASE ~Zincrby(t)
        BY <1>4, <4>2 DEF Poll, Ltrim, KeepOnly, Fail, redisVars
      <4>3. QED
        BY <4>1, <4>2
    <3>3. QED
      BY <3>1, <3>1a, <3>2, OtherTally
  <2>3. QED
    BY <2>1, <2>2
<1>5. CASE Commit \/ Ending \/ Start
  BY <1>0, <1>5, OwnTally
<1>6. QED
  BY <1>1, <1>2, <1>3, <1>4, <1>5 DEF Next, Command, Ending

\* For any events and any number of faults, a counter is at least what the
\* committed events ask for when no command failed, and at most what all events
\* ask for, once for each run of the consumer.
THEOREM CountersAreBounded == Spec => []CountsBounded
<1>1. Init => CInv
  <2>1. SUFFICES ASSUME Init PROVE Running /\ Offsets /\ Tallied
    BY InitIInv DEF CInv
  <2>2. Running /\ Offsets
    BY <2>1 DEF Init, Offsets, NoOffset, Running, Idle
  <2>3. ASSUME NEW k \in ListKey, NEW w \in Contact
        PROVE  TallyOf(trace, jobs[k[1]], Losses, deaths, log[k[1]], Base(k[1]),
                       next[k[1]], k, w)
    <3>1. k[1] \in Topic
      BY DEF ListKey
    <3>2. trace[k][w] = 0 /\ jobs[k[1]] = <<>> /\ Losses = 0 /\ deaths = 0 /\ log[k[1]] = <<>>
          /\ Base(k[1]) = 0 /\ next[k[1]] = 0 /\ Len(<<>>) = 0
      BY <2>1, <3>1 DEF Init, Losses, Base
    <3>3. QED
      BY <3>2, TimesInNone, AskedNone DEF TallyOf, Tally
  <2>4. QED
    BY <2>2, <2>3 DEF Tallied
<1>2. CInv /\ [Next]_vars => Offsets' /\ Tallied'
  BY OffsetsStep, NextTallied DEF CInv
<1>3. Spec => []CInv
  BY <1>1, <1>2, InductiveInvariant, RunningInvariant, PTL DEF Spec, CInv
<1>4. CInv => CountsBounded
  <2>1. SUFFICES ASSUME CInv, NEW k \in ListKey, NEW w \in Contact, NEW j, j = Count(k[1], k[2], w)
                 PROVE  /\ failures = 0 /\ ~missed => trace[k][w] >= Asked(j, committed[k[1]])
                        /\ trace[k][w] <= (1 + deaths) * Asked(j, Len(log[k[1]]))
    BY DEF CountsBounded
  <2>2. j.key[1] = k[1]
    BY <2>1 DEF Count
  <2>3. PICK v, left, f, r, a, b, c :
          /\ v = trace[k][w] /\ left = Times(j, jobs[k[1]]) /\ f = Losses /\ r = deaths
          /\ a = AskedIn(log[k[1]], j, Base(k[1])) /\ b = AskedIn(log[k[1]], j, next[k[1]])
          /\ c = AskedIn(log[k[1]], j, Len(log[k[1]]))
    OBVIOUS
  <2>4. v \in Nat /\ left \in Nat /\ f \in Nat /\ r \in Nat /\ a \in Nat /\ b \in Nat /\ c \in Nat
        /\ b <= c
    BY <2>1, <2>3, TallyNumbers DEF CInv
  <2>5. Tally(v, left, f, r, a, b, c)
    BY <2>1, <2>3 DEF CInv, Tallied, TallyOf
  <2>6. PICK x : x = r * c
    OBVIOUS
  <2>7. x \in Nat /\ (r + 1) * c = x + c /\ 1 + r = r + 1
    BY <2>4, <2>6, TimesMonotone
  <2>8. (f = 0 => v >= a) /\ v + left <= x + b
    BY <2>5, <2>6 DEF Tally
  <2>9. v <= x + c
    BY <2>4, <2>7, <2>8
  <2>10. v <= (1 + r) * c
    BY <2>7, <2>9
  <2>11. Asked(j, committed[k[1]]) = a /\ Asked(j, Len(log[k[1]])) = c
    <3>1. AskedIn(log[k[1]], j, committed[k[1]]) = AskedIn(log[k[1]], j, Base(k[1]))
      BY NothingBefore DEF Base
    <3>2. QED
      BY <2>2, <2>3, <3>1, AskedIsAskedIn
  <2>12. failures = 0 /\ ~missed => f = 0
    BY <2>3 DEF Losses
  <2>13. QED
    BY <2>3, <2>8, <2>10, <2>11, <2>12
<1>5. QED
  BY <1>3, <1>4, PTL
-----------------------------------------------------------------------------
(* The abstract specification, and the order of the lists                 *)

\* Between LRANGE and DELETE nobody else writes the list: what the consumer
\* holds is what it deletes.
HoldsList ==
  \A t \in Topic : AtCommand(t, "delete") => contacts[t] = recent[Head(jobs[t]).key]

\* A step of the consumer of topic t changes its own variables only.
OnlyTopic(t) ==
  /\ \E j : jobs' = [jobs EXCEPT ![t] = j]
  /\ \E s : step' = [step EXCEPT ![t] = s]
  /\ \E c : contacts' = [contacts EXCEPT ![t] = c]

-----------------------------------------------------------------------------
LEMMA HoldsListStep == IInv /\ HoldsList /\ [Next]_vars => HoldsList'
<1> SUFFICES ASSUME IInv, HoldsList, [Next]_vars, NEW u \in Topic, AtCommand(u, "delete")'
             PROVE  contacts'[u] = recent'[Head(jobs'[u]).key]
  BY DEF HoldsList
<1>1. jobs'[u] # <<>> /\ Head(jobs'[u]).op = "touch" /\ step'[u] = "delete"
  BY DEF AtCommand
<1> USE DEF AtCommand
\* A step of topic t: one of another topic than u leaves u's jobs, step and local
\* copy alone and writes lists of its own.
<1>2. ASSUME NEW t \in Topic, u # t,
             OnlyTopic(t),
             \/ UNCHANGED recent
             \/ jobs[t] # <<>> /\ \E l : recent' = [recent EXCEPT ![Head(jobs[t]).key] = l]
      PROVE  contacts'[u] = recent'[Head(jobs'[u]).key]
  <2>1. jobs'[u] = jobs[u] /\ step'[u] = step[u] /\ contacts'[u] = contacts[u]
    BY <1>2 DEF IInv, TypeOK, OnlyTopic
  <2>2. AtCommand(u, "delete") /\ contacts[u] = recent[Head(jobs[u]).key]
    BY <1>1, <2>1 DEF HoldsList
  <2>3. Head(jobs[u]).key \in ListKey /\ Head(jobs[u]).key[1] = u
    BY <2>2, HeadJob DEF IInv
  <2>4. jobs[t] # <<>> => Head(jobs[t]).key # Head(jobs[u]).key
    BY <1>2, <2>3, HeadJob DEF IInv
  <2>5. recent'[Head(jobs[u]).key] = recent[Head(jobs[u]).key]
    BY <1>2, <2>3, <2>4 DEF IInv, TypeOK
  <2>6. QED
    BY <2>1, <2>2, <2>5
<1>3. CASE UNCHANGED vars \/ \E e \in Event : Publish(e)
  <2>1. UNCHANGED <<jobs, step, contacts, recent>>
    BY <1>3 DEF vars, consumerVars, redisVars, Publish
  <2>2. QED
    BY <1>1, <2>1 DEF HoldsList
<1>4. ASSUME NEW t \in Topic, Poll(t) PROVE contacts'[u] = recent'[Head(jobs'[u]).key]
  <2>1. step[t] = "lrange" /\ UNCHANGED <<step, contacts, recent>>
        /\ jobs' = [jobs EXCEPT ![t] = JobsOf(log[t][next[t] + 1])]
    BY <1>4 DEF Poll, Idle, redisVars, IInv, InMiddle
  <2>2. u # t
    BY <1>1, <2>1
  <2>3. jobs'[u] = jobs[u]
    BY <2>1, <2>2 DEF IInv, TypeOK
  <2>4. QED
    BY <1>1, <2>1, <2>3 DEF HoldsList
<1>5. CASE Commit \/ Start
  <2>1. UNCHANGED <<jobs, step, contacts, recent>>
    BY <1>5 DEF Commit, Start, redisVars
  <2>2. QED
    BY <1>1, <2>1 DEF HoldsList
<1>6. ASSUME NEW t \in Topic, Lrange(t) PROVE contacts'[u] = recent'[Head(jobs'[u]).key]
  <2>1. /\ contacts' = [contacts EXCEPT ![t] = recent[Head(jobs[t]).key]]
        /\ step' = [step EXCEPT ![t] = "delete"] /\ UNCHANGED <<jobs, recent>>
    BY <1>6 DEF Lrange, redisVars
  <2>2. CASE u = t
    BY <2>1, <2>2 DEF IInv, TypeOK
  <2>3. CASE u # t
    <3>1. step'[u] = step[u] /\ contacts'[u] = contacts[u]
      BY <2>1, <2>3 DEF IInv, TypeOK
    <3>2. QED
      BY <1>1, <2>1, <3>1 DEF HoldsList
  <2>4. QED
    BY <2>2, <2>3
<1>7. ASSUME NEW t \in Topic, Delete(t) \/ Lpush(t) \/ Ltrim(t) \/ Zincrby(t) \/ Fail(t)
      PROVE contacts'[u] = recent'[Head(jobs'[u]).key]
  <2>1. /\ step'[t] # "delete"
        /\ \/ UNCHANGED recent
           \/ jobs[t] # <<>> /\ \E l : recent' = [recent EXCEPT ![Head(jobs[t]).key] = l]
    <3>1. CASE Delete(t)
      BY <3>1 DEF Delete, IInv, TypeOK
    <3>2. CASE Lpush(t)
      BY <3>2 DEF Lpush, PushBack, IInv, TypeOK
    <3>3. CASE Ltrim(t)
      BY <3>3 DEF Ltrim, KeepOnly, IInv, TypeOK
    <3>4. CASE Zincrby(t)
      <4>1. step[t] = "lrange"
        BY <3>4 DEF Zincrby, IInv, InMiddle
      <4>2. QED
        BY <3>4, <4>1 DEF Zincrby
    <3>5. CASE Fail(t)
      BY <3>5 DEF Fail, redisVars, IInv, TypeOK
    <3>6. QED
      BY <1>7, <3>1, <3>2, <3>3, <3>4, <3>5
  <2>2. OnlyTopic(t)
    <3>1. /\ jobs = [jobs EXCEPT ![t] = jobs[t]] /\ step = [step EXCEPT ![t] = step[t]]
          /\ contacts = [contacts EXCEPT ![t] = contacts[t]]
      BY DEF IInv, TypeOK
    <3>2. QED
      BY <1>7, <3>1 DEF Delete, Lpush, PushBack, Ltrim, KeepOnly, Zincrby, Fail, OnlyTopic
  <2>3. u # t
    BY <1>1, <2>1
  <2>4. QED
    BY <1>2, <2>1, <2>2, <2>3
<1>8. CASE Ending
  BY <1>1, <1>8, EndFacts DEF EndedAt
<1>9. QED
  BY <1>1, <1>3, <1>4, <1>5, <1>6, <1>7, <1>8 DEF Next, Command, Ending

-----------------------------------------------------------------------------
LEMMA EmptyTrim == LTrim(<<>>, MaxBuffer) = <<>>
<1>1. MaxBuffer \in Nat /\ MaxBuffer > 0 /\ Len(<<>>) = 0
  BY BufferAssumption
<1>2. QED
  BY <1>1 DEF LTrim

\* The abstract specification's list operators are those of the detailed one.
LEMMA SameOperators ==
  \A s, v, n : /\ Abstract!LTrim(s, n) = LTrim(s, n)
               /\ Abstract!MoveToFront(s, v) = MoveToFront(s, v)
BY DEF LTrim, Abstract!LTrim, MoveToFront, Abstract!MoveToFront, LPush, Abstract!LPush,
       Reverse, Abstract!Reverse, RemoveFirst, Abstract!RemoveFirst,
       SelectInSeq, Abstract!SelectInSeq, RemoveAt, Abstract!RemoveAt, Min, Abstract!Min

LEMMA InitView == Init => Abstract!Init
<1>1. SUFFICES ASSUME Init
               PROVE  View = [k \in ListKey |-> <<>>] /\ Kept = View /\ failures + deaths = 0
  BY DEF Abstract!Init
<1>2. LTrim(<<>>, MaxBuffer) = <<>>
  BY EmptyTrim
<1>3. \A k \in ListKey : ~Rewriting(k)
  BY <1>1 DEF Init, Rewriting, AtCommand, ListKey
<1>4. QED
  BY <1>1, <1>2, <1>3 DEF Init, View, Kept

-----------------------------------------------------------------------------
\* When no list is being rewritten, the lists are made of what is read of them.
LEMMA NoneHidden ==
  /\ (\A k \in ListKey : ~Rewriting(k)) => Kept = View
  /\ (\A k \in ListKey : ~Rewriting(k)') => Kept' = View'
BY DEF Kept, View

\* Only the list that the event under way is at can be hidden.
LEMMA OneHidden ==
  ASSUME NEW t \in Topic, NEW k \in ListKey
  PROVE  /\ (\A s \in Topic : s # t => jobs[s] = <<>>) /\ Rewriting(k)
              => k = Head(jobs[t]).key /\ step[t] = "lpush" /\ jobs[t] # <<>>
         /\ (\A s \in Topic : s # t => jobs'[s] = <<>>) /\ Rewriting(k)'
              => k = Head(jobs'[t]).key /\ step'[t] = "lpush" /\ jobs'[t] # <<>>
<1>1. k[1] \in Topic
  BY DEF ListKey
<1>2. QED
  BY <1>1 DEF Rewriting, AtCommand

\* A step that changes one list changes what is read of it.
LEMMA ChangedView ==
  ASSUME TypeOK, NEW k \in ListKey, NEW l, recent' = [recent EXCEPT ![k] = l]
  PROVE  View' = [View EXCEPT ![k] = LTrim(l, MaxBuffer)]
BY DEF View, TypeOK

\* The other topics have nothing under way while topic t has, or begins.
LEMMA OneTopic ==
  ASSUME IInv, Running, NEW t \in Topic, Poll(t) \/ Command(t) \/ Fail(t)
  PROVE  \A s \in Topic : s # t => jobs[s] = <<>> /\ jobs'[s] = <<>>
<1>1. \A s \in Topic : s # t => jobs'[s] = jobs[s]
  BY DEF Poll, Command, Lrange, Delete, Lpush, PushBack, Ltrim, KeepOnly, Zincrby, Fail,
         IInv, TypeOK
<1>2. jobs[t] # <<>> \/ Idle
  BY DEF Poll, Command, Lrange, Delete, Lpush, PushBack, Ltrim, KeepOnly, Zincrby, Fail, AtCommand
<1>3. QED
  BY <1>1, <1>2 DEF Running, Idle

\* Taking an event, reading a list, trimming it and counting show nothing:
\* what LTRIM cuts off nobody reads.
LEMMA QuietView ==
  ASSUME IInv, Running, NEW t \in Topic, Poll(t) \/ Lrange(t) \/ Ltrim(t) \/ Zincrby(t)
  PROVE  UNCHANGED Abstract!vars
<1>1. step[t] # "lpush" /\ step'[t] # "lpush" /\ UNCHANGED faultVars
  <2>1. CASE Poll(t)
    BY <2>1 DEF Poll, Idle, IInv, InMiddle
  <2>2. CASE Lrange(t)
    BY <2>2 DEF Lrange, AtCommand, IInv, TypeOK
  <2>3. CASE Ltrim(t)
    BY <2>3 DEF Ltrim, KeepOnly, AtCommand, IInv, TypeOK
  <2>4. CASE Zincrby(t)
    BY <2>4 DEF Zincrby, IInv, InMiddle
  <2>5. QED
    BY <2>1, <2>2, <2>3, <2>4
<1>2. Kept = View /\ Kept' = View'
  <2>1. \A s \in Topic : s # t => jobs[s] = <<>> /\ jobs'[s] = <<>>
    BY OneTopic DEF Command
  <2>2. \A k \in ListKey : ~Rewriting(k) /\ ~Rewriting(k)'
    BY <1>1, <2>1, OneHidden
  <2>3. QED
    BY <2>2, NoneHidden
<1>3. View' = View
  <2>1. CASE Ltrim(t)
    <3>1. PICK k : k = Head(jobs[t]).key
      OBVIOUS
    <3>2. k \in ListKey /\ recent' = [recent EXCEPT ![k] = LTrim(recent[k], MaxBuffer)]
      BY <2>1, <3>1, HeadJob DEF Ltrim, KeepOnly, AtCommand, IInv
    <3>3. recent[k] \in Seq(Contact) /\ MaxBuffer \in Nat
      BY <3>2, BufferAssumption DEF IInv, TypeOK
    <3>4. LTrim(LTrim(recent[k], MaxBuffer), MaxBuffer) = View[k]
      BY <3>2, <3>3, TrimTwice DEF View
    <3>5. View' = [View EXCEPT ![k] = View[k]]
      BY <3>2, <3>4, ChangedView DEF IInv
    <3>6. QED
      BY <3>5 DEF View
  <2>2. CASE ~Ltrim(t)
    BY <2>2 DEF Poll, Lrange, Zincrby, redisVars, View
  <2>3. QED
    BY <2>1, <2>2
<1>4. QED
  BY <1>1, <1>2, <1>3 DEF Abstract!vars, faultVars

\* Deleting the list hides it: what was read of it is in the consumer's hands.
LEMMA DeleteView ==
  ASSUME IInv, Running, HoldsList, NEW t \in Topic, Delete(t)
  PROVE  Abstract!Next
<1>0. PICK k : k = Head(jobs[t]).key
  OBVIOUS
<1>1. /\ k \in ListKey /\ k[1] = t /\ jobs[t] # <<>> /\ Head(jobs[t]).op = "touch" /\ step[t] = "delete"
      /\ recent' = [recent EXCEPT ![k] = <<>>] /\ step' = [step EXCEPT ![t] = "lpush"]
      /\ UNCHANGED <<jobs, contacts, faultVars>>
  BY <1>0, HeadJob DEF Delete, AtCommand, IInv
<1>2. contacts[t] = recent[k]
  BY <1>0, <1>1 DEF HoldsList, AtCommand
<1>3. \A s \in Topic : s # t => jobs[s] = <<>> /\ jobs'[s] = <<>>
  BY OneTopic DEF Command
<1>4. \A l \in ListKey : ~Rewriting(l) /\ (Rewriting(l)' => l = k)
  BY <1>0, <1>1, <1>3, OneHidden
<1>5. Kept = View
  BY <1>4, NoneHidden
<1>6. View' = [View EXCEPT ![k] = <<>>]
  BY <1>1, ChangedView, EmptyTrim DEF IInv
<1>7. Kept' = Kept
  <2>1. \A l \in ListKey : l # k => Kept'[l] = Kept[l]
    BY <1>1, <1>4 DEF Kept, IInv, TypeOK
  <2>2. Rewriting(k)'
    BY <1>0, <1>1 DEF Rewriting, AtCommand, IInv, TypeOK
  <2>3. Kept'[k] = LTrim(contacts[t], MaxBuffer) /\ Kept[k] = LTrim(recent[k], MaxBuffer)
    BY <1>1, <1>4, <2>2 DEF Kept
  <2>4. Kept' = [l \in ListKey |-> Kept'[l]] /\ Kept = [l \in ListKey |-> Kept[l]]
    BY DEF Kept
  <2>5. QED
    BY <1>2, <2>1, <2>3, <2>4
<1>8. Abstract!Hide(k)
  BY <1>1, <1>5, <1>6, <1>7 DEF Abstract!Hide, faultVars
<1>9. QED
  BY <1>1, <1>8 DEF Abstract!Next

\* Pushing everything back shows the list again, the contact at its head.
LEMMA LpushView ==
  ASSUME IInv, Running, NEW t \in Topic, Lpush(t)
  PROVE  Abstract!Next
<1>0. PICK k, v : k = Head(jobs[t]).key /\ v = Head(jobs[t]).value
  OBVIOUS
<1>0a. PICK moved : moved = MoveToFront(contacts[t], v)
  OBVIOUS
<1>1. /\ k \in ListKey /\ k[1] = t /\ v \in Contact
      /\ jobs[t] # <<>> /\ Head(jobs[t]).op = "touch" /\ step[t] = "lpush"
  BY <1>0, HeadJob DEF Lpush, PushBack, AtCommand, IInv
<1>2. recent[k] = <<>>
  BY <1>0, <1>1 DEF IInv, InMiddle, AtCommand
<1>3. /\ recent' = [recent EXCEPT ![k] = moved] /\ step' = [step EXCEPT ![t] = "ltrim"]
      /\ UNCHANGED <<jobs, contacts, faultVars>>
  BY <1>0, <1>0a, <1>2 DEF Lpush, PushBack, MoveToFront
<1>4. \A s \in Topic : s # t => jobs[s] = <<>> /\ jobs'[s] = <<>>
  BY OneTopic DEF Command
<1>5. \A l \in ListKey : ~Rewriting(l)' /\ (Rewriting(l) => l = k)
  <2>1. step'[t] # "lpush"
    BY <1>3 DEF IInv, TypeOK
  <2>2. QED
    BY <1>0, <1>4, <2>1, OneHidden
<1>6. View[k] = <<>> /\ Kept[k] = LTrim(contacts[t], MaxBuffer)
  <2>1. Rewriting(k)
    BY <1>0, <1>1 DEF Rewriting, AtCommand
  <2>2. QED
    BY <1>1, <1>2, <2>1, EmptyTrim DEF View, Kept
<1>7. LTrim(moved, MaxBuffer) = LTrim(MoveToFront(Kept[k], v), MaxBuffer)
  <2>1. contacts[t] \in Seq(Contact) /\ IsInjective(contacts[t]) /\ MaxBuffer \in Nat \ {0}
    BY BufferAssumption DEF IInv, TypeOK, SoundRead
  <2>2. QED
    BY <1>0a, <1>1, <1>6, <2>1, TrimBeforeMove
<1>8. View' = Kept'
  BY <1>5, NoneHidden
<1>9. Kept' = [Kept EXCEPT ![k] = LTrim(MoveToFront(@, v), MaxBuffer)]
  <2>1. \A l \in ListKey : l # k => Kept'[l] = Kept[l]
    BY <1>1, <1>3, <1>5 DEF Kept, IInv, TypeOK
  <2>2. Kept'[k] = LTrim(moved, MaxBuffer)
    BY <1>1, <1>3, <1>5 DEF Kept, IInv, TypeOK
  <2>3. Kept' = [l \in ListKey |-> Kept'[l]] /\ Kept = [l \in ListKey |-> Kept[l]]
    BY DEF Kept
  <2>4. QED
    BY <1>1, <1>7, <2>1, <2>2, <2>3
<1>10. Abstract!Show(k, v)
  BY <1>3, <1>6, <1>8, <1>9, SameOperators DEF Abstract!Show, faultVars
<1>11. QED
  BY <1>1, <1>10 DEF Abstract!Next

\* A fault costs nothing but the list that is hidden.
LEMMA FaultView ==
  ASSUME IInv, Running, Ending \/ \E t \in Topic : Fail(t)
  PROVE  Abstract!Next
<1>1. \A t \in Topic : jobs'[t] = <<>>
  <2>1. CASE Ending
    BY <2>1, EndFacts DEF EndedAt
  <2>2. ASSUME NEW t \in Topic, Fail(t) PROVE \A s \in Topic : jobs'[s] = <<>>
    <3>1. jobs'[t] = <<>>
      BY <2>2 DEF Fail, IInv, TypeOK
    <3>2. QED
      BY <2>2, <3>1, OneTopic
  <2>3. QED
    BY <2>1, <2>2
<1>2. recent' = recent /\ failures' + deaths' = (failures + deaths) + 1
  <2>1. failures \in Nat /\ deaths \in Nat
    BY DEF IInv, TypeOK
  <2>2. CASE Ending
    BY <2>1, <2>2, EndFacts
  <2>3. CASE \E t \in Topic : Fail(t)
    BY <2>1, <2>3 DEF Fail, redisVars
  <2>4. QED
    BY <2>2, <2>3
<1>3. \A k \in ListKey : ~Rewriting(k)'
  BY <1>1 DEF Rewriting, AtCommand, ListKey
<1>4. View' = View
  BY <1>2 DEF View
<1>5. Kept' = View
  BY <1>3, <1>4, NoneHidden
<1>6. QED
  BY <1>2, <1>4, <1>5 DEF Abstract!Fault, Abstract!Next

LEMMA NextView == IInv /\ Running /\ HoldsList /\ [Next]_vars => [Abstract!Next]_(Abstract!vars)
<1> SUFFICES ASSUME IInv, Running, HoldsList, [Next]_vars PROVE [Abstract!Next]_(Abstract!vars)
  OBVIOUS
<1>1. CASE UNCHANGED vars \/ (\E e \in Event : Publish(e)) \/ Commit \/ Start
  <2>1. UNCHANGED <<jobs, step, contacts, recent, faultVars>>
    BY <1>1 DEF vars, consumerVars, redisVars, Publish, Commit, Start
  <2>2. View' = View /\ Kept' = Kept
    BY <2>1 DEF View, Kept, Rewriting, AtCommand
  <2>3. QED
    BY <2>1, <2>2 DEF Abstract!vars, faultVars
<1>2. ASSUME NEW t \in Topic, Poll(t) \/ Lrange(t) \/ Ltrim(t) \/ Zincrby(t)
      PROVE  UNCHANGED Abstract!vars
  BY <1>2, QuietView
<1>3. ASSUME NEW t \in Topic, Delete(t) PROVE Abstract!Next
  BY <1>3, DeleteView
<1>4. ASSUME NEW t \in Topic, Lpush(t) PROVE Abstract!Next
  BY <1>4, LpushView
<1>5. CASE Ending \/ \E t \in Topic : Fail(t)
  BY <1>5, FaultView
<1>6. QED
  BY <1>1, <1>2, <1>3, <1>4, <1>5 DEF Next, Command, Ending

\* cache.py's commands on the lists, failing and dying anywhere, show a reader
\* each list whole or, between DELETE and LPUSH, empty: it comes back with one
\* contact moved to its head, unless a fault loses it.
THEOREM ImplementsView == Spec => RefinesView
<1>1. Init => HoldsList
  BY DEF Init, HoldsList, AtCommand
<1>2. Spec => []HoldsList
  BY <1>1, InductiveInvariant, HoldsListStep, PTL DEF Spec
<1>3. Spec => Abstract!Spec
  BY <1>2, InductiveInvariant, RunningInvariant, InitView, NextView, PTL DEF Spec, Abstract!Spec
<1>4. QED
  BY <1>3 DEF RefinesView

-----------------------------------------------------------------------------
(* The last event that puts a contact at the head of a list                *)

LEMMA NatMin ==
  ASSUME NEW S, S \subseteq Nat, S # {}
  PROVE  \E m \in S : \A i \in S : m <= i
<1>1. PICK m \in S : \A y \in S : ~(<<y, m>> \in OpToRel(<, Nat))
  BY WFMin, NatLessThanWellFounded
<1>2. \A y \in S : ~(y < m)
  BY <1>1 DEF OpToRel
<1>3. QED
  BY <1>2

LEMMA NatMax ==
  ASSUME NEW n \in Nat, NEW S, S \subseteq 0..n, S # {}
  PROVE  \E m \in S : \A i \in S : i <= m
<1> DEFINE T == {n - i : i \in S}
<1>1. T \subseteq Nat /\ T # {}
  <2>1. \A i \in S : n - i \in Nat
    OBVIOUS
  <2>2. QED
    BY <2>1
<1>2. PICK d \in T : \A i \in T : d <= i
  <2> HIDE DEF T
  <2>1. QED
    BY <1>1, NatMin
<1>3. PICK m \in S : d = n - m
  OBVIOUS
<1>4. \A i \in S : n - m <= n - i /\ i \in 0..n
  BY <1>2, <1>3
<1>5. QED
  BY <1>4

\* Whether an event asks to put v at the head of list k.
Asks(e, k, v) == Contains(JobsOf(e), Touch(k[1], k[2], v))
Latest(events, k, v, n) == Max({p \in 1..n : Asks(events[p], k, v)} \cup {0})

LEMMA LastTouchIsLatest ==
  \A k, v : LastTouch(k, v) = Latest(log[k[1]], k, v, Len(log[k[1]]))
BY DEF LastTouch, Latest, Asks

LEMMA LatestIs ==
  ASSUME NEW events, NEW k, NEW v, NEW n \in Nat
  PROVE  /\ Latest(events, k, v, n) \in 0..n
         /\ Latest(events, k, v, n) > 0 => Asks(events[Latest(events, k, v, n)], k, v)
         /\ \A p \in 1..n : Asks(events[p], k, v) => p <= Latest(events, k, v, n)
<1> DEFINE S == {p \in 1..n : Asks(events[p], k, v)} \cup {0}
<1>1. S \subseteq 0..n /\ S # {}
  OBVIOUS
<1>2. \E m \in S : \A i \in S : m >= i
  <2> HIDE DEF S
  <2>1. PICK m \in S : \A i \in S : i <= m
    BY <1>1, NatMax
  <2>2. \A i \in S : m >= i
    BY <1>1, <2>1
  <2>3. QED
    BY <2>2
<1>3. Latest(events, k, v, n) \in S /\ \A i \in S : Latest(events, k, v, n) >= i
  <2>1. Latest(events, k, v, n) = Max(S)
    BY DEF Latest
  <2> HIDE DEF S
  <2>2. QED
    BY <1>2, <2>1 DEF Max
<1>4. QED
  BY <1>1, <1>3

LEMMA LatestUnique ==
  ASSUME NEW events, NEW k, NEW v, NEW n \in Nat, NEW m \in 0..n,
         m > 0 => Asks(events[m], k, v),
         \A p \in 1..n : Asks(events[p], k, v) => p <= m
  PROVE  Latest(events, k, v, n) = m
<1>1. PICK l : l = Latest(events, k, v, n)
  OBVIOUS
<1>2. /\ l \in 0..n /\ (l > 0 => Asks(events[l], k, v))
      /\ \A p \in 1..n : Asks(events[p], k, v) => p <= l
  BY <1>1, LatestIs
<1>3. l <= m
  BY <1>2
<1>4. m <= l
  BY <1>2
<1>5. QED
  BY <1>1, <1>2, <1>3, <1>4

LEMMA LatestNext ==
  ASSUME NEW events, NEW k, NEW v, NEW n \in Nat
  PROVE  /\ Asks(events[n + 1], k, v) => Latest(events, k, v, n + 1) = n + 1
         /\ ~Asks(events[n + 1], k, v) => Latest(events, k, v, n + 1) = Latest(events, k, v, n)
<1>1. PICK l : l = Latest(events, k, v, n)
  OBVIOUS
<1>2. /\ l \in 0..n /\ (l > 0 => Asks(events[l], k, v))
      /\ \A p \in 1..n : Asks(events[p], k, v) => p <= l
  BY <1>1, LatestIs
<1>3. n + 1 \in Nat /\ n + 1 \in 0..(n + 1) /\ l \in 0..(n + 1)
      /\ \A p \in 1..(n + 1) : p <= n + 1 /\ (p \in 1..n \/ p = n + 1)
  BY <1>2
<1>4. CASE Asks(events[n + 1], k, v)
  BY <1>3, <1>4, LatestUnique
<1>5. CASE ~Asks(events[n + 1], k, v)
  <2>1. \A p \in 1..(n + 1) : Asks(events[p], k, v) => p <= l
    BY <1>2, <1>3, <1>5
  <2>2. Latest(events, k, v, n + 1) = l
    BY <1>2, <1>3, <2>1, LatestUnique
  <2>3. QED
    BY <1>1, <1>5, <2>2
<1>6. QED
  BY <1>4, <1>5

\* A longer history moves the last event forward, or leaves it.
LEMMA LatestLater ==
  ASSUME NEW events, NEW k, NEW v, NEW m \in Nat, NEW n \in Nat, m <= n
  PROVE  /\ Latest(events, k, v, m) \in 0..m /\ Latest(events, k, v, n) \in 0..n
         /\ Latest(events, k, v, m) <= Latest(events, k, v, n)
         /\ Latest(events, k, v, n) <= m => Latest(events, k, v, m) = Latest(events, k, v, n)
<1>1. PICK l, h : l = Latest(events, k, v, m) /\ h = Latest(events, k, v, n)
  OBVIOUS
<1>2. /\ l \in 0..m /\ (l > 0 => Asks(events[l], k, v))
      /\ \A p \in 1..m : Asks(events[p], k, v) => p <= l
  BY <1>1, LatestIs
<1>3. /\ h \in 0..n /\ (h > 0 => Asks(events[h], k, v))
      /\ \A p \in 1..n : Asks(events[p], k, v) => p <= h
  BY <1>1, LatestIs
<1>4. l <= h
  BY <1>2, <1>3
<1>5. h <= m => h <= l
  BY <1>2, <1>3
<1>6. QED
  BY <1>1, <1>2, <1>3, <1>4, <1>5

LEMMA LatestBefore ==
  ASSUME NEW events \in Seq(Event), NEW e \in Event, NEW k, NEW v, NEW n \in 0..Len(events)
  PROVE  Latest(Append(events, e), k, v, n) = Latest(events, k, v, n)
<1>1. \A p \in 1..n : Append(events, e)[p] = events[p]
  OBVIOUS
<1>2. QED
  BY <1>1 DEF Latest

\* An event puts at most one contact at the head of a list.
LEMMA AsksOne ==
  ASSUME NEW e \in Event, NEW k, NEW v, NEW w, Asks(e, k, v), Asks(e, k, w)
  PROVE  v = w
<1>0. PICK jv, jw : jv = Touch(k[1], k[2], v) /\ jw = Touch(k[1], k[2], w)
  OBVIOUS
<1>0a. /\ jv.op = "touch" /\ jw.op = "touch" /\ jv.key = jw.key /\ jv.value = v /\ jw.value = w
  BY <1>0 DEF Touch
<1>1. PICK i, h \in 1..Len(JobsOf(e)) : JobsOf(e)[i] = jv /\ JobsOf(e)[h] = jw
  BY <1>0 DEF Asks, Contains
<1>2. CASE e \in StrayEvent
  <2>1. JobsOf(e) = <<>> /\ Len(<<>>) = 0
    BY <1>2 DEF JobsOf, Accepted, StrayEvent
  <2>2. QED
    BY <1>1, <2>1
<1>3. CASE e \in ChatEvent
  <2>1. JobsOf(e) = <<>> \/ JobsOf(e) = ChatJobs(e)
    BY <1>3 DEF JobsOf, ChatEvent
  <2>2. CASE JobsOf(e) = <<>>
    <3>1. Len(<<>>) = 0
      OBVIOUS
    <3>2. QED
      BY <1>1, <2>2, <3>1
  <2>3. CASE JobsOf(e) = ChatJobs(e)
    <3>1. /\ Len(ChatJobs(e)) = 4
          /\ ChatJobs(e)[1] = Touch("single", e.from, e.to)
          /\ ChatJobs(e)[2] = Touch("single", e.to, e.from)
          /\ ChatJobs(e)[3].op = "count" /\ ChatJobs(e)[4].op = "count"
      BY DEF ChatJobs, Count
    <3>2. \A g \in 1..4 : ChatJobs(e)[g].op = "touch" => g = 1 \/ g = 2
      BY <3>1
    <3>3. (i = 1 \/ i = 2) /\ (h = 1 \/ h = 2)
      BY <1>0a, <1>1, <2>3, <3>1, <3>2
    <3>4. /\ Touch("single", e.from, e.to).key = <<"single", e.from>>
          /\ Touch("single", e.from, e.to).value = e.to
          /\ Touch("single", e.to, e.from).key = <<"single", e.to>>
          /\ Touch("single", e.to, e.from).value = e.from
      BY DEF Touch
    <3>5. <<"single", e.from>> = <<"single", e.to>> => e.from = e.to
      OBVIOUS
    <3>6. QED
      BY <1>0a, <1>1, <2>3, <3>1, <3>3, <3>4, <3>5
  <2>4. QED
    BY <2>1, <2>2, <2>3
<1>4. CASE e \in GroupEvent
  <2>1. JobsOf(e) = <<>> \/ JobsOf(e) = GroupJobs(e)
    BY <1>4 DEF JobsOf, GroupEvent
  <2>2. CASE JobsOf(e) = <<>>
    <3>1. Len(<<>>) = 0
      OBVIOUS
    <3>2. QED
      BY <1>1, <2>2, <3>1
  <2>3. CASE JobsOf(e) = GroupJobs(e)
    <3> DEFINE touches == [g \in 1..Len(e.users) |-> Touch("muc", e.users[g], e.room)]
               last == Count("muc", e.from, e.room)
    <3>1. /\ e.users \in Seq(User) /\ e.from \in User /\ e.room \in Room
      BY <1>4 DEF GroupEvent
    <3>2. touches \in Seq(Job) /\ Len(touches) = Len(e.users) /\ last \in Job
          /\ (\A g \in 1..Len(touches) : touches[g].value = e.room) /\ last.value = e.room
      BY <3>1 DEF Touch, Count, Job, ListKey, Topic, Contact
    <3>3. GroupJobs(e) = Append(touches, last)
      BY DEF GroupJobs
    <3> HIDE DEF touches, last
    <3>4. Len(GroupJobs(e)) = Len(touches) + 1 /\ Len(touches) \in Nat
          /\ (\A g \in 1..Len(touches) : GroupJobs(e)[g] = touches[g])
          /\ GroupJobs(e)[Len(touches) + 1] = last
      BY <3>2, <3>3, AppendProperties
    <3>5. \A g \in 1..Len(GroupJobs(e)) : GroupJobs(e)[g].value = e.room
      BY <3>2, <3>4
    <3>6. QED
      BY <1>0a, <1>1, <2>3, <3>5
  <2>4. QED
    BY <2>1, <2>2, <2>3
<1>5. QED
  BY <1>2, <1>3, <1>4, EventAssumption

-----------------------------------------------------------------------------
(* Lists in the order of last messages                                     *)

\* Where the elements of a list behind a moved contact come from.
Behind(b, s, v) ==
  /\ Len(b) >= Len(s) /\ Len(b) >= 1 /\ b[1] = v
  /\ \A j \in 1..Len(s) : Contains(b, s[j])
  /\ \E old \in [2..Len(b) -> 1..Len(s)] :
       /\ \A i \in 2..Len(b) : b[i] = s[old[i]] /\ b[i] # v /\ old[i] <= i
       /\ \A h, i \in 2..Len(b) : h < i => old[h] < old[i]

LEMMA MovedFrom ==
  ASSUME NEW S, NEW s \in Seq(S), IsInjective(s), NEW v \in S, NEW b, b = MoveToFront(s, v)
  PROVE  b \in Seq(S) /\ Behind(b, s, v)
<1>1. b \in Seq(S) /\ IsMoved(b, s, v) /\ IsInjective(b) /\ Len(s) \in Nat /\ Len(b) \in Nat
  BY MovedElements, MoveToFrontProperties
<1>2. \A i, j \in 1..Len(b) : b[i] = b[j] => i = j
  BY <1>1 DEF IsInjective
<1>3. b[1] = v
  BY <1>1 DEF IsMoved
<1>4. CASE \A i \in 1..Len(s) : s[i] # v
  <2>1. Len(b) = Len(s) + 1 /\ \A j \in 1..Len(s) : b[j + 1] = s[j]
    BY <1>1, <1>4 DEF IsMoved
  <2> DEFINE old == [i \in 2..Len(b) |-> i - 1]
  <2>2. \A i \in 2..Len(b) : i - 1 \in 1..Len(s) /\ (i - 1) + 1 = i /\ i - 1 <= i
    BY <1>1, <2>1
  <2>3. old \in [2..Len(b) -> 1..Len(s)]
    BY <2>2
  <2>4. \A i \in 2..Len(b) : b[i] = s[old[i]] /\ b[i] # v /\ old[i] <= i
    <3>1. SUFFICES ASSUME NEW i \in 2..Len(b) PROVE b[i] = s[i - 1] /\ b[i] # v /\ i - 1 <= i
      OBVIOUS
    <3>2. QED
      BY <1>4, <2>1, <2>2
  <2>5. \A h, i \in 2..Len(b) : h < i => old[h] < old[i]
    BY <1>1
  <2>6. \A j \in 1..Len(s) : Contains(b, s[j])
    <3>1. \A j \in 1..Len(s) : j + 1 \in 1..Len(b)
      BY <1>1, <2>1
    <3>2. QED
      BY <2>1, <3>1 DEF Contains
  <2> HIDE DEF old
  <2>7. QED
    BY <1>1, <1>3, <2>1, <2>3, <2>4, <2>5, <2>6 DEF Behind
<1>5. CASE \E i \in 1..Len(s) : s[i] = v
  <2>1. PICK q \in 1..Len(s) : s[q] = v
    BY <1>5
  <2>2. Len(b) = Len(s) /\ \A j \in 1..(Len(s) - 1) : b[j + 1] = IF j < q THEN s[j] ELSE s[j + 1]
    BY <1>1, <2>1 DEF IsMoved
  <2> DEFINE old == [i \in 2..Len(b) |-> IF i - 1 < q THEN i - 1 ELSE i]
  <2>3. \A i \in 2..Len(b) : i - 1 \in 1..Len(s) /\ i - 1 \in 1..(Len(s) - 1) /\ (i - 1) + 1 = i
                             /\ i \in 1..Len(s) /\ i \in 1..Len(b) /\ i # 1
    BY <1>1, <2>2
  <2>4. old \in [2..Len(b) -> 1..Len(s)]
    BY <2>3
  <2>5. ASSUME NEW i \in 2..Len(b) PROVE b[i] = s[old[i]] /\ b[i] # v /\ old[i] <= i
    <3>1. b[i] = IF i - 1 < q THEN s[i - 1] ELSE s[i]
      BY <2>2, <2>3
    <3>2. 1 \in 1..Len(b)
      BY <1>1, <2>2
    <3>3. b[i] # v
      BY <1>2, <1>3, <2>3, <3>2
    <3>4. QED
      BY <3>1, <3>3
  <2>6. \A h, i \in 2..Len(b) : h < i => old[h] < old[i]
    BY <1>1
  <2>7. ASSUME NEW j \in 1..Len(s) PROVE Contains(b, s[j])
    <3>1. CASE j = q
      <4>1. 1 \in 1..Len(b)
        BY <1>1, <2>2
      <4>2. QED
        BY <1>3, <2>1, <3>1, <4>1 DEF Contains
    <3>2. CASE j < q
      <4>1. j \in 1..(Len(s) - 1) /\ j + 1 \in 1..Len(b)
        BY <1>1, <2>2, <3>2
      <4>2. b[j + 1] = s[j]
        BY <2>2, <3>2, <4>1
      <4>3. QED
        BY <4>1, <4>2 DEF Contains
    <3>3. CASE j > q
      <4>1. j - 1 \in 1..(Len(s) - 1) /\ j \in 1..Len(b) /\ ~(j - 1 < q) /\ (j - 1) + 1 = j
        BY <1>1, <2>2, <3>3
      <4>2. b[j] = s[j]
        BY <2>2, <4>1
      <4>3. QED
        BY <4>1, <4>2 DEF Contains
    <3>4. QED
      BY <3>1, <3>2, <3>3
  <2> HIDE DEF old
  <2>8. Len(b) >= Len(s) /\ Len(b) >= 1
    BY <1>1, <2>2
  <2>9. QED
    BY <1>1, <1>3, <2>4, <2>5, <2>6, <2>7, <2>8 DEF Behind
<1>6. QED
  BY <1>4, <1>5

\* A list in the order of the last messages among the first n events, but for
\* contacts a later event, handled by an earlier process, has put further up.
Ordered(events, k, list, n) ==
  /\ \A i \in 1..Len(list) : Latest(events, k, list[i], Len(events)) > 0
  /\ \A i, j \in 1..Len(list) : i < j =>
       \/ Latest(events, k, list[i], n) > Latest(events, k, list[j], n)
       \/ Latest(events, k, list[i], Len(events)) > n

\* A list of the contacts of the first n events that misses only contacts older
\* than the first MAX_BUFFER of it.
Complete(events, k, list, n) ==
  /\ \A i \in 1..Len(list) : Latest(events, k, list[i], n) > 0
  /\ \A i, j \in 1..Len(list) : i < j => Latest(events, k, list[i], n) > Latest(events, k, list[j], n)
  /\ \A v \in Contact : Latest(events, k, v, n) > 0 =>
       \/ Contains(list, v)
       \/ /\ Len(list) >= MaxBuffer
          /\ \A i \in 1..MaxBuffer : Latest(events, k, list[i], n) > Latest(events, k, v, n)

\* Handling fewer events leaves a list in their order.
LEMMA OrderedBack ==
  ASSUME NEW events \in Seq(Event), NEW k, NEW list \in Seq(Contact),
         NEW m \in Nat, NEW n \in Nat, m <= n, n <= Len(events), Ordered(events, k, list, n)
  PROVE  Ordered(events, k, list, m)
<1>1. SUFFICES ASSUME NEW i \in 1..Len(list), NEW j \in 1..Len(list), i < j
               PROVE  \/ Latest(events, k, list[i], m) > Latest(events, k, list[j], m)
                      \/ Latest(events, k, list[i], Len(events)) > m
  BY DEF Ordered
<1>2. PICK xm, xn, xl, ym, yn :
        /\ xm = Latest(events, k, list[i], m) /\ xn = Latest(events, k, list[i], n)
        /\ xl = Latest(events, k, list[i], Len(events))
        /\ ym = Latest(events, k, list[j], m) /\ yn = Latest(events, k, list[j], n)
  OBVIOUS
<1>3. /\ xm \in 0..m /\ xn \in 0..n /\ (xn <= m => xm = xn)
      /\ ym \in 0..m /\ yn \in 0..n /\ (yn <= m => ym = yn)
  BY <1>2, LatestLater
<1>4. xn <= xl /\ xl \in Nat
  <2>1. Len(events) \in Nat
    OBVIOUS
  <2>2. xn <= xl /\ xl \in 0..Len(events)
    BY <1>2, <2>1, LatestLater
  <2>3. QED
    BY <2>2
<1>5. xn > yn \/ xl > n
  BY <1>1, <1>2 DEF Ordered
<1>6. xm > ym \/ xl > m
  BY <1>3, <1>4, <1>5
<1>7. QED
  BY <1>2, <1>6

\* A new event changes nothing about the order of the older ones.
LEMMA OrderedMore ==
  ASSUME NEW events \in Seq(Event), NEW e \in Event, NEW k, NEW list \in Seq(Contact),
         NEW n \in 0..Len(events)
  PROVE  /\ Ordered(events, k, list, n) => Ordered(Append(events, e), k, list, n)
         /\ Complete(events, k, list, n) => Complete(Append(events, e), k, list, n)
<1>1. PICK more : more = Append(events, e)
  OBVIOUS
<1>2. Len(more) = Len(events) + 1 /\ Len(events) \in Nat /\ n \in Nat /\ Len(more) \in Nat
      /\ Len(events) \in 0..Len(events) /\ Len(events) <= Len(more)
  BY <1>1
<1>3. \A v : Latest(more, k, v, n) = Latest(events, k, v, n)
  BY <1>1, LatestBefore
<1>4. \A v : Latest(events, k, v, Len(events)) <= Latest(more, k, v, Len(more))
             /\ Latest(events, k, v, Len(events)) \in Nat /\ Latest(more, k, v, Len(more)) \in Nat
  <2>1. SUFFICES ASSUME NEW v
                 PROVE  /\ Latest(events, k, v, Len(events)) <= Latest(more, k, v, Len(more))
                        /\ Latest(events, k, v, Len(events)) \in Nat
                        /\ Latest(more, k, v, Len(more)) \in Nat
    OBVIOUS
  <2>2. Latest(more, k, v, Len(events)) = Latest(events, k, v, Len(events))
    BY <1>1, <1>2, LatestBefore
  <2>3. /\ Latest(more, k, v, Len(events)) <= Latest(more, k, v, Len(more))
        /\ Latest(more, k, v, Len(events)) \in 0..Len(events)
        /\ Latest(more, k, v, Len(more)) \in 0..Len(more)
    BY <1>2, LatestLater
  <2>4. QED
    BY <1>2, <2>2, <2>3
<1>5. \A v : (Latest(events, k, v, Len(events)) > 0 => Latest(more, k, v, Len(more)) > 0)
             /\ (Latest(events, k, v, Len(events)) > n => Latest(more, k, v, Len(more)) > n)
  <2>1. \A x, y \in Nat : x <= y => (x > 0 => y > 0) /\ (x > n => y > n)
    BY <1>2
  <2>2. QED
    BY <1>4, <2>1
<1>6. Ordered(events, k, list, n) => Ordered(more, k, list, n)
  BY <1>3, <1>5 DEF Ordered
<1>7. Complete(events, k, list, n) => Complete(more, k, list, n)
  BY <1>3 DEF Complete
<1>8. QED
  BY <1>1, <1>6, <1>7

\* What an event means for the contacts it is not about.
LEMMA PassedBy ==
  ASSUME NEW events \in Seq(Event), NEW k, NEW v, NEW n \in Nat, n < Len(events),
         ~Asks(events[n + 1], k, v)
  PROVE  /\ Latest(events, k, v, n + 1) = Latest(events, k, v, n)
         /\ Latest(events, k, v, n + 1) \in 0..n
         /\ Latest(events, k, v, Len(events)) > n => Latest(events, k, v, Len(events)) > n + 1
<1>1. Latest(events, k, v, n + 1) = Latest(events, k, v, n) /\ Latest(events, k, v, n) \in 0..n
  BY LatestNext, LatestIs
<1>2. PICK l : l = Latest(events, k, v, Len(events))
  OBVIOUS
<1>3. l \in 0..Len(events) /\ (l > 0 => Asks(events[l], k, v))
  <2>1. Len(events) \in Nat
    OBVIOUS
  <2>2. QED
    BY <1>2, <2>1, LatestIs
<1>4. l # n + 1
  BY <1>3
<1>5. l > n => l > n + 1
  BY <1>3, <1>4
<1>6. QED
  BY <1>1, <1>2, <1>5

LEMMA UntouchedOrder ==
  ASSUME NEW events \in Seq(Event), NEW k, NEW list \in Seq(Contact), NEW n \in Nat, n < Len(events),
         \A v \in Contact : ~Asks(events[n + 1], k, v)
  PROVE  /\ Ordered(events, k, list, n) => Ordered(events, k, list, n + 1)
         /\ Complete(events, k, list, n) => Complete(events, k, list, n + 1)
<1>1. \A v \in Contact :
        /\ Latest(events, k, v, n + 1) = Latest(events, k, v, n)
        /\ Latest(events, k, v, Len(events)) > n => Latest(events, k, v, Len(events)) > n + 1
  BY PassedBy
<1>2. \A i \in 1..Len(list) : list[i] \in Contact
  OBVIOUS
<1>3. Ordered(events, k, list, n) => Ordered(events, k, list, n + 1)
  BY <1>1, <1>2 DEF Ordered
<1>4. ASSUME Complete(events, k, list, n) PROVE Complete(events, k, list, n + 1)
  <2>1. MaxBuffer \in Nat
    BY BufferAssumption
  <2>2. Len(list) >= MaxBuffer => \A i \in 1..MaxBuffer : i \in 1..Len(list)
    BY <2>1
  <2>3. /\ \A i \in 1..Len(list) : Latest(events, k, list[i], n + 1) > 0
        /\ \A i, j \in 1..Len(list) : i < j =>
             Latest(events, k, list[i], n + 1) > Latest(events, k, list[j], n + 1)
    BY <1>1, <1>2, <1>4 DEF Complete
  <2>4. ASSUME NEW v \in Contact, Latest(events, k, v, n + 1) > 0, ~Contains(list, v)
        PROVE  /\ Len(list) >= MaxBuffer
               /\ \A i \in 1..MaxBuffer : Latest(events, k, list[i], n + 1) > Latest(events, k, v, n + 1)
    <3>1. Latest(events, k, v, n) > 0 /\ Latest(events, k, v, n + 1) = Latest(events, k, v, n)
      BY <1>1, <2>4
    <3>2. /\ Len(list) >= MaxBuffer
          /\ \A i \in 1..MaxBuffer : Latest(events, k, list[i], n) > Latest(events, k, v, n)
      BY <1>4, <2>4, <3>1 DEF Complete
    <3>3. QED
      BY <1>1, <1>2, <2>2, <3>1, <3>2
  <2>5. QED
    BY <2>3, <2>4 DEF Complete
<1>5. QED
  BY <1>3, <1>4

\* The contact of event p, and the others, before and after it is moved.
LEMMA TouchedOrder ==
  ASSUME NEW events \in Seq(Event), NEW k, NEW s \in Seq(Contact), IsInjective(s),
         NEW p \in 1..Len(events), NEW m \in {p - 1, p}, NEW v \in Contact, Asks(events[p], k, v)
  PROVE  /\ Ordered(events, k, s, m) => Ordered(events, k, MoveToFront(s, v), p)
         /\ Complete(events, k, s, m) => Complete(events, k, MoveToFront(s, v), p)
<1>1. p \in Nat /\ p > 0 /\ p - 1 \in Nat /\ (p - 1) + 1 = p /\ p - 1 < Len(events) /\ p <= Len(events)
      /\ events[p] \in Event /\ Len(events) \in Nat
  OBVIOUS
<1>2. ASSUME NEW x \in Contact, x # v
      PROVE  /\ Latest(events, k, x, p) = Latest(events, k, x, m)
             /\ Latest(events, k, x, p) \in Nat /\ Latest(events, k, x, p) < p
             /\ Latest(events, k, x, Len(events)) > m => Latest(events, k, x, Len(events)) > p
  <2>1. ~Asks(events[p], k, x)
    BY <1>1, <1>2, AsksOne
  <2>2. /\ Latest(events, k, x, p) = Latest(events, k, x, p - 1)
        /\ Latest(events, k, x, p) \in 0..(p - 1)
        /\ Latest(events, k, x, Len(events)) > p - 1 => Latest(events, k, x, Len(events)) > p
    BY <1>1, <2>1, PassedBy
  <2>3. m = p - 1 \/ m = p
    OBVIOUS
  <2>4. QED
    BY <1>1, <2>2, <2>3
<1>3. Latest(events, k, v, p) = p
  <2>1. PICK l : l = Latest(events, k, v, p)
    OBVIOUS
  <2>2. l \in 0..p /\ \A i \in 1..p : Asks(events[i], k, v) => i <= l
    BY <1>1, <2>1, LatestIs
  <2>3. p \in 1..p
    BY <1>1
  <2>4. p <= l
    BY <2>2, <2>3
  <2>5. QED
    BY <1>1, <2>1, <2>2, <2>4
<1>4. Latest(events, k, v, Len(events)) > 0
  <2>1. Latest(events, k, v, p) <= Latest(events, k, v, Len(events))
        /\ Latest(events, k, v, Len(events)) \in 0..Len(events)
    BY <1>1, LatestLater
  <2>2. QED
    BY <1>1, <1>3, <2>1
<1>5. PICK b : b = MoveToFront(s, v)
  OBVIOUS
<1>6a. b \in Seq(Contact) /\ Behind(b, s, v)
  BY <1>5, MovedFrom
<1>6. /\ b \in Seq(Contact) /\ Len(b) >= Len(s) /\ Len(b) >= 1 /\ b[1] = v
      /\ \A j \in 1..Len(s) : Contains(b, s[j])
  BY <1>6a DEF Behind
<1>7. PICK old \in [2..Len(b) -> 1..Len(s)] :
        /\ \A i \in 2..Len(b) : b[i] = s[old[i]] /\ b[i] # v /\ old[i] <= i
        /\ \A h, i \in 2..Len(b) : h < i => old[h] < old[i]
  BY <1>6a DEF Behind
<1>8. Len(b) \in Nat /\ Len(s) \in Nat /\ (\A i \in 1..Len(b) : i = 1 \/ i \in 2..Len(b))
      /\ (\A i \in 2..Len(b) : b[i] \in Contact /\ old[i] \in 1..Len(s))
      /\ (\A i \in 1..Len(b), j \in 1..Len(b) : i < j => j \in 2..Len(b))
  <2>1. Len(b) \in Nat /\ Len(s) \in Nat
    BY <1>6a
  <2>2. \A i \in 2..Len(b) : i \in 1..Len(b)
    BY <2>1
  <2>3. \A i \in 1..Len(b) : b[i] \in Contact
    BY <1>6a
  <2>4. \A i \in 1..Len(b) : i = 1 \/ i \in 2..Len(b)
    BY <2>1
  <2>5. \A i \in 1..Len(b), j \in 1..Len(b) : i < j => j \in 2..Len(b)
    BY <2>1
  <2>6. \A i \in 2..Len(b) : old[i] \in 1..Len(s)
    OBVIOUS
  <2>7. QED
    BY <2>1, <2>2, <2>3, <2>4, <2>5, <2>6
<1>9. ASSUME Ordered(events, k, s, m) PROVE Ordered(events, k, b, p)
  <2>1. ASSUME NEW i \in 1..Len(b) PROVE Latest(events, k, b[i], Len(events)) > 0
    <3>1. CASE i = 1
      BY <1>4, <1>6, <3>1
    <3>2. CASE i \in 2..Len(b)
      BY <1>7, <1>8, <1>9, <3>2 DEF Ordered
    <3>3. QED
      BY <1>8, <3>1, <3>2
  <2>2. ASSUME NEW i \in 1..Len(b), NEW j \in 1..Len(b), i < j
        PROVE  \/ Latest(events, k, b[i], p) > Latest(events, k, b[j], p)
               \/ Latest(events, k, b[i], Len(events)) > p
    <3>1. j \in 2..Len(b)
      BY <1>8, <2>2
    <3>2. CASE i = 1
      <4>1. b[j] \in Contact /\ b[j] # v
        BY <1>7, <1>8, <3>1
      <4>2. Latest(events, k, b[j], p) \in Nat /\ Latest(events, k, b[j], p) < p
        BY <1>2, <4>1
      <4>3. Latest(events, k, b[i], p) = p
        BY <1>3, <1>6, <3>2
      <4>4. QED
        BY <1>1, <4>2, <4>3
    <3>3. CASE i \in 2..Len(b)
      <4>1. /\ b[i] = s[old[i]] /\ b[j] = s[old[j]] /\ old[i] \in 1..Len(s) /\ old[j] \in 1..Len(s)
            /\ old[i] < old[j] /\ b[i] \in Contact /\ b[j] \in Contact /\ b[i] # v /\ b[j] # v
        BY <1>7, <1>8, <2>2, <3>1, <3>3
      <4>2. \/ Latest(events, k, b[i], m) > Latest(events, k, b[j], m)
            \/ Latest(events, k, b[i], Len(events)) > m
        BY <1>9, <4>1 DEF Ordered
      <4>3. QED
        BY <1>2, <4>1, <4>2
    <3>4. QED
      BY <1>8, <3>2, <3>3
  <2>3. QED
    BY <2>1, <2>2 DEF Ordered
<1>10. ASSUME Complete(events, k, s, m) PROVE Complete(events, k, b, p)
  <2>0. MaxBuffer \in Nat
    BY BufferAssumption
  <2>1. ASSUME NEW i \in 1..Len(b) PROVE Latest(events, k, b[i], p) > 0
    <3>1. CASE i = 1
      BY <1>1, <1>3, <1>6, <3>1
    <3>2. CASE i \in 2..Len(b)
      <4>1. b[i] = s[old[i]] /\ b[i] # v /\ b[i] \in Contact /\ old[i] \in 1..Len(s)
        BY <1>7, <1>8, <3>2
      <4>2. Latest(events, k, b[i], m) > 0
        BY <1>10, <4>1 DEF Complete
      <4>3. QED
        BY <1>2, <4>1, <4>2
    <3>3. QED
      BY <1>8, <3>1, <3>2
  <2>2. ASSUME NEW i \in 1..Len(b), NEW j \in 1..Len(b), i < j
        PROVE  Latest(events, k, b[i], p) > Latest(events, k, b[j], p)
    <3>1. j \in 2..Len(b)
      BY <1>8, <2>2
    <3>2. CASE i = 1
      <4>1. b[j] \in Contact /\ b[j] # v
        BY <1>7, <1>8, <3>1
      <4>2. Latest(events, k, b[j], p) \in Nat /\ Latest(events, k, b[j], p) < p
        BY <1>2, <4>1
      <4>3. Latest(events, k, b[i], p) = p
        BY <1>3, <1>6, <3>2
      <4>4. QED
        BY <1>1, <4>2, <4>3
    <3>3. CASE i \in 2..Len(b)
      <4>1. /\ b[i] = s[old[i]] /\ b[j] = s[old[j]] /\ old[i] \in 1..Len(s) /\ old[j] \in 1..Len(s)
            /\ old[i] < old[j] /\ b[i] \in Contact /\ b[j] \in Contact /\ b[i] # v /\ b[j] # v
        BY <1>7, <1>8, <2>2, <3>1, <3>3
      <4>2. Latest(events, k, b[i], m) > Latest(events, k, b[j], m)
        BY <1>10, <4>1 DEF Complete
      <4>3. QED
        BY <1>2, <4>1, <4>2
    <3>4. QED
      BY <1>8, <3>2, <3>3
  <2>3. ASSUME NEW w \in Contact, Latest(events, k, w, p) > 0, ~Contains(b, w)
        PROVE  /\ Len(b) >= MaxBuffer
               /\ \A i \in 1..MaxBuffer : Latest(events, k, b[i], p) > Latest(events, k, w, p)
    <3>1. w # v
      <4>1. 1 \in 1..Len(b)
        BY <1>6, <1>8
      <4>2. QED
        BY <1>6, <2>3, <4>1 DEF Contains
    <3>2. ~Contains(s, w)
      BY <1>6, <2>3 DEF Contains
    <3>3. Latest(events, k, w, p) = Latest(events, k, w, m) /\ Latest(events, k, w, p) \in Nat
          /\ Latest(events, k, w, p) < p
      BY <1>2, <3>1
    <3>4. /\ Len(s) >= MaxBuffer
          /\ \A i \in 1..MaxBuffer : Latest(events, k, s[i], m) > Latest(events, k, w, m)
      BY <1>10, <2>3, <3>2, <3>3 DEF Complete
    <3>5. Len(b) >= MaxBuffer
      BY <1>6, <1>8, <2>0, <3>4
    <3>6. ASSUME NEW i \in 1..MaxBuffer PROVE Latest(events, k, b[i], p) > Latest(events, k, w, p)
      <4>0. i \in 1..Len(b)
        BY <1>8, <2>0, <3>5
      <4>1. CASE i = 1
        <5>1. Latest(events, k, b[i], p) = p
          BY <1>3, <1>6, <4>1
        <5>2. QED
          BY <1>1, <3>3, <5>1
      <4>2. CASE i \in 2..Len(b)
        <5>1. b[i] = s[old[i]] /\ b[i] # v /\ b[i] \in Contact /\ old[i] \in 1..Len(s) /\ old[i] <= i
          BY <1>7, <1>8, <4>2
        <5>2. old[i] \in 1..MaxBuffer
          BY <1>8, <2>0, <5>1
        <5>3. Latest(events, k, b[i], m) > Latest(events, k, w, m)
          BY <3>4, <5>1, <5>2
        <5>4. QED
          BY <1>2, <3>3, <5>1, <5>3
      <4>3. QED
        BY <1>8, <4>0, <4>1, <4>2
    <3>7. QED
      BY <3>5, <3>6
  <2>4. QED
    BY <2>1, <2>2, <2>3 DEF Complete
<1>11. QED
  BY <1>5, <1>9, <1>10

\* LTRIM cuts off only contacts older than those it keeps.
LEMMA TrimmedOrder ==
  ASSUME NEW events, NEW k, NEW s \in Seq(Contact), NEW n \in Nat
  PROVE  /\ Ordered(events, k, s, n) => Ordered(events, k, LTrim(s, MaxBuffer), n)
         /\ Complete(events, k, s, n) => Complete(events, k, LTrim(s, MaxBuffer), n)
<1>1. PICK b : b = LTrim(s, MaxBuffer)
  OBVIOUS
<1>2. MaxBuffer \in Nat
  BY BufferAssumption
<1>3. /\ b \in Seq(Contact) /\ Len(b) = IF Len(s) < MaxBuffer THEN Len(s) ELSE MaxBuffer
      /\ \A i \in 1..Len(b) : b[i] = s[i]
  BY <1>1, <1>2, LTrimProperties
<1>4. /\ \A i \in 1..Len(b) : i \in 1..Len(s) /\ b[i] = s[i]
      /\ Len(s) >= MaxBuffer => Len(b) = MaxBuffer
      /\ \A i \in 1..Len(s) : i \notin 1..Len(b) =>
            Len(b) = MaxBuffer /\ \A j \in 1..MaxBuffer : j < i /\ j \in 1..Len(s)
  BY <1>2, <1>3
<1>5. Ordered(events, k, s, n) => Ordered(events, k, b, n)
  BY <1>4 DEF Ordered
<1>6. ASSUME Complete(events, k, s, n) PROVE Complete(events, k, b, n)
  <2>1. /\ \A i \in 1..Len(b) : Latest(events, k, b[i], n) > 0
        /\ \A i, j \in 1..Len(b) : i < j => Latest(events, k, b[i], n) > Latest(events, k, b[j], n)
    BY <1>4, <1>6 DEF Complete
  <2>2. ASSUME NEW w \in Contact, Latest(events, k, w, n) > 0, ~Contains(b, w)
        PROVE  /\ Len(b) >= MaxBuffer
               /\ \A i \in 1..MaxBuffer : Latest(events, k, b[i], n) > Latest(events, k, w, n)
    <3>1. CASE Contains(s, w)
      <4>1. PICK i \in 1..Len(s) : s[i] = w
        BY <3>1 DEF Contains
      <4>2. i \notin 1..Len(b)
        BY <1>4, <2>2, <4>1 DEF Contains
      <4>3. Len(b) = MaxBuffer /\ \A j \in 1..MaxBuffer : j < i /\ j \in 1..Len(s) /\ b[j] = s[j]
        BY <1>4, <4>2
      <4>4. \A j \in 1..MaxBuffer : Latest(events, k, s[j], n) > Latest(events, k, s[i], n)
        BY <1>6, <4>3 DEF Complete
      <4>5. QED
        BY <1>2, <4>1, <4>3, <4>4
    <3>2. CASE ~Contains(s, w)
      <4>1. /\ Len(s) >= MaxBuffer
            /\ \A i \in 1..MaxBuffer : Latest(events, k, s[i], n) > Latest(events, k, w, n)
        BY <1>6, <2>2, <3>2 DEF Complete
      <4>2. Len(b) = MaxBuffer
        BY <1>4, <4>1
      <4>3. QED
        BY <1>2, <1>4, <4>1, <4>2
    <3>3. QED
      BY <3>1, <3>2
  <2>3. QED
    BY <2>1, <2>2 DEF Complete
<1>7. QED
  BY <1>1, <1>5, <1>6

-----------------------------------------------------------------------------
(* The lists while their events are handled                                *)

\* What is left to do is part of the work of the last event taken, which is not
\* committed yet.
UnderWay ==
  \A t \in Topic : jobs[t] # <<>> =>
    /\ committed[t] < next[t] /\ next[t] > 0
    /\ \A i \in 1..Len(jobs[t]) : Contains(JobsOf(log[t][next[t]]), jobs[t][i])

\* A list: in Redis, or, while it is being rewritten, in the consumer's memory.
Held(list, local, work, command, k) ==
  IF work # <<>> /\ Head(work).op = "touch" /\ command = "lpush" /\ Head(work).key = k
  THEN local ELSE list

\* The work still moves a contact to the head of k.
Awaited(work, command, k) ==
  \E i \in 1..Len(work) :
    work[i].op = "touch" /\ work[i].key = k /\ (i = 1 => command # "ltrim")

Current(events, list, r, k, n) ==
  Ordered(events, k, list, n) /\ (r = 0 => Complete(events, k, list, n))

\* A list is in the order of the events taken, but for the one under way when
\* that still moves a contact to its head.
FreshList(list, work, command, events, n, r, k) ==
  \/ Current(events, list, r, k, n)
  \/ Awaited(work, command, k) /\ Current(events, list, r, k, n - 1)

Fresh ==
  failures = 0 /\ ~missed =>
    \A k \in ListKey :
      FreshList(Held(recent[k], contacts[k[1]], jobs[k[1]], step[k[1]], k), jobs[k[1]], step[k[1]],
                log[k[1]], next[k[1]], deaths, k)

RInv == IInv /\ Running /\ HoldsList /\ Offsets /\ UnderWay /\ Fresh

LEMMA UnderWayStep == IInv /\ Running /\ Offsets /\ UnderWay /\ [Next]_vars => UnderWay'
<1> SUFFICES ASSUME IInv, Running, Offsets, UnderWay, [Next]_vars, NEW u \in Topic, jobs'[u] # <<>>
             PROVE  /\ committed'[u] < next'[u] /\ next'[u] > 0
                    /\ \A i \in 1..Len(jobs'[u]) :
                         Contains(JobsOf(log'[u][next'[u]]), jobs'[u][i])
  BY DEF UnderWay
<1> DEFINE Goal == /\ committed'[u] < next'[u] /\ next'[u] > 0
                   /\ \A i \in 1..Len(jobs'[u]) :
                        Contains(JobsOf(log'[u][next'[u]]), jobs'[u][i])
<1> SUFFICES Goal
  OBVIOUS
<1> USE DEF IInv, TypeOK
<1>1. ASSUME log'[u] = log[u], next'[u] = next[u], committed'[u] = committed[u],
             \/ jobs'[u] = jobs[u]
             \/ jobs[u] # <<>> /\ jobs'[u] = Tail(jobs[u])
      PROVE  Goal
  <2>1. jobs[u] # <<>> /\ jobs[u] \in Seq(Job)
    BY <1>1
  <2>2. /\ committed[u] < next[u] /\ next[u] > 0
        /\ \A i \in 1..Len(jobs[u]) : Contains(JobsOf(log[u][next[u]]), jobs[u][i])
    BY <2>1 DEF UnderWay
  <2>3. \A i \in 1..Len(jobs'[u]) : \E h \in 1..Len(jobs[u]) : jobs'[u][i] = jobs[u][h]
    <3>1. CASE jobs'[u] = jobs[u]
      BY <3>1
    <3>2. CASE jobs'[u] = Tail(jobs[u])
      <4>1. \A i \in 1..Len(Tail(jobs[u])) : i + 1 \in 1..Len(jobs[u]) /\ Tail(jobs[u])[i] = jobs[u][i + 1]
        BY <2>1
      <4>2. QED
        BY <3>2, <4>1
    <3>3. QED
      BY <1>1, <3>1, <3>2
  <2>4. QED
    BY <1>1, <2>2, <2>3
<1>2. CASE UNCHANGED vars
  BY <1>1, <1>2 DEF vars, consumerVars
<1>3. ASSUME NEW e \in Event, Publish(e) PROVE Goal
  <2>1. /\ log' = [log EXCEPT ![TopicOf(e)] = Append(log[TopicOf(e)], e)] /\ TopicOf(e) \in Topic
        /\ UNCHANGED <<next, committed, jobs>>
    BY <1>3, JobsOfType DEF Publish, consumerVars
  <2>2. log'[u] = log[u] \/ log'[u] = Append(log[u], e)
    BY <2>1
  <2>3. committed[u] < next[u] /\ next[u] <= Len(log[u]) /\ next[u] \in Nat /\ next[u] > 0
    BY <2>1 DEF UnderWay, Offsets
  <2>4. next[u] \in 1..Len(log[u])
    BY <2>3
  <2>5. log'[u][next[u]] = log[u][next[u]]
    BY <2>2, <2>4
  <2>6. QED
    BY <2>1, <2>5 DEF UnderWay
<1>4. ASSUME NEW t \in Topic, u # t,
             Poll(t) \/ Command(t) \/ Fail(t)
      PROVE  Goal
  <2>1. log' = log /\ next'[u] = next[u] /\ committed'[u] = committed[u] /\ jobs'[u] = jobs[u]
    BY <1>4 DEF Poll, Command, Lrange, Delete, Lpush, PushBack, Ltrim, KeepOnly, Zincrby, Fail
  <2>2. QED
    BY <1>1, <2>1
<1>5. CASE Poll(u)
  <2>1. /\ jobs'[u] = JobsOf(log[u][next[u] + 1]) /\ next'[u] = next[u] + 1
        /\ UNCHANGED <<log, committed>>
    BY <1>5 DEF Poll
  <2>2. committed[u] < next[u] + 1 /\ next[u] + 1 > 0
    <3>1. PICK b, c : b = committed[u] /\ c = next[u]
      OBVIOUS
    <3>2. (b \in Nat \/ b = NoOffset) /\ c \in Nat /\ b <= c
      BY <3>1 DEF Offsets
    <3>3. QED
      BY <3>1, <3>2 DEF NoOffset
  <2>3. \A i \in 1..Len(jobs'[u]) : Contains(JobsOf(log[u][next[u] + 1]), jobs'[u][i])
    BY <2>1 DEF Contains
  <2>4. QED
    BY <2>1, <2>2, <2>3
<1>6. CASE Commit \/ Fail(u)
  BY <1>6 DEF Commit, Idle, Fail
<1>6a. CASE Ending
  BY <1>6a, EndFacts DEF EndedAt
<1>6b. CASE Start
  BY <1>6b DEF Start, Running, Idle
<1>7. CASE Lrange(u) \/ Delete(u) \/ Lpush(u)
  <2>1. UNCHANGED <<log, next, committed, jobs>>
    BY <1>7 DEF Lrange, Delete, Lpush, PushBack
  <2>2. QED
    BY <1>1, <2>1
<1>8. CASE Ltrim(u) \/ Zincrby(u)
  <2>1. UNCHANGED <<log, next, committed>> /\ jobs[u] # <<>> /\ jobs'[u] = Tail(jobs[u])
    BY <1>8 DEF Ltrim, KeepOnly, AtCommand, Zincrby
  <2>2. QED
    BY <1>1, <2>1
<1>9. QED
  BY <1>2, <1>3, <1>4, <1>5, <1>6, <1>6a, <1>6b, <1>7, <1>8 DEF Next, Command, Ending

FreshAt(k) ==
  FreshList(Held(recent[k], contacts[k[1]], jobs[k[1]], step[k[1]], k), jobs[k[1]], step[k[1]],
            log[k[1]], next[k[1]], deaths, k)
FreshAfter(k) ==
  FreshList(Held(recent'[k], contacts'[k[1]], jobs'[k[1]], step'[k[1]], k), jobs'[k[1]], step'[k[1]],
            log'[k[1]], next'[k[1]], deaths', k)

LEMMA FreshFacts ==
  ASSUME RInv, failures = 0, ~missed, NEW k \in ListKey
  PROVE  /\ FreshAt(k)
         /\ k[1] \in Topic /\ log[k[1]] \in Seq(Event) /\ next[k[1]] \in 0..Len(log[k[1]])
         /\ deaths \in Nat /\ jobs[k[1]] \in Seq(Job)
         /\ recent[k] \in Seq(Contact) /\ IsInjective(recent[k])
         /\ contacts[k[1]] \in Seq(Contact) /\ IsInjective(contacts[k[1]])
         /\ \A list, local, work, command : Held(list, local, work, command, k) \in {list, local}
<1>1. FreshAt(k)
  BY DEF RInv, Fresh, FreshAt
<1>2. k[1] \in Topic
  BY DEF ListKey
<1>3. log[k[1]] \in Seq(Event) /\ next[k[1]] \in 0..Len(log[k[1]]) /\ deaths \in Nat
      /\ jobs[k[1]] \in Seq(Job)
  BY <1>2 DEF RInv, IInv, TypeOK, Offsets
<1>4. /\ recent[k] \in Seq(Contact) /\ IsInjective(recent[k])
      /\ contacts[k[1]] \in Seq(Contact) /\ IsInjective(contacts[k[1]])
  BY <1>2 DEF RInv, IInv, TypeOK, NoDuplicates, SoundRead
<1>5. \A list, local, work, command : Held(list, local, work, command, k) \in {list, local}
  BY DEF Held
<1>6. QED
  BY <1>1, <1>2, <1>3, <1>4, <1>5

\* What a step of another topic, or of another list, leaves as it was.
LEMMA AlikeFresh ==
  ASSUME RInv, failures = 0, ~missed, NEW k \in ListKey,
         Held(recent'[k], contacts'[k[1]], jobs'[k[1]], step'[k[1]], k)
           = Held(recent[k], contacts[k[1]], jobs[k[1]], step[k[1]], k),
         Awaited(jobs[k[1]], step[k[1]], k) => Awaited(jobs'[k[1]], step'[k[1]], k),
         log'[k[1]] = log[k[1]], next'[k[1]] = next[k[1]],
         deaths' = deaths \/ deaths' = deaths + 1
  PROVE  FreshAfter(k)
<1>1. FreshAt(k) /\ deaths \in Nat
  BY FreshFacts
<1>2. deaths' = 0 => deaths = 0
  BY <1>1
<1>3. \A list, n : Current(log[k[1]], list, deaths, k, n) => Current(log[k[1]], list, deaths', k, n)
  BY <1>2 DEF Current
<1>4. QED
  BY <1>1, <1>3 DEF FreshAt, FreshAfter, FreshList

LEMMA PublishFresh ==
  ASSUME RInv, failures = 0, ~missed, NEW k \in ListKey, NEW e \in Event, Publish(e)
  PROVE  FreshAfter(k)
<1>1. PICK list, work, command, events, n, r :
        /\ list = Held(recent[k], contacts[k[1]], jobs[k[1]], step[k[1]], k)
        /\ work = jobs[k[1]] /\ command = step[k[1]] /\ events = log[k[1]] /\ n = next[k[1]]
        /\ r = deaths
  OBVIOUS
<1>2. /\ FreshList(list, work, command, events, n, r, k)
      /\ events \in Seq(Event) /\ n \in 0..Len(events) /\ list \in Seq(Contact) /\ k[1] \in Topic
  BY <1>1, FreshFacts DEF FreshAt
<1>3. log' = [log EXCEPT ![TopicOf(e)] = Append(log[TopicOf(e)], e)] /\ TopicOf(e) \in Topic
      /\ UNCHANGED <<next, jobs, step, contacts, recent, deaths>>
  BY JobsOfType DEF Publish, consumerVars, redisVars, faultVars
<1>4. log'[k[1]] = events \/ log'[k[1]] = Append(events, e)
  BY <1>1, <1>2, <1>3 DEF RInv, IInv, TypeOK
<1>5. PICK more : more = log'[k[1]]
  OBVIOUS
<1>6. ASSUME NEW m \in 0..Len(events), Current(events, list, r, k, m) PROVE Current(more, list, r, k, m)
  <2>1. CASE more = events
    BY <1>6, <2>1
  <2>2. CASE more = Append(events, e)
    BY <1>2, <1>6, <2>2, OrderedMore DEF Current
  <2>3. QED
    BY <1>4, <1>5, <2>1, <2>2
<1>7. Awaited(work, command, k) => n - 1 \in 0..Len(events)
  <2>1. SUFFICES ASSUME Awaited(work, command, k) PROVE n - 1 \in 0..Len(events)
    OBVIOUS
  <2>2. work # <<>>
    <3>1. Len(<<>>) = 0
      OBVIOUS
    <3>2. QED
      BY <2>1, <3>1 DEF Awaited
  <2>3. next[k[1]] > 0 /\ next[k[1]] \in Nat
    BY <1>1, <1>2, <2>2 DEF RInv, UnderWay, IInv, TypeOK
  <2>4. QED
    BY <1>1, <1>2, <2>3
<1>8. FreshList(list, work, command, more, n, r, k)
  BY <1>2, <1>6, <1>7 DEF FreshList
<1>9. QED
  BY <1>1, <1>3, <1>5, <1>8 DEF FreshAfter

\* Taking an event: the lists it is not about are in order with it, too.
LEMMA PollFresh ==
  ASSUME RInv, failures = 0, ~missed, NEW k \in ListKey, Poll(k[1])
  PROVE  FreshAfter(k)
<1>1. PICK list, events, n, r :
        list = recent[k] /\ events = log[k[1]] /\ n = next[k[1]] /\ r = deaths
  OBVIOUS
<1>2. /\ FreshAt(k) /\ k[1] \in Topic
      /\ events \in Seq(Event) /\ n \in Nat /\ list \in Seq(Contact)
  BY <1>1, FreshFacts
<1>3. /\ jobs[k[1]] = <<>> /\ n < Len(events) /\ step[k[1]] = "lrange"
      /\ jobs'[k[1]] = JobsOf(events[n + 1]) /\ next'[k[1]] = n + 1
      /\ UNCHANGED <<log, step, contacts, recent, deaths>>
  BY <1>1, <1>2 DEF Poll, Idle, redisVars, faultVars, RInv, IInv, TypeOK, InMiddle
<1>4. /\ Held(recent[k], contacts[k[1]], jobs[k[1]], step[k[1]], k) = list
      /\ Held(recent'[k], contacts'[k[1]], jobs'[k[1]], step'[k[1]], k) = list
  BY <1>1, <1>3 DEF Held
<1>5. Current(events, list, r, k, n)
  <2>1. ~Awaited(<<>>, step[k[1]], k)
    <3>1. Len(<<>>) = 0
      OBVIOUS
    <3>2. QED
      BY <3>1 DEF Awaited
  <2>2. QED
    BY <1>1, <1>2, <1>3, <1>4, <2>1 DEF FreshAt, FreshList
<1>6. (n + 1) - 1 = n /\ n + 1 \in 1..Len(events) /\ events[n + 1] \in Event
  BY <1>2, <1>3
<1>7. CASE \E v \in Contact : Asks(events[n + 1], k, v)
  <2>1. PICK v \in Contact : Asks(events[n + 1], k, v)
    BY <1>7
  <2>2. PICK i \in 1..Len(JobsOf(events[n + 1])) : JobsOf(events[n + 1])[i] = Touch(k[1], k[2], v)
    BY <2>1 DEF Asks, Contains
  <2>3. Touch(k[1], k[2], v).op = "touch" /\ Touch(k[1], k[2], v).key = k
    BY DEF Touch, ListKey
  <2>4. Awaited(jobs'[k[1]], step'[k[1]], k)
    BY <1>3, <2>2, <2>3 DEF Awaited
  <2>5. QED
    BY <1>1, <1>3, <1>4, <1>5, <1>6, <2>4 DEF FreshAfter, FreshList
<1>8. CASE ~\E v \in Contact : Asks(events[n + 1], k, v)
  <2>1. Current(events, list, r, k, n + 1)
    BY <1>2, <1>3, <1>5, <1>8, UntouchedOrder DEF Current
  <2>2. QED
    BY <1>1, <1>3, <1>4, <2>1 DEF FreshAfter, FreshList
<1>9. QED
  BY <1>7, <1>8

\* A new process goes back to an offset before the event under way.
LEMMA BackFresh ==
  ASSUME RInv, failures = 0, ~missed, NEW k \in ListKey, Ending, committed[k[1]] # NoOffset
  PROVE  FreshAfter(k)
<1>1. PICK list, events, n, c, r :
        list = recent[k] /\ events = log[k[1]] /\ n = next[k[1]] /\ c = committed[k[1]] /\ r = deaths
  OBVIOUS
<1>2. /\ FreshAt(k) /\ k[1] \in Topic /\ r \in Nat /\ c \in Nat /\ c <= n
      /\ events \in Seq(Event) /\ n \in Nat /\ n <= Len(events) /\ list \in Seq(Contact)
  <2>1. /\ FreshAt(k) /\ k[1] \in Topic /\ r \in Nat
        /\ events \in Seq(Event) /\ n \in 0..Len(events) /\ list \in Seq(Contact)
    BY <1>1, FreshFacts
  <2>2. c \in Nat /\ c <= n
    BY <1>1, <2>1 DEF RInv, IInv, TypeOK, Offsets
  <2>3. QED
    BY <2>1, <2>2
<1>3. /\ jobs'[k[1]] = <<>> /\ next'[k[1]] = c /\ deaths' = r + 1 /\ UNCHANGED <<log, recent>>
  BY <1>1, <1>2, EndFacts DEF EndedAt, RInv
<1>4. Held(recent'[k], contacts'[k[1]], jobs'[k[1]], step'[k[1]], k) = list
  BY <1>1, <1>3 DEF Held
<1>5. Ordered(events, k, list, c)
  <2>1. CASE Held(recent[k], contacts[k[1]], jobs[k[1]], step[k[1]], k) = list
    <3>1. CASE Current(events, list, r, k, n)
      BY <1>2, <3>1, OrderedBack DEF Current
    <3>2. CASE Awaited(jobs[k[1]], step[k[1]], k) /\ Current(events, list, r, k, n - 1)
      <4>1. jobs[k[1]] # <<>>
        <5>1. Len(<<>>) = 0
          OBVIOUS
        <5>2. QED
          BY <3>2, <5>1 DEF Awaited
      <4>2. c < n
        BY <1>1, <1>2, <4>1 DEF RInv, UnderWay
      <4>3. n - 1 \in Nat /\ c <= n - 1 /\ n - 1 <= Len(events)
        BY <1>2, <4>2
      <4>4. QED
        BY <1>2, <3>2, <4>3, OrderedBack DEF Current
    <3>3. QED
      BY <1>1, <1>2, <2>1, <3>1, <3>2 DEF FreshAt, FreshList
  <2>2. CASE Held(recent[k], contacts[k[1]], jobs[k[1]], step[k[1]], k) # list
    <3>1. jobs[k[1]] # <<>> /\ Head(jobs[k[1]]).op = "touch" /\ step[k[1]] = "lpush"
          /\ Head(jobs[k[1]]).key = k
      BY <1>1, <2>2 DEF Held
    <3>2. list = <<>> /\ Len(<<>>) = 0
      BY <1>1, <1>2, <3>1 DEF RInv, IInv, InMiddle, AtCommand
    <3>3. QED
      BY <3>2 DEF Ordered
  <2>3. QED
    BY <2>1, <2>2
<1>6. Current(events, list, r + 1, k, c)
  <2>1. r + 1 # 0
    BY <1>2
  <2>2. QED
    BY <1>5, <2>1 DEF Current
<1>7. QED
  BY <1>1, <1>3, <1>4, <1>6 DEF FreshAfter, FreshList

\* Without an offset it goes on behind an event that is done.
LEMMA EndFresh ==
  ASSUME RInv, failures = 0, ~missed, NEW k \in ListKey, Ending, ~missed'
  PROVE  FreshAfter(k)
<1>1. k[1] \in Topic
  BY FreshFacts
<1>2. CASE committed[k[1]] # NoOffset
  BY <1>2, BackFresh
<1>3. CASE committed[k[1]] = NoOffset
  <2>1. /\ jobs[k[1]] = <<>> /\ jobs'[k[1]] = <<>> /\ next'[k[1]] = next[k[1]]
        /\ UNCHANGED <<log, recent>> /\ deaths' = deaths + 1
    BY <1>1, <1>3, EndFacts DEF EndedAt, RInv
  <2>2. Held(recent'[k], contacts'[k[1]], jobs'[k[1]], step'[k[1]], k)
          = Held(recent[k], contacts[k[1]], jobs[k[1]], step[k[1]], k)
    BY <2>1 DEF Held
  <2>3. ~Awaited(jobs[k[1]], step[k[1]], k)
    <3>1. Len(<<>>) = 0
      OBVIOUS
    <3>2. QED
      BY <2>1, <3>1 DEF Awaited
  <2>4. QED
    BY <2>1, <2>2, <2>3, AlikeFresh
<1>4. QED
  BY <1>2, <1>3

\* Moving the contact of the event under way puts its list in order with it.
LEMMA LpushFresh ==
  ASSUME RInv, failures = 0, ~missed, NEW k \in ListKey, Lpush(k[1])
  PROVE  FreshAfter(k)
<1>1. PICK local, events, n, r, v :
        /\ local = contacts[k[1]] /\ events = log[k[1]] /\ n = next[k[1]] /\ r = deaths
        /\ v = Head(jobs[k[1]]).value
  OBVIOUS
<1>2. /\ FreshAt(k) /\ k[1] \in Topic /\ events \in Seq(Event) /\ n \in 0..Len(events)
      /\ local \in Seq(Contact) /\ IsInjective(local) /\ jobs[k[1]] \in Seq(Job)
  BY <1>1, FreshFacts
<1>3. /\ jobs[k[1]] # <<>> /\ Head(jobs[k[1]]).op = "touch" /\ step[k[1]] = "lpush"
      /\ recent' = [recent EXCEPT ![Head(jobs[k[1]]).key] =
                      LPush(@, Append(Reverse(RemoveFirst(local, v)), v))]
      /\ step'[k[1]] = "ltrim" /\ UNCHANGED <<log, next, jobs, contacts, deaths>>
  BY <1>1, <1>2 DEF Lpush, PushBack, AtCommand, faultVars, RInv, IInv, TypeOK
<1>4. CASE Head(jobs[k[1]]).key # k
  <2>1. recent'[k] = recent[k]
    BY <1>3, <1>4 DEF RInv, IInv, TypeOK
  <2>2. Held(recent'[k], contacts'[k[1]], jobs'[k[1]], step'[k[1]], k)
          = Held(recent[k], contacts[k[1]], jobs[k[1]], step[k[1]], k)
    BY <1>3, <1>4, <2>1 DEF Held
  <2>3. Awaited(jobs[k[1]], step[k[1]], k) => Awaited(jobs'[k[1]], step'[k[1]], k)
    <3>1. Head(jobs[k[1]]) = jobs[k[1]][1]
      BY <1>2, <1>3
    <3>2. QED
      BY <1>3, <1>4, <3>1 DEF Awaited
  <2>4. QED
    BY <1>3, <2>2, <2>3, AlikeFresh
<1>5. CASE Head(jobs[k[1]]).key = k
  <2>1. v \in Contact /\ Head(jobs[k[1]]) = jobs[k[1]][1] /\ 1 \in 1..Len(jobs[k[1]])
        /\ Head(jobs[k[1]]) \in Job
    <3>1. v \in Contact /\ Head(jobs[k[1]]) \in Job
      BY <1>1, <1>2, <1>3, HeadJob DEF RInv, IInv
    <3>2. QED
      BY <1>2, <1>3, <3>1
  <2>2. recent[k] = <<>>
    BY <1>2, <1>3, <1>5 DEF RInv, IInv, InMiddle, AtCommand
  <2>3. recent'[k] = MoveToFront(local, v)
    BY <1>3, <1>5, <2>2 DEF MoveToFront, RInv, IInv, TypeOK
  <2>4. /\ Held(recent[k], contacts[k[1]], jobs[k[1]], step[k[1]], k) = local
        /\ Held(recent'[k], contacts'[k[1]], jobs'[k[1]], step'[k[1]], k) = MoveToFront(local, v)
    BY <1>1, <1>3, <1>5, <2>3 DEF Held
  <2>5. PICK m \in {n - 1, n} : Current(events, local, r, k, m)
    BY <1>1, <1>2, <2>4 DEF FreshAt, FreshList
  <2>6. n \in 1..Len(events)
    <3>1. next[k[1]] > 0 /\ next[k[1]] \in Nat
      BY <1>2, <1>3 DEF RInv, UnderWay, IInv, TypeOK
    <3>2. QED
      BY <1>1, <1>2, <3>1
  <2>7. Asks(events[n], k, v)
    <3>1. jobs[k[1]][1] = Touch(k[1], k[2], v)
      <4>1. PICK job : job = jobs[k[1]][1]
        OBVIOUS
      <4>2. job \in Job /\ job.op = "touch" /\ job.key = k /\ job.value = v
        BY <1>1, <1>3, <1>5, <2>1, <4>1
      <4>3. job = [op |-> "touch", key |-> k, value |-> v]
        BY <4>2 DEF Job
      <4>4. k = <<k[1], k[2]>>
        BY DEF ListKey
      <4>5. QED
        BY <4>1, <4>3, <4>4 DEF Touch
    <3>2. Contains(JobsOf(log[k[1]][next[k[1]]]), jobs[k[1]][1])
      BY <1>2, <1>3, <2>1 DEF RInv, UnderWay
    <3>3. QED
      BY <1>1, <3>1, <3>2 DEF Asks
  <2>8. Current(events, MoveToFront(local, v), r, k, n)
    BY <1>2, <2>1, <2>5, <2>6, <2>7, TouchedOrder DEF Current
  <2>9. QED
    BY <1>1, <1>3, <2>4, <2>8 DEF FreshAfter, FreshList
<1>6. QED
  BY <1>4, <1>5

LEMMA LtrimFresh ==
  ASSUME RInv, failures = 0, ~missed, NEW k \in ListKey, Ltrim(k[1])
  PROVE  FreshAfter(k)
<1>1. PICK work, events, n, r :
        work = jobs[k[1]] /\ events = log[k[1]] /\ n = next[k[1]] /\ r = deaths
  OBVIOUS
<1>2. /\ FreshAt(k) /\ k[1] \in Topic /\ events \in Seq(Event) /\ n \in 0..Len(events)
      /\ work \in Seq(Job) /\ recent[k] \in Seq(Contact)
  BY <1>1, FreshFacts
<1>3. /\ work # <<>> /\ Head(work).op = "touch" /\ step[k[1]] = "ltrim"
      /\ recent' = [recent EXCEPT ![Head(work).key] = LTrim(recent[Head(work).key], MaxBuffer)]
      /\ step'[k[1]] = "lrange" /\ jobs'[k[1]] = Tail(work) /\ UNCHANGED <<log, next, deaths>>
  BY <1>1, <1>2 DEF Ltrim, KeepOnly, AtCommand, faultVars, RInv, IInv, TypeOK
<1>4. Awaited(work, "ltrim", k) => Awaited(Tail(work), "lrange", k)
  <2>1. SUFFICES ASSUME NEW i \in 1..Len(work), i # 1, work[i].op = "touch", work[i].key = k
                 PROVE  \E h \in 1..Len(Tail(work)) : Tail(work)[h].op = "touch" /\ Tail(work)[h].key = k
    BY DEF Awaited
  <2>2. i - 1 \in 1..Len(Tail(work)) /\ Tail(work)[i - 1] = work[i]
    <3>1. Len(Tail(work)) = Len(work) - 1 /\ \A h \in 1..Len(Tail(work)) : Tail(work)[h] = work[h + 1]
      BY <1>2, <1>3
    <3>2. i - 1 \in 1..Len(Tail(work)) /\ (i - 1) + 1 = i
      BY <1>2, <1>3, <2>1, <3>1
    <3>3. QED
      BY <3>1, <3>2
  <2>3. QED
    BY <2>1, <2>2
<1>5. /\ Held(recent[k], contacts[k[1]], jobs[k[1]], step[k[1]], k) = recent[k]
      /\ Held(recent'[k], contacts'[k[1]], jobs'[k[1]], step'[k[1]], k) = recent'[k]
  BY <1>1, <1>3 DEF Held
<1>6. CASE Head(work).key # k
  <2>1. recent'[k] = recent[k]
    BY <1>3, <1>6 DEF RInv, IInv, TypeOK
  <2>2. QED
    BY <1>1, <1>3, <1>4, <1>5, <2>1, AlikeFresh
<1>7. CASE Head(work).key = k
  <2>1. recent'[k] = LTrim(recent[k], MaxBuffer)
    BY <1>3, <1>7 DEF RInv, IInv, TypeOK
  <2>2. \A m \in Nat : Current(events, recent[k], r, k, m) => Current(events, LTrim(recent[k], MaxBuffer), r, k, m)
    BY <1>2, TrimmedOrder DEF Current
  <2>3. n \in Nat /\ n - 1 \in Nat
    <3>1. next[k[1]] > 0 /\ next[k[1]] \in Nat
      BY <1>1, <1>2, <1>3 DEF RInv, UnderWay, IInv, TypeOK
    <3>2. QED
      BY <1>1, <3>1
  <2>4. \/ Current(events, recent[k], r, k, n)
        \/ Awaited(work, "ltrim", k) /\ Current(events, recent[k], r, k, n - 1)
    BY <1>1, <1>2, <1>3, <1>5 DEF FreshAt, FreshList
  <2>5. \/ Current(events, recent'[k], r, k, n)
        \/ Awaited(Tail(work), "lrange", k) /\ Current(events, recent'[k], r, k, n - 1)
    BY <1>4, <2>1, <2>2, <2>3, <2>4
  <2>6. QED
    BY <1>1, <1>3, <1>5, <2>5 DEF FreshAfter, FreshList
<1>8. QED
  BY <1>6, <1>7

\* Reading and deleting a list, and counting, leave every list as it is held.
LEMMA HeldFresh ==
  ASSUME RInv, failures = 0, ~missed, NEW k \in ListKey,
         Lrange(k[1]) \/ Delete(k[1]) \/ Zincrby(k[1])
  PROVE  FreshAfter(k)
<1>1. k[1] \in Topic /\ jobs[k[1]] \in Seq(Job)
  BY FreshFacts
<1>2. UNCHANGED <<log, next, deaths>>
  BY DEF Lrange, Delete, Zincrby, redisVars, faultVars
<1>4. CASE Lrange(k[1])
  <2>1. step[k[1]] = "lrange" /\ step'[k[1]] = "delete" /\ UNCHANGED <<jobs, recent>>
    BY <1>1, <1>4 DEF Lrange, AtCommand, redisVars, RInv, IInv, TypeOK
  <2>2. /\ Held(recent[k], contacts[k[1]], jobs[k[1]], step[k[1]], k) = recent[k]
        /\ Held(recent'[k], contacts'[k[1]], jobs'[k[1]], step'[k[1]], k) = recent[k]
    BY <2>1 DEF Held
  <2>3. Awaited(jobs'[k[1]], step'[k[1]], k) <=> Awaited(jobs[k[1]], step[k[1]], k)
    BY <2>1 DEF Awaited
  <2>4. QED
    BY <1>2, <2>2, <2>3, AlikeFresh
<1>5. CASE Delete(k[1])
  <2>1. /\ AtCommand(k[1], "delete") /\ step[k[1]] = "delete" /\ step'[k[1]] = "lpush"
        /\ jobs[k[1]] # <<>> /\ Head(jobs[k[1]]).op = "touch"
        /\ recent' = [recent EXCEPT ![Head(jobs[k[1]]).key] = <<>>] /\ UNCHANGED <<jobs, contacts>>
    BY <1>1, <1>5 DEF Delete, AtCommand, RInv, IInv, TypeOK
  <2>2. contacts[k[1]] = recent[Head(jobs[k[1]]).key]
    BY <1>1, <2>1 DEF RInv, HoldsList
  <2>3. Held(recent[k], contacts[k[1]], jobs[k[1]], step[k[1]], k) = recent[k]
    BY <2>1 DEF Held
  <2>4. Held(recent'[k], contacts'[k[1]], jobs'[k[1]], step'[k[1]], k) = recent[k]
    <3>1. CASE Head(jobs[k[1]]).key = k
      BY <2>1, <2>2, <3>1 DEF Held
    <3>2. CASE Head(jobs[k[1]]).key # k
      BY <2>1, <3>2 DEF Held, RInv, IInv, TypeOK
    <3>3. QED
      BY <3>1, <3>2
  <2>5. Awaited(jobs'[k[1]], step'[k[1]], k) <=> Awaited(jobs[k[1]], step[k[1]], k)
    BY <2>1 DEF Awaited
  <2>6. QED
    BY <1>2, <2>3, <2>4, <2>5, AlikeFresh
<1>6. CASE Zincrby(k[1])
  <2>1. PICK work : work = jobs[k[1]]
    OBVIOUS
  <2>2. /\ work \in Seq(Job) /\ work # <<>> /\ Head(work).op = "count" /\ jobs'[k[1]] = Tail(work)
        /\ UNCHANGED <<step, contacts, recent>>
    BY <1>1, <1>6, <2>1 DEF Zincrby, RInv, IInv, TypeOK
  <2>3. step[k[1]] = "lrange"
    BY <1>1, <2>1, <2>2 DEF RInv, IInv, InMiddle
  <2>4. Held(recent'[k], contacts'[k[1]], jobs'[k[1]], step'[k[1]], k)
          = Held(recent[k], contacts[k[1]], jobs[k[1]], step[k[1]], k)
    BY <2>2, <2>3 DEF Held
  <2>5. Awaited(work, "lrange", k) => Awaited(Tail(work), "lrange", k)
    <3>1. SUFFICES ASSUME NEW i \in 1..Len(work), work[i].op = "touch", work[i].key = k
                   PROVE  \E h \in 1..Len(Tail(work)) : Tail(work)[h].op = "touch" /\ Tail(work)[h].key = k
      BY DEF Awaited
    <3>2. i # 1
      BY <2>2, <3>1
    <3>3. i - 1 \in 1..Len(Tail(work)) /\ Tail(work)[i - 1] = work[i]
      <4>1. Len(Tail(work)) = Len(work) - 1 /\ \A h \in 1..Len(Tail(work)) : Tail(work)[h] = work[h + 1]
        BY <2>2
      <4>2. i - 1 \in 1..Len(Tail(work)) /\ (i - 1) + 1 = i
        BY <2>2, <3>2, <4>1
      <4>3. QED
        BY <4>1, <4>2
    <3>4. QED
      BY <3>1, <3>3
  <2>6. QED
    BY <1>2, <2>1, <2>2, <2>3, <2>4, <2>5, AlikeFresh
<1>7. QED
  BY <1>4, <1>5, <1>6

\* A step of the other topic writes none of a topic's lists.
LEMMA OtherFresh ==
  ASSUME RInv, failures = 0, ~missed, NEW k \in ListKey, NEW t \in Topic, t # k[1],
         Poll(t) \/ Command(t)
  PROVE  FreshAfter(k)
<1>1. k[1] \in Topic
  BY DEF ListKey
<1>2. /\ log' = log /\ next'[k[1]] = next[k[1]] /\ jobs'[k[1]] = jobs[k[1]]
      /\ step'[k[1]] = step[k[1]] /\ contacts'[k[1]] = contacts[k[1]]
      /\ (deaths' = deaths \/ deaths' = deaths + 1)
  <2>1. CASE Poll(t)
    BY <1>1, <2>1 DEF Poll, redisVars, faultVars, RInv, IInv, TypeOK
  <2>2. CASE Lrange(t) \/ Delete(t) \/ Lpush(t)
    BY <1>1, <2>2 DEF Lrange, Delete, Lpush, PushBack, redisVars, faultVars, RInv, IInv, TypeOK
  <2>3. CASE Ltrim(t) \/ Zincrby(t)
    BY <1>1, <2>3 DEF Ltrim, KeepOnly, Zincrby, faultVars, RInv, IInv, TypeOK
  <2>4. QED
    BY <2>1, <2>2, <2>3 DEF Command
<1>3. recent'[k] = recent[k]
  <2>1. \/ UNCHANGED recent
        \/ jobs[t] # <<>> /\ \E l : recent' = [recent EXCEPT ![Head(jobs[t]).key] = l]
    <3>1. CASE Delete(t)
      BY <3>1 DEF Delete, AtCommand
    <3>2. CASE Lpush(t)
      BY <3>2 DEF Lpush, PushBack, AtCommand
    <3>3. CASE Ltrim(t)
      BY <3>3 DEF Ltrim, KeepOnly, AtCommand
    <3>4. CASE Poll(t) \/ Lrange(t) \/ Zincrby(t)
      BY <3>4 DEF Poll, Lrange, Zincrby, redisVars
    <3>5. QED
      BY <3>1, <3>2, <3>3, <3>4 DEF Command
  <2>2. jobs[t] # <<>> => Head(jobs[t]).key # k
    BY HeadJob DEF RInv, IInv
  <2>3. QED
    BY <2>1, <2>2 DEF RInv, IInv, TypeOK
<1>4. QED
  BY <1>2, <1>3, AlikeFresh

LEMMA NextFresh == RInv /\ [Next]_vars => Fresh'
<1> SUFFICES ASSUME RInv, [Next]_vars, failures' = 0, ~missed', NEW k \in ListKey
             PROVE  FreshAfter(k)
  BY DEF Fresh, FreshAfter
<1>0. k[1] \in Topic /\ failures \in Nat
  BY DEF ListKey, RInv, IInv, TypeOK
<1>1. ASSUME NEW t \in Topic, Fail(t) PROVE FALSE
  <2>1. failures' = failures + 1
    BY <1>1 DEF Fail
  <2>2. QED
    BY <1>0, <2>1
<1>2. failures = 0 /\ ~missed
  <2>1. CASE Ending
    BY <1>0, <2>1, EndFacts DEF EndedAt, RInv
  <2>2. CASE Start
    BY <2>2 DEF Start, faultVars
  <2>3. CASE UNCHANGED vars \/ Commit \/ \E e \in Event : Publish(e)
    BY <2>3 DEF vars, Commit, Publish, processVars, faultVars
  <2>4. ASSUME NEW t \in Topic, Poll(t) \/ Command(t) PROVE UNCHANGED <<missed, failures>>
    BY <2>4 DEF Poll, Command, Lrange, Delete, Lpush, PushBack, Ltrim, KeepOnly, Zincrby,
                processVars, faultVars
  <2>5. QED
    BY <1>1, <2>1, <2>2, <2>3, <2>4 DEF Next, Ending
<1>3. CASE UNCHANGED vars \/ Commit
  BY <1>2, <1>3, AlikeFresh DEF vars, Commit, consumerVars, redisVars, faultVars
<1>4. ASSUME NEW e \in Event, Publish(e) PROVE FreshAfter(k)
  BY <1>2, <1>4, PublishFresh
<1>5. ASSUME NEW t \in Topic, Poll(t) \/ Command(t) PROVE FreshAfter(k)
  <2>1. CASE t = k[1]
    BY <1>2, <1>5, <2>1, PollFresh, HeldFresh, LpushFresh, LtrimFresh DEF Command
  <2>2. CASE t # k[1]
    BY <1>2, <1>5, <2>2, OtherFresh
  <2>3. QED
    BY <2>1, <2>2
<1>6. CASE Ending
  BY <1>2, <1>6, EndFresh
<1>7. CASE Start
  <2>1. next' = next /\ UNCHANGED <<log, jobs, step, contacts, recent, deaths>>
    BY <1>7 DEF Start, redisVars, faultVars
  <2>2. QED
    BY <1>2, <2>1, AlikeFresh
<1>8. QED
  BY <1>1, <1>3, <1>4, <1>5, <1>6, <1>7 DEF Next, Ending

\* What a consumer that has caught up leaves in Redis.
LEMMA QuietList ==
  ASSUME RInv, NEW k \in ListKey, Quiet(k[1]), failures = 0, ~missed
  PROVE  /\ Ordered(log[k[1]], k, recent[k], Len(log[k[1]]))
         /\ deaths = 0 => Complete(log[k[1]], k, recent[k], Len(log[k[1]]))
         /\ recent[k] \in Seq(Contact) /\ log[k[1]] \in Seq(Event)
<1>1. FreshAt(k) /\ recent[k] \in Seq(Contact) /\ log[k[1]] \in Seq(Event)
  BY FreshFacts
<1>2. next[k[1]] = Len(log[k[1]]) /\ jobs[k[1]] = <<>> /\ Len(<<>>) = 0
  BY DEF Quiet
<1>3. ~Awaited(jobs[k[1]], step[k[1]], k)
  BY <1>2 DEF Awaited
<1>4. Held(recent[k], contacts[k[1]], jobs[k[1]], step[k[1]], k) = recent[k]
  BY <1>2 DEF Held
<1>5. Current(log[k[1]], recent[k], deaths, k, Len(log[k[1]]))
  BY <1>1, <1>2, <1>3, <1>4 DEF FreshAt, FreshList
<1>6. QED
  BY <1>1, <1>5 DEF Current

LEMMA AlwaysFresh == Spec => []RInv
<1>1. Init => HoldsList /\ Offsets /\ UnderWay /\ Fresh
  <2>1. SUFFICES ASSUME Init PROVE HoldsList /\ Offsets /\ UnderWay /\ Fresh
    OBVIOUS
  <2>2. HoldsList /\ Offsets /\ UnderWay
    BY <2>1 DEF Init, HoldsList, AtCommand, Offsets, UnderWay, NoOffset
  <2>3. ASSUME NEW k \in ListKey PROVE FreshAt(k)
    <3>1. /\ k[1] \in Topic /\ recent[k] = <<>> /\ contacts[k[1]] = <<>> /\ log[k[1]] = <<>>
          /\ next[k[1]] = 0
      BY <2>1 DEF Init, ListKey
    <3>2. Held(recent[k], contacts[k[1]], jobs[k[1]], step[k[1]], k) = <<>> /\ Len(<<>>) = 0
      BY <3>1 DEF Held
    <3>3. \A v : ~(Latest(<<>>, k, v, 0) > 0)
      <4>1. \A v : Latest(<<>>, k, v, 0) \in 0..0
        BY LatestIs
      <4>2. QED
        BY <4>1
    <3>4. Ordered(<<>>, k, <<>>, 0) /\ Complete(<<>>, k, <<>>, 0)
      BY <3>2, <3>3 DEF Ordered, Complete
    <3>5. QED
      BY <3>1, <3>2, <3>4 DEF FreshAt, FreshList, Current
  <2>4. QED
    BY <2>2, <2>3 DEF Fresh, FreshAt
<1>2. RInv /\ [Next]_vars => HoldsList' /\ Offsets' /\ UnderWay' /\ Fresh'
  BY HoldsListStep, OffsetsStep, UnderWayStep, NextFresh DEF RInv
<1>3. QED
  BY <1>1, <1>2, InductiveInvariant, RunningInvariant, PTL DEF Spec, RInv

\* For any events, buffer size and number of ends of the process, a consumer
\* none of whose commands failed, and no process of which passed over events,
\* leaves every list in the order of the conversations' last messages once it
\* has taken all events.
THEOREM ListsAreNewestFirst == Spec => []NewestFirst
<1>1. RInv => NewestFirst
  <2>1. SUFFICES ASSUME RInv, NEW k \in ListKey, Quiet(k[1]), failures = 0, ~missed
                 PROVE  /\ \A i \in DOMAIN recent[k] : LastTouch(k, recent[k][i]) > 0
                        /\ \A i, j \in DOMAIN recent[k] :
                             i < j => LastTouch(k, recent[k][i]) > LastTouch(k, recent[k][j])
    BY DEF NewestFirst
  <2>2. PICK events, list : events = log[k[1]] /\ list = recent[k]
    OBVIOUS
  <2>3. Ordered(events, k, list, Len(events)) /\ list \in Seq(Contact) /\ events \in Seq(Event)
    BY <2>1, <2>2, QuietList
  <2>4. \A i \in 1..Len(list) : Latest(events, k, list[i], Len(events)) \in 0..Len(events)
    <3>1. Len(events) \in Nat
      BY <2>3
    <3>2. QED
      BY <3>1, LatestIs
  <2>5. \A x \in 0..Len(events) : ~(x > Len(events))
    BY <2>3
  <2>6. /\ \A i \in 1..Len(list) : Latest(events, k, list[i], Len(events)) > 0
        /\ \A i, j \in 1..Len(list) : i < j =>
             Latest(events, k, list[i], Len(events)) > Latest(events, k, list[j], Len(events))
    BY <2>3, <2>4, <2>5 DEF Ordered
  <2>7. DOMAIN list = 1..Len(list)
    BY <2>3
  <2>8. QED
    BY <2>2, <2>6, <2>7, LastTouchIsLatest
<1>2. QED
  BY <1>1, AlwaysFresh, PTL

\* Without faults, for any events and buffer size, a list misses a contact only
\* when it is full of contacts whose last messages are later.
THEOREM NobodyForgotten == Spec => []NothingForgotten
<1>1. RInv => NothingForgotten
  <2>1. SUFFICES ASSUME RInv, NEW k \in ListKey, NEW w \in Contact,
                        Quiet(k[1]), failures = 0, deaths = 0, LastTouch(k, w) > 0
                 PROVE  \/ Contains(recent[k], w)
                        \/ /\ Len(recent[k]) = MaxBuffer
                           /\ LastTouch(k, w) < LastTouch(k, recent[k][MaxBuffer])
    BY DEF NothingForgotten
  <2>2. PICK events, list : events = log[k[1]] /\ list = recent[k]
    OBVIOUS
  <2>3. Complete(events, k, list, Len(events)) /\ list \in Seq(Contact) /\ events \in Seq(Event)
    <3>1. ~missed
      BY <2>1 DEF RInv, Running
    <3>2. QED
      BY <2>1, <2>2, <3>1, QuietList
  <2>4. Len(list) <= MaxBuffer
    <3>1. ~Trimming(k)
      BY <2>1 DEF Quiet, Trimming, AtCommand
    <3>2. Len(list) <= MaxBuffer + 0 + 0 + 0
      BY <2>1, <2>2, <3>1 DEF RInv, IInv, BoundedLists
    <3>3. QED
      BY <3>2, BufferAssumption
  <2>5. CASE ~Contains(list, w)
    <3>1. /\ Len(list) >= MaxBuffer
          /\ \A i \in 1..MaxBuffer :
               Latest(events, k, list[i], Len(events)) > Latest(events, k, w, Len(events))
      BY <2>1, <2>2, <2>3, <2>5, LastTouchIsLatest DEF Complete
    <3>2. MaxBuffer \in 1..MaxBuffer
      BY BufferAssumption
    <3>3. Len(list) = MaxBuffer
      BY <2>3, <2>4, <3>1, BufferAssumption
    <3>4. PICK x, y : /\ x = Latest(events, k, list[MaxBuffer], Len(events))
                      /\ y = Latest(events, k, w, Len(events))
      OBVIOUS
    <3>5. x \in Nat /\ y \in Nat /\ x > y
      <4>1. Len(events) \in Nat
        BY <2>3
      <4>2. x \in 0..Len(events) /\ y \in 0..Len(events)
        BY <3>4, <4>1, LatestIs
      <4>3. QED
        BY <3>1, <3>2, <3>4, <4>2
    <3>6. y < x
      BY <3>5
    <3>7. QED
      BY <2>2, <3>3, <3>4, <3>6, LastTouchIsLatest
  <2>6. QED
    BY <2>2, <2>5
<1>2. QED
  BY <1>1, AlwaysFresh, PTL
=============================================================================
