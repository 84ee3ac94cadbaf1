-------------------------- MODULE UpdateCheckProofs --------------------------
(***************************************************************************)
(* Theorems about UpdateCheck: for any number of workers, clients, files     *)
(* and releases, what clients are told is true (FineIsComplete) and what they *)
(* install is of their channel (OwnChannel).                                 *)
(***************************************************************************)
EXTENDS UpdateCheck, TLAPS

\* A content that a file of a client that asks for channel h may have: it was
\* installed at first, or belongs to a release of that channel.
Own(h, f, content) ==
  \/ content = Absent
  \/ \E files \in Installs : content = files[f]
  \/ h \in Channel /\ \E n \in DOMAIN Releases[h] : content = Releases[h][n][f]

\* Directories hold files of their channel's releases.
DiskOfChannel == \A h \in Channel : \A f \in File : Own(h, f, disk[h][f])

\* A walk that nothing disturbed has read what is on the disk, and a table that
\* is current is the disk.
QuietWalk(w) ==
  walk[w].quiet =>
    \A f \in File : IF f \in walk[w].todo
                    THEN disk[walk[w].channel][f] # Absent /\ walk[w].found[f] = Absent
                    ELSE walk[w].found[f] = disk[walk[w].channel][f]
QuietIsDisk ==
  /\ \A w \in Worker : QuietWalk(w)
  /\ \A w \in Worker : \A h \in Channel : current[w][h] => table[w][h] = disk[h]

\* The urls of a table that is filled lead into the directory of its channel.
UrlsOwn == \A w \in Worker : \A h \in Channel : table[w][h] # Nothing => urls[w][h].root = h

\* The channel a client asks for.
Asks(k) ==
  IF k.who.user = "white" THEN "beta" ELSE IF k.who.channel = "none" THEN "product" ELSE k.who.channel

\* A walk reads the channel its client asks for.
WalkErrand ==
  \A w \in Worker : walk[w].for \in Client => walk[w].channel = Asks(client[walk[w].for])

SoundClient(k) ==
  /\ k \in ClientState
  /\ k.step = "apply" => k.told = "update" /\ Asks(k) \in Channel /\ k.urls.root = Asks(k)
  /\ \A f \in File : Own(Asks(k), f, k.files[f])
  /\ k.told = "fine" /\ k.sure => k.files = disk[Asks(k)]

IInv ==
  /\ TypeOK /\ DiskOfChannel /\ QuietIsDisk /\ UrlsOwn /\ WalkErrand
  /\ \A c \in Client : SoundClient(client[c])

-----------------------------------------------------------------------------
LEMMA Names ==
  /\ Absent \notin Present /\ Unreadable # Absent
  /\ Nothing \in Table /\ Directory \subseteq Table
  /\ \A h \in Channel : WorkerDir(h) = h /\ DownloadRoot(h) = h /\ ServedFrom(h) = h
  /\ NoWalk.for \notin Client /\ "reload" \notin Client /\ NoWalk.quiet = FALSE
  /\ NoWalk \in Walk /\ NoUrls \in Urls
  /\ \A k \in Walk : UrlsOf(k) \in Urls /\ UrlsOf(k).root = k.channel
BY ContentAssumption, ClientAssumption
   DEF NoUrls, Urls, UrlsOf, Address, Present, Nothing, Table, Directory, Channel, WorkerDir, DownloadRoot, ServedFrom, NoWalk, Walk

LEMMA AsksIsChannelOf == ASSUME NEW c PROVE ChannelOf(c) = Asks(client[c])
BY DEF ChannelOf, Asks

LEMMA ReleaseType ==
  ASSUME NEW h \in Channel, NEW n \in 1..Len(Releases[h])
  PROVE  /\ n \in DOMAIN Releases[h] /\ Releases[h][n] \in Directory
         /\ \A f \in File : Own(h, f, Releases[h][n][f])
<1>1. Releases[h] \in Seq(Directory)
  BY ReleaseAssumption DEF Directory
<1>2. n \in DOMAIN Releases[h] /\ Releases[h][n] \in Directory
  BY <1>1
<1>3. QED
  BY <1>2 DEF Own

LEMMA FirstRelease ==
  ASSUME NEW h \in Channel
  PROVE  Len(Releases[h]) \in Nat /\ 1 \in 1..Len(Releases[h])
<1>1. Releases[h] \in Seq(Directory) /\ Releases[h] # <<>>
  BY ReleaseAssumption DEF Directory
<1>2. QED
  BY <1>1

\* A check leaves its client with files it may have, and tells it that it is
\* complete only if it is.
LEMMA AnsweredSound ==
  ASSUME IInv, NEW c \in Client, NEW local \in Table, NEW from \in Urls,
         NEW known \in BOOLEAN, ChannelOf(c) \in Channel, local # Nothing => from.root = ChannelOf(c),
         known => local = disk[ChannelOf(c)]
  PROVE  /\ SoundClient(Answered(c, local, from, known))
         /\ Answered(c, local, from, known).who = client[c].who
<1> DEFINE files == client[c].files
           diff == CheckDiff(local, files, Scope(files))
           wanted == diff.changed \cup diff.added
           left == [f \in File |-> IF f \in diff.removed THEN Absent ELSE files[f]]
           h == ChannelOf(c)
           told == [client[c] EXCEPT !.step = "idle", !.told = "unprepared", !.sure = FALSE]
           answer == [client[c] EXCEPT
              !.step = IF wanted = {} THEN "idle" ELSE "apply",
              !.files = left,
              !.todo = wanted,
              !.urls = from,
              !.told = IF wanted \cup diff.removed = {} THEN "fine" ELSE "update",
              !.sure = known /\ Scope(files) = File]
           silent == [client[c] EXCEPT !.step = "idle", !.told = "ok", !.sure = FALSE]
<1>1. Answered(c, local, from, known) =
        IF local = Nothing THEN told ELSE IF ~client[c].who.lists THEN silent ELSE answer
  BY DEF Answered
<1>2. /\ client[c] \in ClientState /\ SoundClient(client[c]) /\ files \in Directory
      /\ Asks(client[c]) = h
  BY AsksIsChannelOf DEF IInv, SoundClient, ClientState
<1>3. /\ told \in ClientState /\ told.who = client[c].who /\ told.files = files
      /\ told.step = "idle" /\ told.told = "unprepared"
  BY <1>2 DEF ClientState
<1>4. Asks(told) = h
  BY <1>2, <1>3 DEF Asks
<1>5. SoundClient(told)
  BY <1>2, <1>3, <1>4 DEF SoundClient
<1>s. SoundClient(silent) /\ silent.who = client[c].who
  <2>1. /\ silent \in ClientState /\ silent.who = client[c].who /\ silent.files = files
        /\ silent.step = "idle" /\ silent.told = "ok"
    BY <1>2 DEF ClientState
  <2>2. Asks(silent) = h
    BY <1>2, <2>1 DEF Asks
  <2>3. QED
    BY <1>2, <2>1, <2>2 DEF SoundClient
<1>6. /\ diff.changed = {f \in Scope(files) \cap Files(local) \cap Files(files) : local[f] # files[f]}
      /\ diff.added = (Scope(files) \cap Files(local)) \ Files(files)
      /\ diff.removed = (Scope(files) \cap Files(files)) \ Files(local)
  BY DEF CheckDiff
<1>7. wanted \subseteq File
  BY <1>6 DEF Files
<1>8. left \in Directory
  BY <1>2 DEF Directory
<1>9. answer \in ClientState
  BY <1>2, <1>7, <1>8, Names DEF ClientState
<1>10. /\ answer.who = client[c].who /\ answer.files = left
       /\ answer.step = IF wanted = {} THEN "idle" ELSE "apply"
       /\ answer.told = IF wanted \cup diff.removed = {} THEN "fine" ELSE "update"
       /\ answer.urls = from
       /\ answer.sure = (known /\ Scope(files) = File)
  BY <1>2 DEF ClientState
<1>11. Asks(answer) = h
  BY <1>2, <1>10 DEF Asks
<1>12. \A f \in File : Own(h, f, left[f])
  BY <1>2 DEF SoundClient, Own
<1>13. ASSUME wanted \cup diff.removed = {}, known, Scope(files) = File PROVE left = disk[h]
  <2>1. \A f \in File : files[f] = local[f]
    <3>1. diff.changed = {} /\ diff.added = {} /\ diff.removed = {}
      BY <1>13
    <3>2. SUFFICES ASSUME NEW f \in File PROVE files[f] = local[f]
      OBVIOUS
    <3>3. f \in Files(files) <=> f \in Files(local)
      <4>1. f \in File \cap Files(local) => f \in Files(files)
        BY <1>6, <1>13, <3>1
      <4>2. f \in File \cap Files(files) => f \in Files(local)
        BY <1>6, <1>13, <3>1
      <4>3. QED
        BY <4>1, <4>2
    <3>4. f \in Files(files) /\ f \in Files(local) => local[f] = files[f]
      BY <1>6, <1>13, <3>1
    <3>5. QED
      BY <3>3, <3>4 DEF Files
  <2>2. left = files
    BY <1>2, <1>13 DEF Directory
  <2>3. local = files
    BY <1>2, <2>1 DEF Directory, Table
  <2>4. QED
    BY <1>13, <2>2, <2>3
<1>14. local # Nothing => SoundClient(answer)
  <2>0. SUFFICES ASSUME local # Nothing PROVE SoundClient(answer)
    OBVIOUS
  <2>1. answer.step = "apply" => answer.told = "update" /\ h \in Channel /\ answer.urls.root = h
    BY <1>10, <2>0
  <2>2. answer.told = "fine" /\ answer.sure => answer.files = disk[h]
    <3>1. SUFFICES ASSUME answer.told = "fine", answer.sure PROVE left = disk[h]
      BY <1>10
    <3>2. known /\ Scope(files) = File
      BY <1>10, <3>1
    <3>3. wanted \cup diff.removed = {}
      BY <1>10, <3>1
    <3>4. QED
      BY <1>13, <3>2, <3>3
  <2>3. QED
    BY <1>9, <1>10, <1>11, <1>12, <2>1, <2>2 DEF SoundClient
<1>15. QED
  BY <1>1, <1>3, <1>5, <1>s, <1>10, <1>14

-----------------------------------------------------------------------------
LEMMA InitIInv == Init => IInv
<1>1. SUFFICES ASSUME Init PROVE IInv
  OBVIOUS
<1>2. \A h \in Channel : disk[h] = Releases[h][1] /\ release[h] = 1
  BY <1>1 DEF Init
<1>3. /\ disk \in [Channel -> Directory] /\ release \in [Channel -> Nat]
      /\ \A h \in Channel : release[h] \in 1..Len(Releases[h])
  BY <1>1, <1>2, FirstRelease, ReleaseType DEF Init
<1>4. /\ table \in [Worker -> [Channel -> Table]]
      /\ current \in [Worker -> [Channel -> BOOLEAN]]
      /\ urls \in [Worker -> [Channel -> Urls]]
      /\ walk \in [Worker -> Walk]
      /\ incidents \in 0..MaxIncidents
  BY <1>1, Names, BoundAssumption DEF Init
<1>5. /\ client \in [Client -> ClientState]
      /\ \A c \in Client : SoundClient(client[c])
  <2>1. \A k \in [who : Profiles, step : {"idle"}, files : Installs, todo : {{}},
                  urls : {NoUrls}, told : {"nothing"}, sure : {FALSE}] :
          k \in ClientState /\ SoundClient(k)
    BY ProfileAssumption, Names DEF ClientState, SoundClient, Directory, Channel, Own
  <2>2. QED
    BY <1>1, <2>1 DEF Init
<1>6. TypeOK
  BY <1>3, <1>4, <1>5 DEF TypeOK
<1>7. DiskOfChannel
  BY <1>2, FirstRelease, ReleaseType DEF DiskOfChannel
<1>8. QuietIsDisk /\ UrlsOwn /\ WalkErrand
  BY <1>1, Names DEF Init, QuietIsDisk, QuietWalk, UrlsOwn, WalkErrand
<1>9. QED
  BY <1>5, <1>6, <1>7, <1>8 DEF IInv

\* While a directory changes, nothing is known of it.
LEMMA DisturbSound ==
  ASSUME IInv, NEW h \in Channel, Disturb(h), \A k \in Channel \ {h} : disk'[k] = disk[k],
         UNCHANGED <<table, urls>>
  PROVE  /\ current' \in [Worker -> [Channel -> BOOLEAN]]
         /\ walk' \in [Worker -> Walk] /\ client' \in [Client -> ClientState]
         /\ QuietIsDisk' /\ UrlsOwn' /\ WalkErrand'
         /\ \A c \in Client : SoundClient(client[c])'
<1>1. /\ current \in [Worker -> [Channel -> BOOLEAN]]
      /\ walk \in [Worker -> Walk] /\ client \in [Client -> ClientState]
  BY DEF IInv, TypeOK
<1>2. \A w \in Worker : \A k \in Channel : current'[w][k] => current[w][k] /\ k # h
  BY <1>1 DEF Disturb
<1>3. current' \in [Worker -> [Channel -> BOOLEAN]]
  BY <1>1 DEF Disturb
<1>a. walk' = [w \in Worker |-> [walk[w] EXCEPT !.quiet = @ /\ walk[w].channel # h]]
  BY DEF Disturb
<1>b. \A w \in Worker : walk'[w] = [walk[w] EXCEPT !.quiet = @ /\ walk[w].channel # h]
  BY <1>a, Zenon
<1>4. \A w \in Worker : /\ walk'[w] \in Walk
                        /\ walk'[w].for = walk[w].for /\ walk'[w].channel = walk[w].channel
                        /\ walk'[w].todo = walk[w].todo /\ walk'[w].found = walk[w].found
                        /\ walk'[w].quiet => walk[w].quiet /\ walk[w].channel # h
                        /\ walk[w].channel \in Channel
  <2>1. SUFFICES ASSUME NEW w \in Worker
                 PROVE /\ walk'[w] \in Walk
                       /\ walk'[w].for = walk[w].for /\ walk'[w].channel = walk[w].channel
                       /\ walk'[w].todo = walk[w].todo /\ walk'[w].found = walk[w].found
                       /\ walk'[w].quiet => walk[w].quiet /\ walk[w].channel # h
                       /\ walk[w].channel \in Channel
    OBVIOUS
  <2>2. PICK quiet \in BOOLEAN : quiet <=> walk[w].quiet /\ walk[w].channel # h
    OBVIOUS
  <2>3. walk'[w] = [walk[w] EXCEPT !.quiet = quiet]
    BY <1>1, <1>b, <2>2 DEF Walk
  <2>4. walk[w] \in Walk
    BY <1>1
  <2>5. walk'[w] \in Walk /\ walk'[w].quiet = quiet
    BY <2>2, <2>3, <2>4 DEF Walk
  <2>6. /\ walk'[w].for = walk[w].for /\ walk'[w].channel = walk[w].channel
        /\ walk'[w].todo = walk[w].todo /\ walk'[w].found = walk[w].found
        /\ walk[w].channel \in Channel
    BY <2>3, <2>4 DEF Walk
  <2>7. walk'[w].quiet => walk[w].quiet /\ walk[w].channel # h
    BY <2>2, <2>5, Zenon
  <2>8. QED
    BY <2>5, <2>6, <2>7
<1>5. \A c \in Client : /\ client'[c] \in ClientState
                        /\ client'[c] = [client[c] EXCEPT !.sure = FALSE]
                        /\ client'[c].sure = FALSE
                        /\ client'[c].who = client[c].who /\ client'[c].step = client[c].step
                        /\ client'[c].told = client[c].told /\ client'[c].urls = client[c].urls
                        /\ client'[c].files = client[c].files
  BY <1>1 DEF Disturb, ClientState
<1>6. walk' \in [Worker -> Walk] /\ client' \in [Client -> ClientState]
  BY <1>4, <1>5 DEF Disturb
<1>7. QuietIsDisk'
  <2>1. ASSUME NEW w \in Worker PROVE QuietWalk(w)'
    <3>1. walk'[w].quiet => QuietWalk(w) /\ walk[w].quiet /\ walk[w].channel \in Channel \ {h}
      BY <1>4 DEF IInv, QuietIsDisk
    <3>2. QED
      BY <1>4, <3>1 DEF QuietWalk
  <2>2. \A w \in Worker : \A k \in Channel : current'[w][k] => table'[w][k] = disk'[k]
    BY <1>2 DEF IInv, QuietIsDisk
  <2>3. QED
    BY <2>1, <2>2 DEF QuietIsDisk
<1>8. \A c \in Client : Asks(client'[c]) = Asks(client[c])
  BY <1>5 DEF Asks
<1>9. WalkErrand'
  BY <1>4, <1>8 DEF IInv, WalkErrand
<1>10. \A c \in Client : SoundClient(client[c])'
  BY <1>5, <1>8 DEF IInv, SoundClient
<1>11. UrlsOwn'
  BY DEF IInv, UrlsOwn
<1>12. QED
  BY <1>3, <1>6, <1>7, <1>9, <1>10, <1>11

LEMMA PublishIInv == ASSUME IInv, NEW h \in Channel, Publish(h) PROVE IInv'
<1>1. /\ release[h] < Len(Releases[h]) /\ release' = [release EXCEPT ![h] = @ + 1]
      /\ Disturb(h) /\ UNCHANGED <<disk, table, urls, incidents>>
  BY DEF Publish
<1>2. /\ release' \in [Channel -> Nat]
      /\ \A k \in Channel : release'[k] \in 1..Len(Releases[k])
  BY <1>1, FirstRelease DEF IInv, TypeOK
<1>3. TypeOK'
  BY <1>1, <1>2, DisturbSound DEF IInv, TypeOK
<1>4. DiskOfChannel'
  BY <1>1 DEF IInv, DiskOfChannel
<1>5. QED
  BY <1>1, <1>3, <1>4, DisturbSound DEF IInv

LEMMA CopyIInv == ASSUME IInv, NEW h \in Channel, NEW f \in File, Copy(h, f) PROVE IInv'
<1>1. /\ disk' = [disk EXCEPT ![h][f] = Goal(h)[f]]
      /\ Disturb(h) /\ UNCHANGED <<release, table, urls, incidents>>
  BY DEF Copy
<1>2. disk \in [Channel -> Directory] /\ release[h] \in 1..Len(Releases[h])
  BY DEF IInv, TypeOK
<1>3. Goal(h) \in Directory /\ \A g \in File : Own(h, g, Goal(h)[g])
  BY <1>2, ReleaseType DEF Goal
<1>4. \A k \in Channel : \A g \in File :
        disk'[k][g] = IF k = h /\ g = f THEN Goal(h)[f] ELSE disk[k][g]
  BY <1>1, <1>2 DEF Directory
<1>5. \A k \in Channel \ {h} : disk'[k] = disk[k]
  BY <1>1, <1>2
<1>6. disk' \in [Channel -> Directory]
  BY <1>1, <1>2, <1>3 DEF Directory
<1>7. TypeOK'
  BY <1>1, <1>5, <1>6, DisturbSound DEF IInv, TypeOK
<1>8. DiskOfChannel'
  BY <1>3, <1>4 DEF IInv, DiskOfChannel
<1>9. QED
  BY <1>1, <1>5, <1>7, <1>8, DisturbSound DEF IInv

-----------------------------------------------------------------------------
\* A step of one client.
LEMMA ClientMoves ==
  ASSUME IInv, NEW c \in Client, NEW k, SoundClient(k), k.who = client[c].who,
         client' = [client EXCEPT ![c] = k], UNCHANGED <<diskVars, tableVars, walk, incidents>>
  PROVE  IInv'
<1>1. client \in [Client -> ClientState] /\ k \in ClientState
  BY DEF IInv, TypeOK, SoundClient
<1>2. UNCHANGED <<disk, release, table, urls, current, walk, incidents>>
  BY DEF diskVars, tableVars
<1>3. \A d \in Client : client'[d] = IF d = c THEN k ELSE client[d]
  BY <1>1
<1>4. \A d \in Client : Asks(client'[d]) = Asks(client[d])
  BY <1>3 DEF Asks
<1>5. TypeOK'
  BY <1>1, <1>2 DEF IInv, TypeOK
<1>6. DiskOfChannel' /\ QuietIsDisk' /\ UrlsOwn'
  BY <1>2 DEF IInv, DiskOfChannel, QuietIsDisk, QuietWalk, UrlsOwn
<1>7. WalkErrand'
  BY <1>2, <1>4 DEF IInv, WalkErrand
<1>8. \A d \in Client : SoundClient(client[d])'
  BY <1>2, <1>3 DEF IInv, SoundClient
<1>9. QED
  BY <1>5, <1>6, <1>7, <1>8 DEF IInv

LEMMA TellIInv ==
  ASSUME IInv, NEW c \in Client, NEW what \in {"refused", "unprepared"}, client[c].step = "idle",
         Tell(c, what), UNCHANGED <<diskVars, tableVars, walk, incidents>>
  PROVE  IInv'
<1> DEFINE k == [client[c] EXCEPT !.told = what, !.sure = FALSE]
<1>1. client[c] \in ClientState /\ SoundClient(client[c])
  BY DEF IInv, SoundClient
<1>2. /\ k \in ClientState /\ k.who = client[c].who /\ k.files = client[c].files
      /\ k.step = "idle" /\ k.told # "fine"
  BY <1>1 DEF ClientState
<1>3. Asks(k) = Asks(client[c])
  BY <1>2 DEF Asks
<1>4. SoundClient(k)
  BY <1>1, <1>2, <1>3 DEF SoundClient
<1>5. client' = [client EXCEPT ![c] = k]
  BY DEF Tell
<1>6. QED
  BY <1>2, <1>4, <1>5, ClientMoves

LEMMA CheckFromTableIInv ==
  ASSUME IInv, NEW c \in Client, NEW w \in Worker, CheckFromTable(c, w) PROVE IInv'
<1> DEFINE h == ChannelOf(c)
           k == Answered(c, table[w][h], urls[w][h], current[w][h])
<1>1. h \in Channel /\ client' = [client EXCEPT ![c] = k]
      /\ UNCHANGED <<diskVars, tableVars, walk, incidents>>
  BY DEF CheckFromTable, Served
<1>2. /\ table[w][h] \in Table /\ urls[w][h] \in Urls /\ current[w][h] \in BOOLEAN
      /\ table[w][h] # Nothing => urls[w][h].root = h
      /\ current[w][h] => table[w][h] = disk[h]
  BY <1>1 DEF IInv, TypeOK, QuietIsDisk, UrlsOwn
<1>3. SoundClient(k) /\ k.who = client[c].who
  BY <1>1, <1>2, AnsweredSound
<1>4. QED
  BY <1>1, <1>3, ClientMoves

LEMMA DownloadIInv ==
  ASSUME IInv, NEW c \in Client, NEW f \in File, Download(c, f) PROVE IInv'
<1> DEFINE here == IF client[c].urls.via = "public"
                   THEN disk[ServedFrom(client[c].urls.root)][f] ELSE Absent
           rest == client[c].todo \ {f}
           k == [client[c] EXCEPT !.todo = rest,
                                  !.step = IF rest = {} THEN "idle" ELSE "apply",
                                  !.files[f] = IF here = Absent THEN @ ELSE here]
<1>1. /\ client[c].step = "apply"
      /\ client' = [client EXCEPT ![c] = k]
      /\ UNCHANGED <<diskVars, tableVars, walk, incidents>>
  BY DEF Download, IInv, TypeOK, ClientState
<1>2. /\ client[c] \in ClientState /\ SoundClient(client[c])
      /\ client[c].told = "update" /\ Asks(client[c]) \in Channel
      /\ client[c].urls.root = Asks(client[c])
  BY <1>1 DEF IInv, SoundClient
<1>3. here \in {disk[Asks(client[c])][f], Absent} /\ Own(Asks(client[c]), f, here)
  <2>1. here \in {disk[Asks(client[c])][f], Absent}
    BY <1>2, Names
  <2>2. Own(Asks(client[c]), f, disk[Asks(client[c])][f]) /\ Own(Asks(client[c]), f, Absent)
    BY <1>2 DEF IInv, DiskOfChannel, Own
  <2>3. QED
    BY <2>1, <2>2
<1>4. here \in Content \cup {Absent}
  BY <1>2, <1>3 DEF IInv, TypeOK, Directory
<1> HIDE DEF here
<1>5. /\ k.files \in Directory
      /\ \A g \in File : k.files[g] = IF g = f /\ here # Absent THEN here ELSE client[c].files[g]
  BY <1>2, <1>4 DEF ClientState, Directory
<1>6. /\ k \in ClientState /\ k.who = client[c].who /\ k.urls = client[c].urls
      /\ k.told = "update"
  BY <1>2, <1>5 DEF ClientState
<1>7. Asks(k) = Asks(client[c])
  BY <1>6 DEF Asks
<1> HIDE DEF k
<1>8. SoundClient(k)
  BY <1>2, <1>3, <1>5, <1>6, <1>7 DEF SoundClient
<1> USE DEF k, here
<1>9. QED
  BY <1>1, <1>6, <1>8, ClientMoves

\* A walk that begins has read nothing yet, of a disk that is settled or not.
LEMMA StartWalkSound ==
  ASSUME IInv, NEW w \in Worker, NEW for \in Client \cup {"none", "reload"},
         NEW via \in Address, NEW h \in Channel, StartWalk(w, for, via, h), UNCHANGED disk
  PROVE  /\ walk' \in [Worker -> Walk] /\ \A u \in Worker : QuietWalk(u)'
         /\ \A u \in Worker : u # w => walk'[u] = walk[u]
         /\ walk'[w].for = for /\ walk'[w].channel = h
<1>1. Settled(h) \in BOOLEAN
  BY DEF Settled
<1> DEFINE new == [for |-> for, channel |-> h, via |-> via, todo |-> Files(disk[h]), found |-> Nothing,
                   quiet |-> Settled(h)]
<1>2. walk \in [Worker -> Walk] /\ disk[h] \in Directory
  BY DEF IInv, TypeOK
<1>3. walk' = [walk EXCEPT ![w] = new]
  BY Names DEF StartWalk
<1>4. new \in Walk
  BY <1>1, Names DEF Walk, Files
<1>5. walk' \in [Worker -> Walk] /\ \A u \in Worker : walk'[u] = IF u = w THEN new ELSE walk[u]
  BY <1>2, <1>3, <1>4
<1>6. QuietWalk(w)'
  BY <1>5 DEF QuietWalk, Files, Nothing
<1>7. \A u \in Worker : u # w => QuietWalk(u)'
  BY <1>5 DEF IInv, QuietIsDisk, QuietWalk
<1>8. QED
  BY <1>5, <1>6, <1>7

LEMMA CheckLoadsIInv ==
  ASSUME IInv, NEW c \in Client, NEW w \in Worker, CheckLoads(c, w) PROVE IInv'
<1> DEFINE h == ChannelOf(c)
           k == [client[c] EXCEPT !.step = "waiting", !.sure = FALSE]
<1>1. /\ h \in Channel /\ client[c].who.via \in Address /\ StartWalk(w, c, client[c].who.via, h)
      /\ client' = [client EXCEPT ![c] = k]
      /\ UNCHANGED <<disk, release, table, urls, current, incidents>>
  BY ProfileAssumption
     DEF CheckLoads, Served, diskVars, tableVars, IInv, TypeOK, ClientState, ProfileType
<1>2. client \in [Client -> ClientState]
  BY DEF IInv, TypeOK
<1>3. /\ client' \in [Client -> ClientState]
      /\ \A d \in Client : /\ client'[d].who = client[d].who
                           /\ client'[d].files = client[d].files
                           /\ client'[d] = client[d]
                              \/ (client'[d].step = "waiting" /\ client'[d].sure = FALSE)
  <2>1. /\ k \in ClientState /\ k.who = client[c].who /\ k.files = client[c].files
        /\ k.step = "waiting" /\ k.sure = FALSE
    BY <1>2 DEF ClientState
  <2>2. \A d \in Client : client'[d] = IF d = c THEN k ELSE client[d]
    BY <1>1, <1>2
  <2>3. client' \in [Client -> ClientState]
    BY <1>1, <1>2, <2>1
  <2> HIDE DEF k
  <2>4. ASSUME NEW d \in Client
        PROVE /\ client'[d].who = client[d].who /\ client'[d].files = client[d].files
              /\ client'[d] = client[d] \/ (client'[d].step = "waiting" /\ client'[d].sure = FALSE)
    <3>1. CASE d = c
      BY <2>1, <2>2, <3>1
    <3>2. CASE d # c
      BY <2>2, <3>2
    <3>3. QED
      BY <3>1, <3>2
  <2>5. QED
    BY <2>3, <2>4
<1>4. \A d \in Client : Asks(client'[d]) = Asks(client[d])
  BY <1>3 DEF Asks
<1>5. \A d \in Client : SoundClient(client[d])'
  BY <1>1, <1>3, <1>4 DEF IInv, SoundClient
<1>6. TypeOK'
  BY <1>1, <1>3, StartWalkSound DEF IInv, TypeOK
<1>7. DiskOfChannel' /\ QuietIsDisk' /\ UrlsOwn'
  BY <1>1, StartWalkSound DEF IInv, DiskOfChannel, QuietIsDisk, UrlsOwn
<1>8. WalkErrand'
  BY <1>1, <1>4, StartWalkSound, AsksIsChannelOf DEF IInv, WalkErrand
<1>9. QED
  BY <1>5, <1>6, <1>7, <1>8 DEF IInv

LEMMA ReloadIInv ==
  ASSUME IInv, NEW w \in Worker, NEW via \in Address, NEW h \in Channel, Reload(w, via, h)
  PROVE  IInv'
<1>1. /\ StartWalk(w, "reload", via, h) /\ incidents < MaxIncidents /\ incidents' = incidents + 1
      /\ UNCHANGED <<disk, release, table, urls, current, client>>
  BY DEF Reload, Incident, diskVars, tableVars
<1>2. TypeOK'
  <2>1. incidents' \in 0..MaxIncidents
    BY <1>1, BoundAssumption DEF IInv, TypeOK
  <2>2. walk' \in [Worker -> Walk]
    BY <1>1, StartWalkSound
  <2>3. QED
    BY <1>1, <2>1, <2>2 DEF IInv, TypeOK
<1>3. DiskOfChannel' /\ QuietIsDisk' /\ UrlsOwn'
  BY <1>1, StartWalkSound DEF IInv, DiskOfChannel, QuietIsDisk, UrlsOwn
<1>4. WalkErrand'
  BY <1>1, StartWalkSound, Names DEF IInv, WalkErrand
<1>5. \A d \in Client : SoundClient(client[d])'
  BY <1>1 DEF IInv, SoundClient
<1>6. QED
  BY <1>2, <1>3, <1>4, <1>5 DEF IInv

LEMMA WalkFileIInv ==
  ASSUME IInv, NEW w \in Worker, NEW f \in File, WalkFile(w, f) PROVE IInv'
<1> DEFINE here == disk[WorkerDir(walk[w].channel)][f]
           read == IF here = Absent THEN Unreadable ELSE here
           new == [walk[w] EXCEPT !.todo = @ \ {f}, !.found[f] = read]
<1>1. walk \in [Worker -> Walk] /\ walk[w] \in Walk /\ walk[w].channel \in Channel
  BY DEF IInv, TypeOK, Walk
<1>2. /\ f \in walk[w].todo /\ walk' = [walk EXCEPT ![w] = new]
      /\ UNCHANGED <<disk, release, table, urls, current, client, incidents>>
  BY <1>1 DEF WalkFile, diskVars, tableVars, Walk
<1>3. here = disk[walk[w].channel][f] /\ here \in Content \cup {Absent} /\ read \in Present
  BY <1>1, Names DEF IInv, TypeOK, Directory, Present
<1>4. /\ new \in Walk /\ new.for = walk[w].for /\ new.channel = walk[w].channel
      /\ new.todo = walk[w].todo \ {f} /\ new.quiet = walk[w].quiet
      /\ \A g \in File : new.found[g] = IF g = f THEN read ELSE walk[w].found[g]
  BY <1>1, <1>3 DEF Walk, Table
<1>5. walk' \in [Worker -> Walk] /\ \A u \in Worker : walk'[u] = IF u = w THEN new ELSE walk[u]
  BY <1>1, <1>2, <1>4
<1>6. QuietWalk(w)'
  <2>1. SUFFICES ASSUME walk'[w].quiet, NEW g \in File
                 PROVE IF g \in new.todo
                       THEN disk[walk[w].channel][g] # Absent /\ new.found[g] = Absent
                       ELSE new.found[g] = disk[walk[w].channel][g]
    BY <1>2, <1>4, <1>5 DEF QuietWalk
  <2>2. IF g \in walk[w].todo
        THEN disk[walk[w].channel][g] # Absent /\ walk[w].found[g] = Absent
        ELSE walk[w].found[g] = disk[walk[w].channel][g]
    BY <1>4, <1>5, <2>1 DEF IInv, QuietIsDisk, QuietWalk
  <2>3. QED
    BY <1>2, <1>3, <1>4, <2>2
<1>7. \A u \in Worker : u # w => QuietWalk(u)'
  BY <1>2, <1>5 DEF IInv, QuietIsDisk, QuietWalk
<1>8. TypeOK'
  BY <1>2, <1>5 DEF IInv, TypeOK
<1>9. DiskOfChannel' /\ QuietIsDisk' /\ UrlsOwn'
  BY <1>2, <1>6, <1>7 DEF IInv, DiskOfChannel, QuietIsDisk, UrlsOwn
<1>10. WalkErrand'
  BY <1>2, <1>4, <1>5 DEF IInv, WalkErrand
<1>11. \A d \in Client : SoundClient(client[d])'
  BY <1>2 DEF IInv, SoundClient
<1>12. QED
  BY <1>8, <1>9, <1>10, <1>11 DEF IInv

\* A worker that is done with a walk, or dead, has none.
LEMMA NoWalkSound ==
  ASSUME IInv, NEW w \in Worker, walk' = [walk EXCEPT ![w] = NoWalk], UNCHANGED disk,
         \A c \in Client : client'[c].who = client[c].who
  PROVE  /\ walk' \in [Worker -> Walk] /\ (\A u \in Worker : QuietWalk(u)') /\ WalkErrand'
<1>1. walk \in [Worker -> Walk]
  BY DEF IInv, TypeOK
<1>2. \A u \in Worker : walk'[u] = IF u = w THEN NoWalk ELSE walk[u]
  BY <1>1
<1>3. walk' \in [Worker -> Walk]
  BY <1>1, Names
<1>4. \A u \in Worker : QuietWalk(u)'
  BY <1>2, Names DEF IInv, QuietIsDisk, QuietWalk
<1>5. \A c \in Client : Asks(client'[c]) = Asks(client[c])
  BY DEF Asks
<1>6. WalkErrand'
  BY <1>2, <1>5, Names DEF IInv, WalkErrand
<1>7. QED
  BY <1>3, <1>4, <1>6

LEMMA WalkEndsIInv == ASSUME IInv, NEW w \in Worker, WalkEnds(w) PROVE IInv'
<1> DEFINE h == walk[w].channel
           c == walk[w].for
           from == UrlsOf(walk[w])
           k == Answered(c, walk[w].found, from, walk[w].quiet)
<1>1. /\ walk[w].todo = {}
      /\ table' = [table EXCEPT ![w][h] = walk[w].found]
      /\ urls' = [urls EXCEPT ![w][h] = from]
      /\ current' = [current EXCEPT ![w][h] = walk[w].quiet]
      /\ client' = IF c \in Client THEN [client EXCEPT ![c] = k] ELSE client
      /\ walk' = [walk EXCEPT ![w] = NoWalk]
      /\ UNCHANGED <<disk, release, incidents>>
  BY DEF WalkEnds, diskVars
<1>2. /\ walk[w] \in Walk /\ h \in Channel /\ walk[w].found \in Table /\ walk[w].quiet \in BOOLEAN
      /\ disk[h] \in Directory /\ client \in [Client -> ClientState]
      /\ from \in Urls /\ from.root = h
  BY Names DEF IInv, TypeOK, Walk
<1> HIDE DEF from
<1>3. walk[w].quiet => walk[w].found = disk[h]
  <2>1. SUFFICES ASSUME walk[w].quiet PROVE walk[w].found = disk[h]
    OBVIOUS
  <2>2. \A f \in File : walk[w].found[f] = disk[h][f]
    BY <1>1, <2>1 DEF IInv, QuietIsDisk, QuietWalk
  <2>3. QED
    BY <1>2, <2>2 DEF Table, Directory
<1>4. c \in Client => SoundClient(k) /\ k \in ClientState /\ k.who = client[c].who
  <2>1. SUFFICES ASSUME c \in Client
                 PROVE SoundClient(k) /\ k \in ClientState /\ k.who = client[c].who
    OBVIOUS
  <2>2. ChannelOf(c) = h
    BY <2>1, AsksIsChannelOf DEF IInv, WalkErrand
  <2>3. SoundClient(k) /\ k.who = client[c].who
    BY <1>2, <1>3, <2>1, <2>2, AnsweredSound
  <2>4. QED
    BY <2>3 DEF SoundClient
<1>5. /\ client' \in [Client -> ClientState]
      /\ \A d \in Client : client'[d].who = client[d].who
      /\ \A d \in Client : SoundClient(client'[d])
  BY <1>1, <1>2, <1>4 DEF IInv
<1>6. \A d \in Client : SoundClient(client[d])'
  BY <1>1, <1>5 DEF SoundClient
<1>7. /\ table' \in [Worker -> [Channel -> Table]]
      /\ urls' \in [Worker -> [Channel -> Urls]]
      /\ current' \in [Worker -> [Channel -> BOOLEAN]]
  BY <1>1, <1>2 DEF IInv, TypeOK
<1>8. \A u \in Worker : \A g \in Channel : current'[u][g] => table'[u][g] = disk'[g]
  <2>1. \A u \in Worker : \A g \in Channel :
          /\ u = w /\ g = h => table'[u][g] = walk[w].found /\ current'[u][g] = walk[w].quiet
          /\ ~(u = w /\ g = h) => table'[u][g] = table[u][g] /\ current'[u][g] = current[u][g]
    BY <1>1, <1>2 DEF IInv, TypeOK
  <2>2. QED
    BY <1>1, <1>3, <2>1 DEF IInv, QuietIsDisk
<1>9. walk' \in [Worker -> Walk] /\ (\A u \in Worker : QuietWalk(u)') /\ WalkErrand'
  BY <1>1, <1>5, NoWalkSound
<1>10. TypeOK'
  BY <1>1, <1>5, <1>7, <1>9 DEF IInv, TypeOK
<1>11. DiskOfChannel' /\ QuietIsDisk'
  BY <1>1, <1>8, <1>9 DEF IInv, DiskOfChannel, QuietIsDisk
<1>12. UrlsOwn'
  BY <1>1, <1>2 DEF IInv, TypeOK, UrlsOwn, Nothing
<1>13. QED
  BY <1>6, <1>9, <1>10, <1>11, <1>12 DEF IInv

LEMMA RestartIInv == ASSUME IInv, NEW w \in Worker, Restart(w) PROVE IInv'
<1>1. /\ incidents < MaxIncidents /\ incidents' = incidents + 1
      /\ table' = [table EXCEPT ![w] = [h \in Channel |-> Nothing]]
      /\ urls' = [urls EXCEPT ![w] = [h \in Channel |-> NoUrls]]
      /\ current' = [current EXCEPT ![w] = [h \in Channel |-> FALSE]]
      /\ walk' = [walk EXCEPT ![w] = NoWalk]
      /\ client' = [c \in Client |->
           IF walk[w].for = c THEN [client[c] EXCEPT !.step = "idle", !.told = "nothing"]
           ELSE client[c]]
      /\ UNCHANGED <<disk, release>>
  BY DEF Restart, Incident, diskVars
<1>2. client \in [Client -> ClientState]
  BY DEF IInv, TypeOK
<1>3. /\ client' \in [Client -> ClientState]
      /\ \A d \in Client : /\ client'[d].who = client[d].who
                           /\ client'[d].files = client[d].files
                           /\ client'[d] = client[d]
                              \/ (client'[d].step = "idle" /\ client'[d].told = "nothing")
  <2>1. SUFFICES ASSUME NEW d \in Client
                 PROVE /\ client'[d] \in ClientState
                       /\ client'[d].who = client[d].who /\ client'[d].files = client[d].files
                       /\ client'[d] = client[d]
                          \/ (client'[d].step = "idle" /\ client'[d].told = "nothing")
    BY <1>1
  <2> DEFINE k == [client[d] EXCEPT !.step = "idle", !.told = "nothing"]
  <2>2. client[d] \in ClientState
    BY <1>2
  <2>3. /\ k \in ClientState /\ k.who = client[d].who /\ k.files = client[d].files
        /\ k.step = "idle" /\ k.told = "nothing"
    BY <2>2 DEF ClientState
  <2>4. client'[d] = k \/ client'[d] = client[d]
    BY <1>1
  <2> HIDE DEF k
  <2>5. QED
    BY <2>2, <2>3, <2>4
<1>4. \A d \in Client : Asks(client'[d]) = Asks(client[d])
  BY <1>3 DEF Asks
<1>5. \A d \in Client : SoundClient(client[d])'
  <2>1. SUFFICES ASSUME NEW d \in Client PROVE SoundClient(client[d])'
    OBVIOUS
  <2>2. SoundClient(client[d]) /\ client'[d] \in ClientState
    BY <1>3 DEF IInv
  <2>3. CASE client'[d] = client[d]
    BY <1>1, <2>2, <2>3 DEF SoundClient
  <2>4. CASE client'[d].step = "idle" /\ client'[d].told = "nothing"
    BY <1>3, <1>4, <2>2, <2>4 DEF SoundClient
  <2>5. QED
    BY <1>3, <2>3, <2>4
<1>6. walk' \in [Worker -> Walk] /\ (\A u \in Worker : QuietWalk(u)') /\ WalkErrand'
  BY <1>1, <1>3, NoWalkSound
<1>7. TypeOK'
  <2>0. incidents \in 0..MaxIncidents
    BY DEF IInv, TypeOK
  <2>1. incidents' \in 0..MaxIncidents
    <3>1. incidents < MaxIncidents /\ incidents' = incidents + 1
      BY <1>1
    <3>2. QED
      BY <2>0, <3>1, BoundAssumption
  <2>2. /\ table' \in [Worker -> [Channel -> Table]]
        /\ urls' \in [Worker -> [Channel -> Urls]]
        /\ current' \in [Worker -> [Channel -> BOOLEAN]]
    BY <1>1, Names DEF IInv, TypeOK
  <2>3. QED
    BY <1>1, <1>3, <1>6, <2>1, <2>2 DEF IInv, TypeOK
<1>8. \A u \in Worker : \A g \in Channel : current'[u][g] => table'[u][g] = disk'[g]
  <2>1. \A u \in Worker : \A g \in Channel :
          current'[u][g] => /\ u # w
                            /\ table'[u] = table[u] /\ current'[u] = current[u]
    <3>1. SUFFICES ASSUME NEW u \in Worker, NEW g \in Channel
                   PROVE current'[u][g] => /\ u # w
                                           /\ table'[u] = table[u] /\ current'[u] = current[u]
      OBVIOUS
    <3>2. CASE u = w
      BY <1>1, <3>2 DEF IInv, TypeOK
    <3>3. CASE u # w
      BY <1>1, <3>3 DEF IInv, TypeOK
    <3>4. QED
      BY <3>2, <3>3
  <2>2. QED
    BY <1>1, <2>1 DEF IInv, QuietIsDisk
<1>9. DiskOfChannel' /\ QuietIsDisk'
  BY <1>1, <1>6, <1>8 DEF IInv, DiskOfChannel, QuietIsDisk
<1>10. UrlsOwn'
  BY <1>1 DEF IInv, TypeOK, UrlsOwn, Nothing
<1>11. QED
  BY <1>5, <1>6, <1>7, <1>9, <1>10 DEF IInv

-----------------------------------------------------------------------------
LEMMA CheckIInv == ASSUME IInv, NEW c \in Client, Check(c) PROVE IInv'
<1>1. CASE CheckRefused(c)
  BY <1>1, TellIInv DEF CheckRefused
<1>2. CASE CheckUnprepared(c)
  BY <1>2, TellIInv DEF CheckUnprepared
<1>3. CASE \E w \in Worker : CheckFromTable(c, w) \/ CheckLoads(c, w)
  BY <1>3, CheckFromTableIInv, CheckLoadsIInv
<1>4. QED
  BY <1>1, <1>2, <1>3 DEF Check

LEMMA NextIInv == ASSUME IInv, [Next]_vars PROVE IInv'
<1>1. CASE \E h \in Channel : Publish(h) \/ \E f \in File : Copy(h, f)
  BY <1>1, PublishIInv, CopyIInv
<1>2. CASE \E c \in Client : Check(c) \/ \E f \in File : Download(c, f)
  BY <1>2, CheckIInv, DownloadIInv
<1>3. CASE \E w \in Worker :
             \/ \E h \in Channel, via \in Address : Reload(w, via, h)
             \/ \E f \in File : WalkFile(w, f)
             \/ WalkEnds(w) \/ Restart(w)
  BY <1>3, ReloadIInv, WalkFileIInv, WalkEndsIInv, RestartIInv
<1>4. CASE UNCHANGED vars
  <2>1. UNCHANGED <<disk, release, table, urls, current, walk, client, incidents>>
    BY <1>4 DEF vars, diskVars, tableVars
  <2>2. QED
    BY <2>1 DEF IInv, TypeOK, DiskOfChannel, QuietIsDisk, QuietWalk, UrlsOwn, WalkErrand, SoundClient
<1>5. QED
  BY <1>1, <1>2, <1>3, <1>4 DEF Next

LEMMA AlwaysIInv == Spec => []IInv
<1>1. ASSUME IInv, [Next]_vars PROVE IInv'
  BY <1>1, NextIInv
<1>2. QED
  BY <1>1, InitIInv, PTL DEF Spec

\* Disks, tables, walks and clients stay in their types.
THEOREM UpdateTypeCorrect == Spec => []TypeOK
<1>1. IInv => TypeOK
  BY DEF IInv
<1>2. QED
  BY <1>1, AlwaysIInv, PTL

\* Whoever is told, from a table read while nothing was being copied, that there
\* is nothing to do has exactly the files of its channel.
THEOREM ToldFineHasAll == Spec => []FineIsComplete
<1>1. IInv => FineIsComplete
  BY AsksIsChannelOf DEF IInv, SoundClient, FineIsComplete
<1>2. QED
  BY <1>1, AlwaysIInv, PTL

\* No client installs a file that is not of a release of its channel.
THEOREM ChannelsStayApart == Spec => []OwnChannel
<1>1. ASSUME IInv PROVE OwnChannel
  <2>1. SUFFICES ASSUME NEW c \in Client, Served(c), NEW f \in File
                 PROVE \E files \in {Releases[ChannelOf(c)][n] : n \in DOMAIN Releases[ChannelOf(c)]}
                                      \cup Installs :
                         client[c].files[f] \in {files[f], Absent}
    BY DEF OwnChannel
  <2>2. ChannelOf(c) \in Channel /\ Own(ChannelOf(c), f, client[c].files[f])
    BY <1>1, <2>1, AsksIsChannelOf DEF Served, IInv, SoundClient
  <2>3. 1 \in DOMAIN Releases[ChannelOf(c)]
    BY <2>2, FirstRelease, ReleaseType
  <2>4. QED
    BY <2>2, <2>3 DEF Own
<1>2. QED
  BY <1>1, AlwaysIInv, PTL
=============================================================================
