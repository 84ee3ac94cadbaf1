----------------------------- MODULE UpdateCheck -----------------------------
(***************************************************************************)
(* The update check of the desktop clients (service/updatecheck).  Every    *)
(* gunicorn worker keeps, for every channel, a table of the files on disk    *)
(* with their md5.  It fills a table when a check finds it empty, and again  *)
(* when an operator's version/reload happens to reach it; otherwise it is    *)
(* kept until the worker ends.  A client sends the md5 of its files, learns   *)
(* which to add, remove and replace, and downloads them: from the disk, not   *)
(* from the table.                                                         *)
(*                                                                         *)
(* One platform of mac, pc32 and pc64, which differ in their directories     *)
(* only; linux and unknown ones are profiles that get no table.  An md5 is   *)
(* the content it stands for, a name is lower case (check_diff lists a       *)
(* changed file twice if its name is not).  download_file finds the file in   *)
(* the channel's directory but sends the one below static/<platform>, taken   *)
(* here to be a link to that directory, as no download succeeds otherwise.   *)
(***************************************************************************)
EXTENDS Integers, Sequences, FiniteSets

CONSTANTS
  Worker,      \* processes of gunicorn -w6
  Client,      \* installed clients
  File,        \* names of files
  Updater,     \* updater_name: updater or updater.exe
  Content,     \* what a file may hold
  Absent,      \* no such file
  Unreadable,  \* md5_file: "file can not be open."
  Releases,    \* Releases[h]: the releases of channel h, first to last
  Profiles,    \* what clients may say of themselves, see ProfileType
  Installs,    \* what they may have installed
  MaxIncidents \* bound: reloads and restarts of workers

Channel == {"product", "beta"}
Present == Content \cup {Unreadable}
\* The urls of a table begin like the url of the request that filled it: only
\* those made from the clients' own address lead to files.  From another host, or
\* with a query string, which request.url includes, they lead nowhere.
Address == {"public", "other"}
\* user: whether one of its users is in the black or the white list.
\* channel: "none" if not given, "other" if neither 1 nor 2.
\* lists: whether it says what files it has.
\* via: the address it asks.
ProfileType ==
  [user : {"black", "white", "plain"}, channel : Channel \cup {"none", "other"},
   platform : {"served", "linux", "unknown"}, lists : BOOLEAN, via : Address]

ASSUME ClientAssumption == Client \cap {"none", "reload"} = {}
ASSUME ContentAssumption == Absent \notin Content /\ Unreadable \notin Content \cup {Absent}
ASSUME FileAssumption == Updater \in File /\ IsFiniteSet(File)
ASSUME ReleaseAssumption ==
  Releases \in [Channel -> Seq([File -> Content \cup {Absent}]) \ {<<>>}]
ASSUME ProfileAssumption ==
  Profiles \subseteq ProfileType /\ Installs \subseteq [File -> Content \cup {Absent}]
ASSUME BoundAssumption == MaxIncidents \in Nat

VARIABLES
  disk,      \* disk[h]: the directory of channel h
  release,   \* release[h]: the release being or last copied into it
  table,     \* table[w][h]: the global dictionary of worker w
  urls,      \* urls[w][h]: what the urls of that table begin with
  current,   \* current[w][h]: it was read from a settled disk, settled since
  walk,      \* walk[w]: the directory walk under way
  client,    \* client[c]: its files and where it is
  incidents  \* reloads and restarts so far

diskVars == <<disk, release>>
tableVars == <<table, urls, current>>
vars == <<diskVars, tableVars, walk, client, incidents>>

Nothing == [f \in File |-> Absent]
Files(files) == {f \in File : files[f] # Absent}
Goal(h) == Releases[h][release[h]]
Settled(h) == disk[h] = Goal(h)

NoUrls == [root |-> "product", via |-> "public"]
NoWalk ==
  [for |-> "none", channel |-> "product", via |-> "public", todo |-> {}, found |-> Nothing,
   quiet |-> FALSE]

Init ==
  /\ disk = [h \in Channel |-> Releases[h][1]]
  /\ release = [h \in Channel |-> 1]
  /\ table = [w \in Worker |-> [h \in Channel |-> Nothing]]
  /\ urls = [w \in Worker |-> [h \in Channel |-> NoUrls]]
  /\ current = [w \in Worker |-> [h \in Channel |-> FALSE]]
  /\ walk = [w \in Worker |-> NoWalk]
  /\ client \in [Client -> [who : Profiles, step : {"idle"}, files : Installs, todo : {{}},
                            urls : {NoUrls}, told : {"nothing"}, sure : {FALSE}]]
  /\ incidents = 0

-----------------------------------------------------------------------------
(* The operator copies a release over the one before, file by file         *)

\* What was known of the directory of channel h is out of date.
Disturb(h) ==
  /\ current' = [w \in Worker |-> [current[w] EXCEPT ![h] = FALSE]]
  /\ walk' = [w \in Worker |-> [walk[w] EXCEPT !.quiet = @ /\ walk[w].channel # h]]
  /\ client' = [c \in Client |-> [client[c] EXCEPT !.sure = FALSE]]

Publish(h) ==
  /\ Settled(h)
  /\ release[h] < Len(Releases[h])
  /\ release' = [release EXCEPT ![h] = @ + 1]
  /\ Disturb(h)
  /\ UNCHANGED <<disk, table, urls, incidents>>

Copy(h, f) ==
  /\ disk[h][f] # Goal(h)[f]
  /\ disk' = [disk EXCEPT ![h][f] = Goal(h)[f]]
  /\ Disturb(h)
  /\ UNCHANGED <<release, table, urls, incidents>>

-----------------------------------------------------------------------------
(* Which table a check is answered from                                    *)

\* check_user_in_blacklist: a client that says it has no files is never refused
\* for its user.
Blacklisted(c) ==
  client[c].who.user = "black" /\ (client[c].who.lists => Files(client[c].files) # {})

\* check_user_can_update_new and what check_version makes of it: without a
\* channel, of checks that list files only those of one file are answered.
ChannelMissing(c) ==
  /\ client[c].who.channel \notin Channel
  /\ client[c].who.lists /\ Cardinality(Files(client[c].files)) # 1

\* check_version: "refused", "unprepared", or the channel of the table.
Refused(c) == Blacklisted(c) \/ ChannelMissing(c) \/ client[c].who.platform = "unknown"

ChannelOf(c) ==
  IF client[c].who.user = "white" THEN "beta"
  ELSE IF client[c].who.channel = "none" THEN "product" ELSE client[c].who.channel

Served(c) == ~Refused(c) /\ client[c].who.platform = "served" /\ ChannelOf(c) \in Channel

\* inner_reload_version: the directory of a channel, and the root of its urls.
WorkerDir(channel) == IF channel = "product" THEN "product" ELSE "beta"
\* Mutated forms: one root for both channels, and the root above them.
OneRoot(channel) == "product"
RootOfPlatform(channel) == "platform"
DownloadRoot(channel) == IF channel = "beta" THEN "beta" ELSE "product"

\* The root of a walk's request, and of its channel in it.
UrlsOf(walked) == [root |-> DownloadRoot(walked.channel), via |-> walked.via]

\* download_file and catch_all: the directory a url is served from.
ServedFrom(root) == IF root = "beta" THEN "beta" ELSE "product"

\* Mutated form: a file that is there no more is left alone.
CheckDiffKeeping(local, remote, scope) ==
  [changed |-> {f \in scope \cap Files(local) \cap Files(remote) : local[f] # remote[f]},
   added |-> (scope \cap Files(local)) \ Files(remote),
   removed |-> {}]

CheckDiff(local, remote, scope) ==
  [changed |-> {f \in scope \cap Files(local) \cap Files(remote) : local[f] # remote[f]},
   added |-> (scope \cap Files(local)) \ Files(remote),
   removed |-> (scope \cap Files(remote)) \ Files(local)]

\* inner_check_version: a client that names exactly one file asks about its
\* updater, whatever file it names.
Scope(files) == IF Cardinality(Files(files)) = 1 THEN {Updater} ELSE File

\* The client as the answer leaves it: what is gone is deleted, what is new
\* will be downloaded from the urls of the table.  Without files there is nothing
\* to compare.  `known` says whether the table is current.
Answered(c, local, from, known) ==
  LET files == client[c].files
      diff == CheckDiff(local, files, Scope(files))
      wanted == diff.changed \cup diff.added
  IN IF local = Nothing
     THEN [client[c] EXCEPT !.step = "idle", !.told = "unprepared", !.sure = FALSE]
     ELSE IF ~client[c].who.lists
     THEN [client[c] EXCEPT !.step = "idle", !.told = "ok", !.sure = FALSE]
     ELSE [client[c] EXCEPT
            !.step = IF wanted = {} THEN "idle" ELSE "apply",
            !.files = [f \in File |-> IF f \in diff.removed THEN Absent ELSE files[f]],
            !.todo = wanted,
            !.urls = from,
            !.told = IF wanted \cup diff.removed = {} THEN "fine" ELSE "update",
            !.sure = known /\ Scope(files) = File]

-----------------------------------------------------------------------------
(* Workers                                                                 *)

Idle(w) == walk[w] = NoWalk
Incident == incidents < MaxIncidents /\ incidents' = incidents + 1

\* The md5 of a file is taken when the walk comes to it.
StartWalk(w, for, via, h) ==
  walk' = [walk EXCEPT ![w] =
    [for |-> for, channel |-> h, via |-> via, todo |-> Files(disk[WorkerDir(h)]), found |-> Nothing,
     quiet |-> Settled(h)]]

Tell(c, what) == client' = [client EXCEPT ![c] = [@ EXCEPT !.told = what, !.sure = FALSE]]

\* A check that is answered without a table.
CheckRefused(c) ==
  /\ client[c].step = "idle"
  /\ Refused(c)
  /\ Tell(c, "refused")
  /\ UNCHANGED <<diskVars, tableVars, walk, incidents>>

\* linux, or a channel that is neither 1 nor 2: an empty table each time.
CheckUnprepared(c) ==
  /\ client[c].step = "idle"
  /\ ~Refused(c) /\ ~Served(c)
  /\ Tell(c, "unprepared")
  /\ UNCHANGED <<diskVars, tableVars, walk, incidents>>

CheckFromTable(c, w) ==
  /\ client[c].step = "idle" /\ Served(c)
  /\ Idle(w)
  /\ LET h == ChannelOf(c)
     IN /\ table[w][h] # Nothing
        /\ client' = [client EXCEPT ![c] = Answered(c, table[w][h], urls[w][h], current[w][h])]
  /\ UNCHANGED <<diskVars, tableVars, walk, incidents>>

CheckLoads(c, w) ==
  /\ client[c].step = "idle" /\ Served(c)
  /\ Idle(w)
  /\ table[w][ChannelOf(c)] = Nothing
  /\ StartWalk(w, c, client[c].who.via, ChannelOf(c))
  /\ client' = [client EXCEPT ![c].step = "waiting", ![c].sure = FALSE]
  /\ UNCHANGED <<diskVars, tableVars, incidents>>

\* version/reload: one of the workers reads one of the directories again, asked
\* by somebody under one of its addresses.
Reload(w, via, h) ==
  /\ Incident
  /\ Idle(w)
  /\ StartWalk(w, "reload", via, h)
  /\ UNCHANGED <<diskVars, tableVars, client>>

WalkFile(w, f) ==
  /\ f \in walk[w].todo
  /\ LET here == disk[WorkerDir(walk[w].channel)][f]
     IN walk' = [walk EXCEPT ![w].todo = @ \ {f},
                             ![w].found[f] = IF here = Absent THEN Unreadable ELSE here]
  /\ UNCHANGED <<diskVars, tableVars, client, incidents>>

WalkEnds(w) ==
  /\ ~Idle(w)
  /\ walk[w].todo = {}
  /\ LET h == walk[w].channel
         asker == walk[w].for
     IN /\ table' = [table EXCEPT ![w][h] = walk[w].found]
        /\ urls' = [urls EXCEPT ![w][h] = UrlsOf(walk[w])]
        /\ current' = [current EXCEPT ![w][h] = walk[w].quiet]
        /\ client' = IF asker \in Client
                     THEN [client EXCEPT ![asker] =
                             Answered(asker, walk[w].found, UrlsOf(walk[w]), walk[w].quiet)]
                     ELSE client
  /\ walk' = [walk EXCEPT ![w] = NoWalk]
  /\ UNCHANGED <<diskVars, incidents>>

\* A worker dies, with its tables; the client it kept waiting gets no answer.
Restart(w) ==
  /\ Incident
  /\ table' = [table EXCEPT ![w] = [h \in Channel |-> Nothing]]
  /\ urls' = [urls EXCEPT ![w] = [h \in Channel |-> NoUrls]]
  /\ current' = [current EXCEPT ![w] = [h \in Channel |-> FALSE]]
  /\ walk' = [walk EXCEPT ![w] = NoWalk]
  /\ client' = [c \in Client |->
       IF walk[w].for = c THEN [client[c] EXCEPT !.step = "idle", !.told = "nothing"] ELSE client[c]]
  /\ UNCHANGED diskVars

\* The client downloads one file; if it is gone from the disk (405), or its url
\* leads nowhere, it keeps what it has.
Download(c, f) ==
  /\ client[c].step = "apply"
  /\ f \in client[c].todo
  /\ LET from == client[c].urls
         here == IF from.via = "public" THEN disk[ServedFrom(from.root)][f] ELSE Absent
         rest == client[c].todo \ {f}
     IN client' = [client EXCEPT
          ![c].todo = rest,
          ![c].step = IF rest = {} THEN "idle" ELSE "apply",
          ![c].files[f] = IF here = Absent THEN @ ELSE here]
  /\ UNCHANGED <<diskVars, tableVars, walk, incidents>>

-----------------------------------------------------------------------------
Check(c) ==
  \/ CheckRefused(c)
  \/ CheckUnprepared(c)
  \/ \E w \in Worker : CheckFromTable(c, w) \/ CheckLoads(c, w)

Next ==
  \/ \E h \in Channel : Publish(h) \/ \E f \in File : Copy(h, f)
  \/ \E c \in Client : Check(c) \/ \E f \in File : Download(c, f)
  \/ \E w \in Worker :
       \/ \E h \in Channel, via \in Address : Reload(w, via, h)
       \/ \E f \in File : WalkFile(w, f)
       \/ WalkEnds(w) \/ Restart(w)

\* Workers finish what they began; clients go on checking and download what
\* they were told to.  Nobody has to publish, reload or restart.
Fairness ==
  /\ \A w \in Worker : WF_vars((\E f \in File : WalkFile(w, f)) \/ WalkEnds(w))
  /\ \A c \in Client : WF_vars(\E f \in File : Download(c, f)) /\ WF_vars(Check(c))

Spec == Init /\ [][Next]_vars
FairSpec == Spec /\ Fairness

-----------------------------------------------------------------------------
Directory == [File -> Content \cup {Absent}]
Table == [File -> Present \cup {Absent}]

Urls == [root : Channel, via : Address]
Walk ==
  [for : Client \cup {"none", "reload"}, channel : Channel, via : Address, todo : SUBSET File,
   found : Table, quiet : BOOLEAN]
ClientState ==
  [who : Profiles, step : {"idle", "waiting", "apply"}, files : Directory, todo : SUBSET File,
   urls : Urls, told : {"nothing", "refused", "unprepared", "ok", "fine", "update"}, sure : BOOLEAN]

TypeOK ==
  /\ disk \in [Channel -> Directory]
  /\ release \in [Channel -> Nat]
  /\ \A h \in Channel : release[h] \in 1..Len(Releases[h])
  /\ table \in [Worker -> [Channel -> Table]]
  /\ urls \in [Worker -> [Channel -> Urls]]
  /\ current \in [Worker -> [Channel -> BOOLEAN]]
  /\ walk \in [Worker -> Walk]
  /\ client \in [Client -> ClientState]
  /\ incidents \in 0..MaxIncidents

\* A client that was told that there is nothing to do, from a table read while
\* no release was being copied, has exactly the files of its channel until the
\* next one is: no file of the table before, and none of its own, is left over.
FineIsComplete ==
  \A c \in Client :
    client[c].told = "fine" /\ client[c].sure => client[c].files = disk[ChannelOf(c)]

\* A client never installs a file of the other channel, although the urls of a
\* table, the directory it was read from and the directory of a download are
\* chosen in three places.
OwnChannel ==
  \A c \in Client : Served(c) =>
    LET own == {Releases[ChannelOf(c)][n] : n \in DOMAIN Releases[ChannelOf(c)]}
    IN \A f \in File : \E files \in own \cup Installs : client[c].files[f] \in {files[f], Absent}

\* Once all workers hold current tables for good, with urls that clients can
\* follow, a client that goes on checking ends up with the files of its channel
\* and stays there, whatever mixture of releases and whatever dead urls it was
\* told of before, unless it names a single file or none.
UpToDateWorkers(c) ==
  /\ Served(c) /\ client[c].who.lists /\ Scope(client[c].files) = File
  /\ \A w \in Worker : current[w][ChannelOf(c)] /\ urls[w][ChannelOf(c)].via = "public"
UpToDate(c) == Served(c) => client[c].files = disk[ChannelOf(c)]
ClientsConverge == \A c \in Client : <>[]UpToDateWorkers(c) => <>[]UpToDate(c)
=============================================================================
