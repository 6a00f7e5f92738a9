------------------------------ MODULE Uploads ------------------------------
(***************************************************************************)
(* Adding torrents: TorrentAddHttpHandler (internal/trigger/http.go), Add  *)
(* and Download (internal/service/torrent.go), and the temporary files     *)
(* they share (internal/domain/torrent.go, internal/data/torrent.go).      *)
(*                                                                         *)
(* Transmission takes links only.  An uploaded file is put into a cache    *)
(* under a fresh name, and Transmission is sent a link back to the proxy:  *)
(* it downloads the file from there while the handler that sent the link   *)
(* waits for its answer.  The cache admits an entry some time after Set    *)
(* has returned, and drops it ten minutes later.  When the server's        *)
(* timeout is over (half a minute in the template), the context of the     *)
(* request ends, whatever Transmission still does with the call.           *)
(*                                                                         *)
(* What UpTracker does with the torrents that were added is Trackers'.     *)
(***************************************************************************)
EXTENDS Naturals, Sequences, FiniteSets, Functions

CONSTANTS
    Handler,        \* handlers of Add at work at a time
    Torrent,        \* torrents, as links or as the contents of files
    Blank,          \* an empty file
    Name,           \* names of temporary files, uuids
    Requests,       \* what clients send: links, broken links and files
    TagSets,        \* the tags that go with them
    Own,            \* add_torrent_label: a singleton, or empty if not set
    MaxLate         \* bound: abandoned calls Transmission works on at a time

ASSUME UploadsAssumption ==
    /\ Blank \notin Torrent
    /\ Name \cap Torrent = {}
    /\ MaxLate \in Nat
    /\ Requests \subseteq [urls : Seq(Torrent), broken : SUBSET Torrent,
                            files : Seq(Torrent \cup {Blank})]

\* A form: the links, the torrents whose links url.Parse refuses, the files.
Sent(links0, broken0, files0) ==
    [urls |-> links0, broken |-> broken0, files |-> files0]

\* Broken links are skipped, and files are looked at only if no other link is
\* there; nobody is told.
GoesBy(r) == IF r.urls # <<>> THEN r.urls ELSE r.files
Torrents(r) == (Range(r.urls) \cup r.broken \cup Range(r.files)) \ {Blank}
PassesOver(r) == Torrents(r) \ Range(GoesBy(r))

Label == (UNION TagSets) \cup Own

VARIABLES
    at,         \* where each handler is
    left,       \* the uploaded files it has yet to put into the cache
    links,      \* the links it has yet to send to Transmission
    tags,       \* the tags of its request
    reply,      \* Transmission's answer to the TorrentAdd it waits for
    given,      \* history: the torrents of its request, the whole form's
    passed,     \* history: those of given it has passed over
    stored,     \* files handed to the cache, by name
    admitted,   \* names the cache finds
    late,       \* calls Transmission still works on, abandoned by the proxy
    tr,         \* the torrents Transmission holds
    labels,     \* their labels
    byHand,     \* history: those of tr that did not come through the proxy
    seen        \* history: those of given that tr has held since the request

handlerVars == <<at, left, links, tags, reply, given, passed>>
fileVars == <<stored, admitted>>
trVars == <<tr, labels, byHand, seen>>
vars == <<handlerVars, fileVars, late, trVars>>

Init ==
    /\ at = [h \in Handler |-> "idle"]
    /\ left = [h \in Handler |-> <<>>] /\ links = [h \in Handler |-> <<>>]
    /\ tags = [h \in Handler |-> {}]
    /\ reply = [h \in Handler |-> "none"]
    /\ given = [h \in Handler |-> {}] /\ passed = [h \in Handler |-> {}]
    /\ stored = [n \in {} |-> Blank] /\ admitted = {}
    /\ late = {}
    /\ tr \in SUBSET Torrent
    /\ labels = [t \in Torrent |-> {}]
    /\ byHand = tr
    /\ seen = [h \in Handler |-> {}]

Step(h, from, to) == at[h] = from /\ at' = [at EXCEPT ![h] = to]

-----------------------------------------------------------------------------
(* The cache of temporary files.                                           *)

\* Names some handler or some abandoned call refers to.
InUse == (UNION {Range(links[h]) : h \in Handler}) \cup {c.link : c \in late}

\* Faulty variant: the handler's files have one name.
FreshNamePerRequest(h) ==
    IF links[h] # <<>> THEN Head(links[h]) ELSE CHOOSE n \in Name : n \notin InUse

\* uuid.New: any name nobody uses is as good as another.
FreshName(h) == CHOOSE n \in Name : n \notin InUse

\* A file nobody will ask for may as well be gone.
DropUnused ==
    /\ stored' = Restrict(stored, DOMAIN stored \cap InUse')
    /\ admitted' = admitted \cap InUse'

\* ristretto's goroutine takes the entry from its buffer.
Admit(n) ==
    /\ n \in DOMAIN stored \ admitted
    /\ admitted' = admitted \cup {n}
    /\ UNCHANGED <<handlerVars, stored, late, trVars>>

\* Faulty variant: the file goes, and its name is still found.
ExpireKeepsName(n) ==
    /\ n \in DOMAIN stored
    /\ \A h \in Handler : n \notin Range(links[h])
    /\ stored' = Restrict(stored, DOMAIN stored \ {n})
    /\ UNCHANGED <<handlerVars, admitted, late, trVars>>

\* Ten minutes have passed, and so has any request's half minute.
Expire(n) ==
    /\ n \in DOMAIN stored
    /\ \A h \in Handler : n \notin Range(links[h])
    /\ stored' = Restrict(stored, DOMAIN stored \ {n})
    /\ admitted' = admitted \ {n}
    /\ UNCHANGED <<handlerVars, late, trVars>>

-----------------------------------------------------------------------------
(* The handler.                                                            *)

Ask(h) ==
    /\ \E r \in Requests, g \in TagSets :
           LET byLink == r.urls # <<>> IN
           /\ Step(h, "idle", IF byLink THEN "add" ELSE "upload")
           /\ left' = [left EXCEPT ![h] = IF byLink THEN <<>> ELSE r.files]
           /\ links' = [links EXCEPT ![h] = r.urls]
           /\ given' = [given EXCEPT ![h] = Torrents(r)]
           /\ passed' = [passed EXCEPT ![h] = PassesOver(r)]
           /\ tags' = [tags EXCEPT ![h] = g]
    /\ seen' = [seen EXCEPT ![h] = given'[h] \cap tr]
    /\ UNCHANGED <<reply, fileVars, late, tr, labels, byHand>>

\* CacheTmpTorrentFile stores a file under a new name; the link to it joins
\* the others.
Upload(h) ==
    /\ left[h] # <<>> /\ Head(left[h]) # Blank /\ Step(h, "upload", "upload")
    /\ Name \ InUse # {}
    /\ LET n == FreshName(h) IN
           /\ stored' = [m \in DOMAIN stored \cup {n} |->
                            IF m = n THEN Head(left[h]) ELSE stored[m]]
           /\ admitted' = admitted \ {n}
           /\ links' = [links EXCEPT ![h] = Append(@, n)]
    /\ left' = [left EXCEPT ![h] = Tail(@)]
    /\ UNCHANGED <<tags, reply, given, passed, late, trVars>>

\* The request ends, and with it what the handler knew.
Finish(h) ==
    /\ at' = [at EXCEPT ![h] = "idle"]
    /\ left' = [left EXCEPT ![h] = <<>>] /\ links' = [links EXCEPT ![h] = <<>>]
    /\ tags' = [tags EXCEPT ![h] = {}]
    /\ reply' = [reply EXCEPT ![h] = "none"]
    /\ given' = [given EXCEPT ![h] = {}] /\ passed' = [passed EXCEPT ![h] = {}]
    /\ seen' = [seen EXCEPT ![h] = {}]
    /\ UNCHANGED <<tr, labels, byHand>>
    /\ DropUnused

\* An empty file is an error, and so is an entry the cache refuses: nothing of
\* the request is added.  A form without a link that can have no files either,
\* not being a multipart one, makes Add panic.
UploadFails(h) ==
    /\ at[h] = "upload" /\ (left[h] # <<>> \/ links[h] = <<>>)
    /\ late' = late /\ Finish(h)

Uploaded(h) ==
    /\ left[h] = <<>> /\ Step(h, "upload", "add")
    /\ UNCHANGED <<left, links, tags, reply, given, passed, fileVars, late, trVars>>

\* Faulty variant: the configured label replaces the tags.
LabelsOwnOnly(g) == IF Own = {} THEN g ELSE Own

\* The HTTP handler passes no category on.
Labels(g) == g \cup Own

Call(h) == [link |-> Head(links[h]), labels |-> Labels(tags[h])]

\* TorrentAdd of the next link.
SendAdd(h) ==
    /\ links[h] # <<>> /\ Step(h, "add", "wait")
    /\ UNCHANGED <<left, links, tags, reply, given, passed, fileVars, late, trVars>>

Next1(h) == [links EXCEPT ![h] = Tail(@)]

AddTaken(h) ==
    /\ reply[h] = "added" /\ Step(h, "wait", "add")
    /\ links' = Next1(h) /\ late' = late
    /\ reply' = [reply EXCEPT ![h] = "none"]
    /\ DropUnused
    /\ UNCHANGED <<left, tags, given, passed, trVars>>

\* Faulty variant: the error is logged and the next link is sent.
AddFailsOn(h) ==
    /\ reply[h] = "refused" /\ Step(h, "wait", "add")
    /\ links' = Next1(h) /\ late' = late
    /\ reply' = [reply EXCEPT ![h] = "none"]
    /\ DropUnused
    /\ UNCHANGED <<left, tags, given, passed, trVars>>

\* TorrentAdd returned an error: AddTorrent dereferences the nil ID and the
\* request ends there, with the torrents before it added.
AddFails(h) ==
    /\ \/ at[h] = "wait" /\ reply[h] = "refused"
       \/ at[h] = "add" /\ links[h] # <<>>
    /\ late' = late /\ Finish(h)

\* The context ends while Transmission is at work, which it may not notice.
TimeOut(h) ==
    /\ at[h] = "wait"
    /\ \/ late' = late
       \/ /\ reply[h] = "none" /\ Cardinality(late) < MaxLate
          /\ late' = late \cup {Call(h)}
    /\ Finish(h)

Answer(h) ==
    /\ at[h] = "add" /\ links[h] = <<>>
    /\ late' = late /\ Finish(h)

-----------------------------------------------------------------------------
(* Transmission.                                                           *)

\* Faulty variant: the link to a file leads elsewhere.
FoundLinksOnly(l) == l \in Torrent

\* GetTmpTorrentFile finds the file of a link to the proxy.
Found(l) == l \in Torrent \cup admitted
Content(l) == IF l \in Torrent THEN l ELSE stored[l]

\* Transmission holds t from now on.
Holds(t) ==
    /\ tr' = tr \cup {t}
    /\ seen' = [h \in Handler |-> seen[h] \cup ({t} \cap given[h])]

\* A torrent it holds already keeps its labels.
Takes(c) ==
    LET t == Content(c.link) IN
    /\ Holds(t)
    /\ labels' = IF t \in tr THEN labels ELSE [labels EXCEPT ![t] = c.labels]
    /\ byHand' = byHand

\* Faulty variant: one lock for Add and Download.
ServesAlone(h) ==
    /\ at[h] = "wait" /\ reply[h] = "none"
    /\ \A g \in Handler : at[g] \in {"idle", "upload"}
    /\ Found(Head(links[h])) /\ Takes(Call(h))
    /\ reply' = [reply EXCEPT ![h] = "added"]
    /\ UNCHANGED <<at, left, links, tags, given, passed, fileVars, late>>

\* Transmission gets what is behind the link, for a file from Download.
Serves(h) ==
    /\ at[h] = "wait" /\ reply[h] = "none"
    /\ \/ /\ Found(Head(links[h])) /\ Takes(Call(h))
          /\ reply' = [reply EXCEPT ![h] = "added"]
       \/ /\ reply' = [reply EXCEPT ![h] = "refused"]
          /\ UNCHANGED trVars
    /\ UNCHANGED <<at, left, links, tags, given, passed, fileVars, late>>

\* An abandoned call comes to its end.
ServesLate(c) ==
    /\ c \in late
    /\ (Found(c.link) /\ Takes(c)) \/ UNCHANGED trVars
    /\ late' = late \ {c}
    /\ UNCHANGED handlerVars /\ DropUnused

AddedByHand(t) ==
    /\ t \notin tr /\ Holds(t)
    /\ byHand' = byHand \cup {t}
    /\ labels' = [labels EXCEPT ![t] = {}]
    /\ UNCHANGED <<handlerVars, fileVars, late>>

Removed(t) ==
    /\ t \in tr /\ tr' = tr \ {t} /\ byHand' = byHand \ {t}
    /\ labels' = [labels EXCEPT ![t] = {}]
    /\ UNCHANGED <<seen, handlerVars, fileVars, late>>

-----------------------------------------------------------------------------
Add(h) ==
    \/ Upload(h) \/ UploadFails(h) \/ Uploaded(h)
    \/ SendAdd(h) \/ AddTaken(h) \/ AddFails(h) \/ Answer(h)

Next ==
    \/ \E h \in Handler : Ask(h) \/ Add(h) \/ TimeOut(h) \/ Serves(h)
    \/ \E n \in Name : Admit(n) \/ Expire(n)
    \/ \E c \in late : ServesLate(c)
    \/ \E t \in Torrent : AddedByHand(t) \/ Removed(t)

Spec == Init /\ [][Next]_vars

\* Goroutines keep running, and Transmission answers; the timeout need not
\* come to anyone's help.
Progress == \A h \in Handler : WF_vars(Add(h)) /\ WF_vars(Serves(h))

\* For a file sent on its own: Transmission, the cache and the half minute do
\* not get in the way every time.
SentAlone == {t \in Torrent : Sent(<<>>, {}, <<t>>) \in Requests}
Alone(h, t) ==
    /\ left[h] = <<>> /\ given[h] \ passed[h] = {t} /\ links[h] # <<>>
    /\ links[h][1] \in {n \in DOMAIN stored : stored[n] = t}
UploadOf(h, t) == left[h] = <<t>> /\ links[h] = <<>> /\ Upload(h)
AdmitFor(h, t) == at[h] \in {"upload", "add"} /\ Alone(h, t) /\ Admit(links[h][1])
SendOf(h, t) == Alone(h, t) /\ links[h][1] \in admitted /\ SendAdd(h)
ServesOf(h, t) == Alone(h, t) /\ Serves(h) /\ reply'[h] = "added"
Luck ==
    \A t \in SentAlone :
        /\ SF_vars(\E h \in Handler : UploadOf(h, t))
        /\ SF_vars(\E h \in Handler : AdmitFor(h, t))
        /\ SF_vars(\E h \in Handler : SendOf(h, t))
        /\ SF_vars(\E h \in Handler : ServesOf(h, t))

FairSpec == Spec /\ Progress /\ Luck

-----------------------------------------------------------------------------
(* Properties.                                                             *)

\* Every variable has its type.
TypeOK ==
    /\ at \in [Handler -> {"idle", "upload", "add", "wait"}]
    /\ left \in [Handler -> Seq(Torrent \cup {Blank})]
    /\ links \in [Handler -> Seq(Torrent \cup Name)]
    /\ tags \in [Handler -> TagSets \cup {{}}]
    /\ reply \in [Handler -> {"none", "added", "refused"}]
    /\ {given, passed} \subseteq [Handler -> SUBSET Torrent]
    /\ DOMAIN stored \subseteq Name /\ stored \in [DOMAIN stored -> Torrent]
    /\ admitted \subseteq DOMAIN stored
    /\ late \subseteq [link : Torrent \cup Name, labels : SUBSET Label]
    /\ tr \subseteq Torrent /\ byHand \subseteq tr
    /\ seen \in [Handler -> SUBSET Torrent]
    /\ labels \in [Torrent -> SUBSET Label]

\* A request that is about to be answered without an error: Transmission got
\* every torrent of the form, the right file under each link, but for those the
\* handler passes over without a word: broken links, and files beside links.
OkMeansIn ==
    \A h \in Handler :
        at[h] = "add" /\ links[h] = <<>> => given[h] \subseteq seen[h] \cup passed[h]

\* A torrent that came through the proxy has the labels of one request, with
\* the configured one, whichever calls were repeated, late or superfluous.
LabelsKept ==
    \A t \in tr \ byHand : \E g \in TagSets : labels[t] = g \cup Own

\* Every request is answered: Transmission's download is served while the
\* handler waits for Transmission.
AddAnswered == \A h \in Handler : at[h] # "idle" ~> at[h] = "idle"

\* A file that is uploaded again and again gets in, although any attempt may
\* time out, fail, or be looked up before the cache has it.
Asked(t) ==
    \E h \in Handler : at[h] = "upload" /\ left[h] = <<t>> /\ links[h] = <<>>
UploadArrives == \A t \in SentAlone : []<>Asked(t) => []<>(t \in tr)
=============================================================================
