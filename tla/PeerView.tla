------------------------------ MODULE PeerView ------------------------------
(***************************************************************************)
(* The answer to "which peers has this torrent": TorrentUsecase.GetPeers   *)
(* and SyncService.GetTorrentPeers.  The handler reads four things that    *)
(* other goroutines change under it, without a lock:                       *)
(*   - the torrent table and the peer cache, which a refresh changes       *)
(*     (PeerRefresh: what a refresh does to one torrent's peers, which     *)
(*     ClientData, the whole refresh, is shown to implement);              *)
(*   - the cached Peer itself, which the refresh updates IN PLACE while    *)
(*     answers hold a pointer to it;                                       *)
(*   - the record of banned addresses, which ban requests extend           *)
(*     (BanRequests: what they do to it; BanList, the whole ban path, is   *)
(*     shown to implement it).                                             *)
(* An address banned less than skipIPsDuration ago is left out, and so is  *)
(* a banned address without traffic: Transmission needs time to notice     *)
(* that the kernel drops a peer, and the ban tool would ban it again.      *)
(***************************************************************************)
EXTENDS PeerRefresh, BanRequests

CONSTANTS
    IPOf,           \* PeerKey.IP
    KeyOf,          \* genAddr: IP and port in one string, the key in an answer
    Skip,           \* skipIPsDuration
    MaxNow,         \* bound: the clock stops here
    Client          \* handlers of GetTorrentPeers at work at a time

ASSUME PeerViewAssumption ==
    /\ IPOf \in [Addr -> IP]
    /\ Skip \in Nat /\ MaxNow \in Nat

\* There is nothing between the IP and the port: 10.0.0.1 and 51413 make the
\* same key as 10.0.0.15 and 1413.  Peers with one IP have different keys.
ASSUME KeyAssumption ==
    \A k, l \in Addr : k # l /\ KeyOf[k] = KeyOf[l] => IPOf[k] # IPOf[l]

Time == 0 .. MaxNow
Still == [d \in Directions |-> 0]    \* the rates of a peer without traffic

VARIABLES
    now,        \* the clock
    silent,     \* peers Transmission knows to be without traffic for good
    banTime,    \* the ban times on record, the values of banlistIPV4
    taken,      \* the ban time each ban handler has taken and not yet stored
    acked,      \* history: addresses some client was told are banned
    ask,        \* where each handler is: "idle", "lookup", "pick" or "shape"
    snap,       \* torrent.Peers, as it found it
    asked,      \* nowTime
    todo,       \* the peers it has yet to look at
    status,     \* the ban times it found
    picked,     \* the Peers it holds a pointer to
    orphan,     \* counters of those the cache has dropped since
    answer,     \* counters in its response
    known,      \* history: the ban times there were when it started
    floor       \* history: counters then, of the peers cached ever since

recordVars == <<banVars, banTime, taken, acked>>
askVars == <<ask, snap, asked, todo, status, picked, answer, known>>
oldVars == <<orphan, floor>>
viewVars == <<now, silent, recordVars, askVars, oldVars>>
vars == <<viewVars, refreshVars, cache>>

Init ==
    /\ now = 0
    /\ silent = {}
    /\ BanInit
    /\ banTime = None /\ taken = [b \in Banner |-> 0] /\ acked = {}
    /\ RefreshInit
    /\ ask = [c \in Client |-> "idle"]
    /\ snap = [c \in Client |-> {}] /\ todo = [c \in Client |-> {}]
    /\ asked = [c \in Client |-> 0]
    /\ status = [c \in Client |-> None]
    /\ picked = [c \in Client |-> {}] /\ orphan = [c \in Client |-> None]
    /\ answer = [c \in Client |-> None]
    /\ known = [c \in Client |-> None] /\ floor = [c \in Client |-> None]

-----------------------------------------------------------------------------
(* The clock, and Transmission.                                            *)

Tick ==
    /\ now < MaxNow /\ now' = now + 1
    /\ UNCHANGED <<silent, recordVars, refreshVars, cache, askVars, oldVars>>

\* Transmission notices that nothing comes from a dropped peer any more.
FallsSilent(k) ==
    /\ IPOf[k] \in kernel /\ k \notin silent
    /\ silent' = silent \cup {k}
    /\ UNCHANGED <<now, recordVars, refreshVars, cache, askVars, oldVars>>

-----------------------------------------------------------------------------
(* Ban requests.                                                           *)

BanAskedStep(b) == BanAsked(b) /\ UNCHANGED <<banTime, taken, acked>>

\* The time is taken when the flush has returned ...
BanFlushedStep(b) ==
    /\ BanFlushed(b)
    /\ taken' = IF flushed'[b] = {} THEN taken ELSE [taken EXCEPT ![b] = now]
    /\ UNCHANGED <<banTime, acked>>

BanRefusedStep(b) == BanRefused(b) /\ UNCHANGED <<banTime, taken, acked>>

\* ... and stored later: by then it may replace a later one.
BanRecordedStep(b) ==
    /\ BanRecorded(b)
    /\ banTime' = [i \in recorded' |-> IF i \in flushed[b] THEN taken[b] ELSE banTime[i]]
    /\ taken' = [taken EXCEPT ![b] = 0]
    /\ UNCHANGED acked

BanAnsweredStep(b) ==
    /\ BanAnswered(b)
    /\ acked' = acked \cup wanted[b]
    /\ UNCHANGED <<banTime, taken>>

Ban(b) ==
    /\ \/ BanAskedStep(b) \/ BanFlushedStep(b) \/ BanRefusedStep(b)
       \/ BanRecordedStep(b) \/ BanAnsweredStep(b)
    /\ UNCHANGED <<now, silent, refreshVars, cache, askVars, oldVars>>

-----------------------------------------------------------------------------
(* The refresh: one goroutine.  A fetch that fails leaves everything as it *)
(* is; Transmission reports no rates of a peer it knows to be silent.      *)

FetchStep ==
    /\ Fetch
    /\ \A k \in DOMAIN resp' \cap silent : resp'[k] = Still
    /\ UNCHANGED viewVars

CountStep(k) == CountPeer(k) /\ UNCHANGED viewVars

AbandonStep == Abandon /\ UNCHANGED viewVars

PublishStep == Publish /\ UNCHANGED viewVars

Refresh ==
    FetchStep \/ AbandonStep \/ PublishStep \/ \E k \in Addr : CountStep(k)

\* Handlers keep a Peer that the cache drops and that no refresh updates any
\* more.
EvictStep(k) ==
    /\ Evict(k)
    /\ orphan' = [c \in Client |->
           IF k \in picked[c] /\ k \notin DOMAIN orphan[c]
           THEN Set(orphan[c], k, cache[k].count) ELSE orphan[c]]
    /\ floor' = [c \in Client |-> Restrict(floor[c], DOMAIN floor[c] \ {k})]
    /\ UNCHANGED <<now, silent, recordVars, askVars>>

-----------------------------------------------------------------------------
(* GetTorrentPeers.                                                        *)

\* The ban time of an address on record, and those that ban requests of the
\* same address are about to put in its place.
BanTimes(i) ==
    {banTime[i]} \cup {taken[b] : b \in {g \in Banner : i \in flushed[g]}}

\* The handler finds the torrent and its peers, and takes the time.
Ask(c) ==
    /\ ask[c] = "idle"
    /\ ask' = [ask EXCEPT ![c] = "lookup"]
    /\ snap' = [snap EXCEPT ![c] = table]
    /\ asked' = [asked EXCEPT ![c] = now]
    /\ known' = [known EXCEPT ![c] = [i \in recorded |-> BanTimes(i)]]
    /\ floor' = [floor EXCEPT ![c] =
           [k \in table \cap DOMAIN cache |-> cache[k].count]]
    /\ UNCHANGED <<now, silent, recordVars, refreshVars, cache, todo, status,
                   picked, answer, orphan>>

\* GetBannedIPV4Status for all its addresses; nothing below relates what it
\* finds of one address to another's.  GetBannedIPV6Status finds nothing.
LookUp(c) ==
    /\ ask[c] = "lookup"
    /\ status' = [status EXCEPT ![c] =
           Restrict(banTime, {IPOf[k] : k \in snap[c]} \cap recorded)]
    /\ todo' = [todo EXCEPT ![c] = snap[c]]
    /\ ask' = [ask EXCEPT ![c] = "pick"]
    /\ UNCHANGED <<now, silent, recordVars, refreshVars, cache, snap, asked,
                   picked, answer, known, oldVars>>

Banned(c, k) == IPOf[k] \in DOMAIN status[c]

Recent(c, k) == Banned(c, k) /\ asked[c] < status[c][IPOf[k]] + Skip

Idle(k) == cache[k].speed = Still

\* Faulty variants: old bans hide and fresh ones do not; peers without
\* traffic are hidden though nobody banned them; a banned peer is shown again
\* for ever once skipIPsDuration is over.
HiddenOldOnly(c, k) == Banned(c, k) /\ (~Recent(c, k) \/ Idle(k))
HiddenIdle(c, k) == Recent(c, k) \/ Idle(k)
HiddenRecentOnly(c, k) == Recent(c, k)

Hidden(c, k) == Banned(c, k) /\ (Recent(c, k) \/ Idle(k))

\* A peer that is not in the cache is left out; Peer.IsActive is always true.
Pick(c) ==
    /\ ask[c] = "pick"
    /\ \E k \in todo[c] :
           /\ todo' = [todo EXCEPT ![c] = @ \ {k}]
           /\ picked' = [picked EXCEPT ![c] =
                  IF k \in DOMAIN cache /\ ~Hidden(c, k) THEN @ \cup {k} ELSE @]
    /\ UNCHANGED <<now, silent, recordVars, refreshVars, cache, ask, snap, asked,
                   status, answer, known, oldVars>>

Picked(c) ==
    /\ ask[c] = "pick" /\ todo[c] = {}
    /\ ask' = [ask EXCEPT ![c] = "shape"]
    /\ todo' = [todo EXCEPT ![c] = picked[c]]
    /\ UNCHANGED <<now, silent, recordVars, refreshVars, cache, snap, asked, status,
                   picked, answer, known, oldVars>>

Held(c, k) == IF k \in DOMAIN orphan[c] THEN orphan[c][k] ELSE cache[k].count

\* A peer takes the place of one that has the same key.
PutPeer(f, k, v) == Set(Restrict(f, {l \in DOMAIN f : KeyOf[l] # KeyOf[k]}), k, v)

\* The response is made of what the Peers hold by now.
Shape(c) ==
    /\ ask[c] = "shape"
    /\ \E k \in todo[c] :
           /\ todo' = [todo EXCEPT ![c] = @ \ {k}]
           /\ answer' = [answer EXCEPT ![c] = PutPeer(@, k, Held(c, k))]
    /\ UNCHANGED <<now, silent, recordVars, refreshVars, cache, ask, snap, asked,
                   status, picked, known, oldVars>>

Answered(c) == ask[c] = "shape" /\ todo[c] = {}

Reply(c) ==
    /\ Answered(c)
    /\ ask' = [ask EXCEPT ![c] = "idle"]
    /\ snap' = [snap EXCEPT ![c] = {}] /\ asked' = [asked EXCEPT ![c] = 0]
    /\ status' = [status EXCEPT ![c] = None]
    /\ picked' = [picked EXCEPT ![c] = {}]
    /\ orphan' = [orphan EXCEPT ![c] = None]
    /\ answer' = [answer EXCEPT ![c] = None]
    /\ known' = [known EXCEPT ![c] = None] /\ floor' = [floor EXCEPT ![c] = None]
    /\ UNCHANGED <<now, silent, recordVars, refreshVars, cache, todo>>

Handle(c) ==
    LookUp(c) \/ Pick(c) \/ Picked(c) \/ Shape(c) \/ Reply(c)

-----------------------------------------------------------------------------
Next ==
    \/ Tick \/ Refresh
    \/ \E k \in Addr : FallsSilent(k) \/ EvictStep(k)
    \/ \E b \in Banner : Ban(b)
    \/ \E c \in Client : Ask(c) \/ Handle(c)

Spec == Init /\ [][Next]_vars

\* Goroutines keep running, Transmission answers and notices silence, and the
\* cache, whose buffer drains, does not refuse peers for ever.
Fairness ==
    /\ WF_vars(Refresh) /\ SF_vars(PublishStep)
    /\ \A k \in Addr : SF_vars(CountStep(k))
    /\ \A k \in Addr : WF_vars(FallsSilent(k))
    /\ \A c \in Client : WF_vars(Handle(c))

FairSpec == Spec /\ Fairness

-----------------------------------------------------------------------------
(* Properties.                                                             *)

Counters == [Directions -> 0 .. MaxCount]

\* Every variable has its type.
TypeOK ==
    /\ now \in Time /\ silent \subseteq Addr
    /\ kernel \subseteq IP /\ recorded \subseteq IP /\ acked \subseteq IP
    /\ {wanted, queued, flushed} \subseteq [Banner -> SUBSET IP]
    /\ banTime \in [recorded -> Time] /\ taken \in [Banner -> Time]
    /\ refresh \in {"idle", "count"}
    /\ DOMAIN resp \subseteq Addr /\ left \subseteq DOMAIN resp
    /\ \A k \in DOMAIN resp : resp[k] \in Rate
    /\ table \subseteq Addr
    /\ DOMAIN cache \subseteq Addr
    /\ \A k \in DOMAIN cache : cache[k] \in [speed : Rate, count : Counters]
    /\ ask \in [Client -> {"idle", "lookup", "pick", "shape"}]
    /\ snap \in [Client -> SUBSET Addr]
    /\ asked \in [Client -> Time]
    /\ \A c \in Client :
           /\ picked[c] \subseteq snap[c] /\ DOMAIN orphan[c] \subseteq picked[c]
           /\ DOMAIN answer[c] \subseteq picked[c]
           /\ DOMAIN status[c] \subseteq IP /\ DOMAIN known[c] \subseteq IP

\* An address a client was told is banned is never among the peers of a
\* request made less than skipIPsDuration after the ban, whatever refreshes,
\* evictions and ban requests happen while the request is served.  After the
\* ban means: after the ban time on record, or the one that a ban request of
\* the same address was about to put in its place when the request was made.
AckedHidden ==
    /\ acked \subseteq recorded
    /\ \A c \in Client : \A k \in DOMAIN answer[c] :
           IPOf[k] \in DOMAIN known[c] =>
            \E t \in known[c][IPOf[k]] : t + Skip <= asked[c]

\* The answer lacks no peer that was cached all along and is not on record,
\* unless it has one of the same key in its place: nothing else hides a peer
\* from the ban tool.
UnbannedShown ==
    \A c \in Client : Answered(c) =>
        \A k \in DOMAIN floor[c] :
            \/ IPOf[k] \in recorded
            \/ \E l \in DOMAIN answer[c] : KeyOf[l] = KeyOf[k]

AtMost(m, n) == \A d \in Directions : m[d] <= n[d]

\* The counters in an answer are no older than the request and no newer than
\* the Peer: a client that asks again never sees it go back, unless the cache
\* dropped the peer in between.
CountsCurrent ==
    \A c \in Client : \A k \in DOMAIN answer[c] :
        /\ k \in DOMAIN floor[c] => AtMost(floor[c][k], answer[c][k])
        /\ AtMost(answer[c][k], Held(c, k))

\* A peer that is on record and dropped disappears from the answers for good; one
\* whose ban was lost on the way to the kernel comes back with its traffic.
BannedSettles ==
    \A c \in Client : \A k \in Addr :
        <>[](IPOf[k] \in recorded \cap kernel => k \notin DOMAIN answer[c])
=============================================================================
