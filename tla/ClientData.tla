----------------------------- MODULE ClientData -----------------------------
(***************************************************************************)
(* The proxy's copy of Transmission's state: one goroutine refreshes the   *)
(* torrent table, the peer cache and the session statistics every few      *)
(* seconds (TorrentUsecase.UpClientData), and HTTP handlers answer clients *)
(* from them without any lock (GetMainData).                               *)
(*                                                                         *)
(* A refresh counts each peer into the cache as it goes, and publishes the *)
(* statistics and the new table only at its end, in separate stores.  An   *)
(* error on the way abandons it.                                           *)
(***************************************************************************)
EXTENDS Naturals, FiniteSetsExt, Functions

CONSTANTS
    Hash,           \* torrents
    Addr,           \* addresses of peers, ip:port
    Rate,           \* what TR reports of a peer, bytes per second
    Interval,       \* seconds between refreshes, stateRefreshInterval
    MaxBytes,       \* bound: bytes of the session per direction
    Client,         \* handlers of GetMainData at work at a time
    TRMayFail,      \* may TorrentGetAll fail?
    MayRefuse,      \* may the cache refuse a new peer (its buffer is full)?
    MayEvict,       \* may the cache drop a peer?
    InOrder         \* are stores seen in program order by other goroutines?

Directions == {"down", "up"}

ASSUME ClientAssumption ==
    /\ Interval \in Nat /\ MaxBytes \in Nat
    /\ Rate \subseteq [Directions -> Nat]
    /\ {TRMayFail, MayRefuse, MayEvict, InOrder} \subseteq BOOLEAN

Key == Hash \X Addr         \* PeerKey
Field == {"down", "up", "dl", "ul"}

\* The order of the stores that publish a refresh.
Rank == [down |-> 1, up |-> 2, dl |-> 3, ul |-> 4, table |-> 5]

Nothing == [f \in Field |-> 0]

VARIABLES
    tr,         \* the torrents Transmission holds
    at,         \* where the refresh is: "idle", "peers" or "publish"
    resp,       \* what TorrentGetAll returned: rates of the peers by key
    todo,       \* the peers of resp not yet counted
    acc,        \* increments and speeds summed so far
    left,       \* the stores not yet done
    cache,      \* PeerCache: counters and last speeds of the peers in it
    stats,      \* uc.statistics: session totals and speeds
    table,      \* uc.torrents
    list,       \* the table a handler works on
    want,       \* the totals it has yet to read
    seen,       \* those it has read
    forgotten,  \* history: bytes of the entries the cache dropped
    abandoned   \* history: bytes counted by refreshes that were abandoned

refreshVars == <<tr, at, resp, todo, acc, left, cache, stats, table,
                forgotten, abandoned>>
clientVars == <<list, want, seen>>
vars == <<refreshVars, clientVars>>

ZeroTotals == [d \in Directions |-> 0]
Plus(t, u) == [d \in Directions |-> t[d] + u[d]]

\* A table: its torrents, their peers and, as history, the session totals
\* that include the refresh it was built by.
EmptyTable == [hashes |-> {}, peers |-> {}, totals |-> ZeroTotals]
Empty == [hashes |-> {}, rate |-> [k \in {} |-> 0]]
PeersOf(r) == DOMAIN r.rate

Init ==
    /\ tr \in SUBSET Hash
    /\ at = "idle"
    /\ resp = Empty /\ todo = {} /\ acc = Nothing /\ left = {}
    /\ cache = [k \in {} |-> Nothing]
    /\ stats = Nothing
    /\ table = EmptyTable
    /\ list = [c \in Client |-> EmptyTable]
    /\ want = [c \in Client |-> {}]
    /\ seen = [c \in Client |-> ZeroTotals]
    /\ forgotten = ZeroTotals /\ abandoned = ZeroTotals

-----------------------------------------------------------------------------
(* Transmission: torrents are added and removed.                           *)

TRChanges ==
    /\ \E h \in Hash : tr' = IF h \in tr THEN tr \ {h} ELSE tr \cup {h}
    /\ UNCHANGED <<at, resp, todo, acc, left, cache, stats, table,
                   forgotten, abandoned>>
    /\ UNCHANGED clientVars

-----------------------------------------------------------------------------
(* UpClientData, on the goroutine of RunStatisticsTask.                    *)

\* A new entry starts with zero counters.
Entry(k) == IF k \in DOMAIN cache THEN cache[k] ELSE Nothing

\* What the peers of r would move still fits the bound.
Fits(r) ==
    \A d \in Directions :
        stats[d] + abandoned[d]
            + Interval * MapThenSumSet(LAMBDA k : r.rate[k][d], PeersOf(r)) <= MaxBytes

Answers ==
    UNION {[hashes : {tr}, rate : [ks -> Rate]] : ks \in SUBSET (tr \X Addr)}

\* Faulty variant: it expects every peer of every torrent in the answer.
FetchAllPeers ==
    /\ at = "idle" /\ tr # {}
    /\ resp' \in {r \in Answers : Fits(r)}
    /\ todo' = resp'.hashes \X Addr
    /\ acc' = Nothing
    /\ at' = "peers"
    /\ UNCHANGED <<tr, left, cache, stats, table,
                   forgotten, abandoned>>
    /\ UNCHANGED clientVars

Fetch ==
    /\ at = "idle" /\ tr # {}
    /\ resp' \in {r \in Answers : Fits(r)}
    /\ todo' = PeersOf(resp')
    /\ acc' = Nothing
    /\ at' = "peers"
    /\ UNCHANGED <<tr, left, cache, stats, table,
                   forgotten, abandoned>>
    /\ UNCHANGED clientVars

\* The request failed, or Transmission holds no torrent: return early.
FetchNothing ==
    /\ at = "idle" /\ (TRMayFail \/ tr = {})
    /\ UNCHANGED vars

\* The peers of one torrent are counted before those of the next.
Following(k) ==
    \A j \in todo :
        (\E i \in PeersOf(resp) \ todo : i[1] = j[1]) => k[1] = j[1]

\* Counters and speeds of a peer after this refresh.
Counted(k) ==
    LET r == resp.rate[k] IN
    [down |-> Entry(k).down + Interval * r.down,
     up |-> Entry(k).up + Interval * r.up,
     dl |-> r.down, ul |-> r.up]

Cached(k) ==
    [j \in DOMAIN cache \cup {k} |-> IF j = k THEN Counted(k) ELSE cache[j]]

Accumulate(k) ==
    LET r == resp.rate[k] IN
    acc' = [down |-> acc.down + Interval * r.down,
            up |-> acc.up + Interval * r.up,
            dl |-> acc.dl + r.down, ul |-> acc.ul + r.up]

\* Faulty variant: the new entries of the table are visible at once.
CountPeerInTable(k) ==
    /\ at = "peers" /\ k \in todo /\ Following(k)
    /\ Accumulate(k)
    /\ cache' = Cached(k)
    /\ table' = [table EXCEPT !.peers = @ \cup {k}, !.hashes = @ \cup {k[1]}]
    /\ todo' = todo \ {k}
    /\ UNCHANGED <<tr, at, resp, left, stats,
                   forgotten, abandoned>>
    /\ UNCHANGED clientVars

\* GetPeer, the new counters, SetPeer.
CountPeer(k) ==
    /\ at = "peers" /\ k \in todo /\ Following(k)
    /\ Accumulate(k)
    /\ cache' = Cached(k)
    /\ todo' = todo \ {k}
    /\ UNCHANGED <<tr, at, resp, left, stats, table,
                   forgotten, abandoned>>
    /\ UNCHANGED clientVars

\* Faulty variant: what was counted before the error goes into the totals.
RefuseKeepsCount(k) ==
    /\ MayRefuse
    /\ at = "peers" /\ k \in todo /\ Following(k)
    /\ k \notin DOMAIN cache
    /\ stats' = [stats EXCEPT !.down = @ + Counted(k).down]
    /\ abandoned' = Plus(abandoned, acc)
    /\ at' = "idle" /\ resp' = Empty /\ todo' = {} /\ acc' = Nothing
    /\ UNCHANGED <<tr, left, cache, table, forgotten>>
    /\ UNCHANGED clientVars

\* SetPeer of a new peer fails: the refresh is abandoned, and what it counted
\* so far stays in the cache only.  An entry that exists is updated in place.
Refuse(k) ==
    /\ MayRefuse
    /\ at = "peers" /\ k \in todo /\ Following(k)
    /\ k \notin DOMAIN cache
    /\ abandoned' = Plus(abandoned, acc)
    /\ at' = "idle" /\ resp' = Empty /\ todo' = {} /\ acc' = Nothing
    /\ UNCHANGED <<tr, left, cache, stats, table, forgotten>>
    /\ UNCHANGED clientVars

\* Faulty variant: the table is not among what is published.
AllCountedStatsOnly ==
    /\ at = "peers" /\ todo = {}
    /\ at' = "publish"
    /\ left' = Field
    /\ UNCHANGED <<tr, resp, todo, acc, cache, stats, table,
                   forgotten, abandoned>>
    /\ UNCHANGED clientVars

\* Faulty variant: peers that are still to be counted are not waited for.
AllCountedEarly ==
    /\ at = "peers"
    /\ at' = "publish"
    /\ left' = Field \cup {"table"}
    /\ UNCHANGED <<tr, resp, todo, acc, cache, stats, table,
                   forgotten, abandoned>>
    /\ UNCHANGED clientVars

AllCounted ==
    /\ at = "peers" /\ todo = {}
    /\ at' = "publish"
    /\ left' = Field \cup {"table"}
    /\ UNCHANGED <<tr, resp, todo, acc, cache, stats, table,
                   forgotten, abandoned>>
    /\ UNCHANGED clientVars

\* Faulty variant: the table is stored before the statistics.
NextStoreTableFirst(f) ==
    /\ at = "publish" /\ f \in left
    /\ InOrder => \/ f = "table"
                  \/ "table" \notin left /\ \A g \in left : Rank[f] <= Rank[g]

NextStore(f) ==
    /\ at = "publish" /\ f \in left
    /\ InOrder => \A g \in left : Rank[f] <= Rank[g]

AfterStore(f) ==
    /\ left' = left \ {f}
    /\ IF left' = {}
       THEN at' = "idle" /\ resp' = Empty /\ acc' = Nothing
       ELSE UNCHANGED <<at, resp, acc>>

StoreStat(f) ==
    /\ NextStore(f) /\ f # "table"
    /\ stats' = [stats EXCEPT ![f] = IF f \in Directions THEN @ + acc[f] ELSE acc[f]]
    /\ AfterStore(f)
    /\ UNCHANGED <<tr, todo, cache, table,
                   forgotten, abandoned>>
    /\ UNCHANGED clientVars

\* The totals with what this refresh counted so far.
TotalsAfter ==
    [d \in Directions |->
        IF at = "peers" \/ d \in left THEN stats[d] + acc[d] ELSE stats[d]]

\* Faulty variant: torrents are added to the old table, never removed.
StoreTableMerged ==
    /\ NextStore("table")
    /\ table' = [hashes |-> table.hashes \cup resp.hashes,
                 peers |-> PeersOf(resp), totals |-> TotalsAfter]
    /\ AfterStore("table")
    /\ UNCHANGED <<tr, todo, cache, stats,
                   forgotten, abandoned>>
    /\ UNCHANGED clientVars

\* uc.torrents = tmpTorrents
StoreTable ==
    /\ NextStore("table")
    /\ table' = [hashes |-> resp.hashes, peers |-> PeersOf(resp),
                 totals |-> TotalsAfter]
    /\ AfterStore("table")
    /\ UNCHANGED <<tr, todo, cache, stats,
                   forgotten, abandoned>>
    /\ UNCHANGED clientVars

\* Ristretto drops an entry, or never admits it.
Evict(k) ==
    /\ MayEvict
    /\ k \in DOMAIN cache
    /\ forgotten' = Plus(forgotten, cache[k])
    /\ cache' = Restrict(cache, DOMAIN cache \ {k})
    /\ UNCHANGED <<tr, at, resp, todo, acc, left, stats, table, abandoned>>
    /\ UNCHANGED clientVars

-----------------------------------------------------------------------------
(* Handlers.                                                               *)

\* GetMainData: GetTorrentList first, then GetStatistics.
MainData(c) ==
    /\ want[c] = {}
    /\ list' = [list EXCEPT ![c] = table]
    /\ want' = [want EXCEPT ![c] = Directions]
    /\ seen' = [seen EXCEPT ![c] = ZeroTotals]
    /\ UNCHANGED refreshVars

\* The copy of the statistics is not atomic.
ReadStat(c) ==
    /\ \E f \in want[c] :
           /\ seen' = [seen EXCEPT ![c][f] = stats[f]]
           /\ want' = [want EXCEPT ![c] = @ \ {f}]
    /\ UNCHANGED <<refreshVars, list>>

-----------------------------------------------------------------------------
Refresh ==
    \/ Fetch \/ FetchNothing \/ AllCounted \/ StoreTable
    \/ \E k \in Key : CountPeer(k) \/ Refuse(k)
    \/ \E f \in Field : StoreStat(f)

Next ==
    \/ TRChanges
    \/ Refresh
    \/ \E k \in Key : Evict(k)
    \/ \E c \in Client : MainData(c) \/ ReadStat(c)

Spec == Init /\ [][Next]_vars

\* The ticker keeps firing and its goroutine keeps running; TR answers in the
\* end, and the cache, whose buffer drains, does not refuse a peer for ever.
FairSpec ==
    /\ Spec
    /\ WF_vars(Refresh)
    /\ \A k \in Key : SF_vars(CountPeer(k))

-----------------------------------------------------------------------------
(* Properties.                                                             *)

\* Every variable has its type.
Table == [hashes : SUBSET Hash, peers : SUBSET Key, totals : [Directions -> Nat]]
TypeOK ==
    /\ tr \in SUBSET Hash
    /\ at \in {"idle", "peers", "publish"}
    /\ resp.hashes \in SUBSET Hash
    /\ PeersOf(resp) \in SUBSET Key
    /\ \A k \in PeersOf(resp) : resp.rate[k] \in Rate
    /\ todo \in SUBSET PeersOf(resp)
    /\ acc \in [Field -> Nat] /\ stats \in [Field -> Nat]
    /\ left \in SUBSET (Field \cup {"table"})
    /\ DOMAIN cache \in SUBSET Key
    /\ \A k \in DOMAIN cache : cache[k] \in [Field -> Nat]
    /\ table \in Table
    /\ list \in [Client -> Table]
    /\ want \in [Client -> SUBSET Directions]
    /\ seen \in [Client -> [Directions -> Nat]]
    /\ forgotten \in [Directions -> Nat] /\ abandoned \in [Directions -> Nat]

\* A handler never sees a table that is being built: it changes only to all
\* the torrents, with all their peers, of one answer of Transmission.
WholeRefresh ==
    [][table' # table =>
           todo = {} /\ table'.hashes = resp.hashes /\ table'.peers = PeersOf(resp)]_vars

\* With stores in order, the session totals a client gets with a list of
\* torrents include everything the refresh behind that list counted.
StatsNotOlder ==
    InOrder =>
        \A c \in Client : \A d \in Directions \ want[c] :
            list[c].totals[d] <= seen[c][d]

Sum(d) == MapThenSumSet(LAMBDA k : cache[k][d], DOMAIN cache)

\* The counters of the peers and the session totals agree to the byte: they
\* differ by what the cache dropped, by what abandoned refreshes counted into
\* the cache only, and by what the refresh under way has yet to publish.
Balance ==
    \A d \in Directions :
        Sum(d) + forgotten[d] = TotalsAfter[d] + abandoned[d]

\* The peers of one torrent, out of a set of keys.
PeersAt(h, keys) == {a \in Addr : <<h, a>> \in keys}

Capped(n) == IF n > MaxBytes THEN MaxBytes ELSE n

\* A torrent's peers are being refreshed until the new table is stored.
Pending == at = "peers" \/ "table" \in left

\* The rates of the peers of torrent h that are being refreshed.
RatesAt(h) ==
    [a \in PeersAt(h, IF Pending THEN PeersOf(resp) ELSE {}) |-> resp.rate[<<h, a>>]]

\* The Peers of torrent h in the cache.
CacheAt(h) ==
    [a \in PeersAt(h, DOMAIN cache) |->
        LET e == cache[<<h, a>>] IN
        [speed |-> [d \in Directions |-> IF d = "down" THEN e.dl ELSE e.ul],
         count |-> [d \in Directions |-> Capped(e[d])]]]

\* What a refresh does to the peers of torrent h.
Source(h) == INSTANCE PeerRefresh WITH
    MaxCount <- MaxBytes,
    refresh <- IF Pending THEN "count" ELSE "idle",
    resp <- RatesAt(h),
    left <- PeersAt(h, todo),
    table <- PeersAt(h, table.peers),
    cache <- CacheAt(h)

\* Whatever happens to the other torrents and to the statistics, a torrent's
\* peers are refreshed the way those who answer requests about it rely on.
FeedsPeerView ==
    /\ \A h \in Hash : Source(h)!RefreshInit
    /\ [][\A h \in Hash : [Source(h)!RefreshNext]_(Source(h)!peerVars)]_vars

\* A torrent that is gone from a Transmission that still holds others leaves
\* the table.
RemovedGoes ==
    \A h \in Hash :
        (h \notin tr /\ tr # {}) ~> (h \notin table.hashes \/ h \in tr \/ tr = {})

\* A torrent that stays in Transmission gets into the table.
AddedShows == \A h \in Hash : h \in tr ~> (h \in table.hashes \/ h \notin tr)

\* A torrent that is gone from Transmission leaves the table.
GoneGoes ==
    \A h \in Hash : h \notin tr ~> (h \notin table.hashes \/ h \in tr)
=============================================================================
