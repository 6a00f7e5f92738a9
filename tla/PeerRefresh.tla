----------------------------- MODULE PeerRefresh -----------------------------
(***************************************************************************)
(* What a refresh does to the peers of one torrent, as whoever answers     *)
(* requests about that torrent may rely on it.  It is the interface of two *)
(* modules: PeerView builds its handlers on it, and ClientData, which has  *)
(* every torrent and the statistics, implements it for each of them.       *)
(*                                                                         *)
(* Peers are counted into the cache one by one, the torrent's peers are    *)
(* replaced as a whole at the end, and a refresh may be abandoned at any   *)
(* point: also when a peer of another torrent is refused, and then as well *)
(* after all the peers of this one were counted.                           *)
(***************************************************************************)
EXTENDS Naturals, Functions

CONSTANTS
    Addr,           \* peers of the torrent, ip:port
    Rate,           \* what TR reports of a peer, bytes per second
    Interval,       \* seconds between refreshes, stateRefreshInterval
    MaxCount        \* bound: a peer's counters stop here

Directions == {"down", "up"}

ASSUME RefreshAssumption ==
    /\ Interval \in Nat /\ MaxCount \in Nat
    /\ Rate \subseteq [Directions -> Nat]

None == [x \in {} |-> 0]
Set(f, x, v) == [y \in DOMAIN f \cup {x} |-> IF y = x THEN v ELSE f[y]]

VARIABLES
    refresh,    \* where the refresh is: "idle" or "count"
    resp,       \* the rates of the peers Transmission returned to it
    left,       \* those it has yet to count
    table,      \* the torrent's peers in uc.torrents
    cache       \* PeerCache: speeds and counters of the Peers in it

refreshVars == <<refresh, resp, left, table>>
peerVars == <<refreshVars, cache>>

RefreshInit ==
    /\ refresh = "idle" /\ resp = None /\ left = {} /\ table = {}
    /\ cache = None

\* Faulty variant: it goes through more peers than were returned.
FetchAll ==
    /\ refresh = "idle" /\ refresh' = "count"
    /\ \E ks \in SUBSET Addr : resp' \in [ks -> Rate]
    /\ left' = Addr
    /\ UNCHANGED <<table, cache>>

Fetch ==
    /\ refresh = "idle" /\ refresh' = "count"
    /\ \E ks \in SUBSET Addr : resp' \in [ks -> Rate] /\ left' = ks
    /\ UNCHANGED <<table, cache>>

Capped(n) == IF n > MaxCount THEN MaxCount ELSE n

\* What an entry's counter is before this refresh counts into it.
Before(k, d) == IF k \in DOMAIN cache THEN cache[k].count[d] ELSE 0

\* Faulty variant: the counters start anew at each refresh.
CountedAnew(k) ==
    [speed |-> resp[k],
     count |-> [d \in Directions |-> Capped(Interval * resp[k][d])]]

\* Its speeds are overwritten, its counters go on from where they are.
Counted(k) ==
    [speed |-> resp[k],
     count |-> [d \in Directions |-> Capped(Before(k, d) + Interval * resp[k][d])]]

\* GetPeer, the update of the Peer in place, SetPeer.
CountPeer(k) ==
    /\ refresh = "count" /\ k \in left
    /\ cache' = Set(cache, k, Counted(k))
    /\ left' = left \ {k}
    /\ UNCHANGED <<refresh, resp, table>>

\* SetPeer of a new Peer fails, of this torrent or of another.
Abandon ==
    /\ refresh = "count"
    /\ refresh' = "idle" /\ resp' = None /\ left' = {}
    /\ UNCHANGED <<table, cache>>

Publish ==
    /\ refresh = "count" /\ left = {}
    /\ refresh' = "idle" /\ resp' = None
    /\ table' = DOMAIN resp
    /\ UNCHANGED <<left, cache>>

\* The cache drops an entry, or never admits it.
Evict(k) ==
    /\ k \in DOMAIN cache
    /\ cache' = Restrict(cache, DOMAIN cache \ {k})
    /\ UNCHANGED refreshVars

RefreshNext ==
    \/ Fetch \/ Abandon \/ Publish
    \/ \E k \in Addr : CountPeer(k) \/ Evict(k)

RefreshSpec == RefreshInit /\ [][RefreshNext]_peerVars
=============================================================================
