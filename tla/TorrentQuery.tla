---------------------------- MODULE TorrentQuery ----------------------------
(***************************************************************************)
(* Torrent queries: GetInfo and GetProperties (internal/service/torrent.go *)
(* and internal/domain/torrent.go) next to the refresh of ClientData,      *)
(* whose table they read without a lock.                                   *)
(*                                                                         *)
(* GetInfo copies the list of the table's torrents and filters the copy,   *)
(* but the filter by hash looks each of them up in the table as it is by   *)
(* then.  A client that was shown a list asks for the properties of the    *)
(* torrents on it later still.                                             *)
(*                                                                         *)
(* A torrent is what the filters tell apart: its status, whether it moves  *)
(* data, and its labels.  A category is a label with a prefix.  The peer   *)
(* cache is not read, and what it drops is left to ClientData.             *)
(***************************************************************************)
EXTENDS ClientData

CONSTANTS
    Query,          \* clients with a request at work at a time
    Row,            \* what a torrent may look like
    Filter          \* the filters clients send

Status == {"stopped", "check_wait", "check", "download_wait", "download",
           "seed_wait", "seed"}
ASSUME QueryAssumption ==
    /\ \A r \in Row : r.status \in Status /\ r.moving \in BOOLEAN
    /\ Filter # {} /\ \A f \in Filter : f.byHash \in BOOLEAN

VARIABLES
    rows,       \* the torrents of table
    ask,        \* where each request is
    filter,     \* its filter
    got,        \* the torrents it works on, then those it has shown
    yet,        \* those it has yet to look up
    from,       \* history: the torrents of the table it copied
    stays       \* history: those Transmission has held all along

queryVars == <<ask, filter, got, yet, from, stays>>
allVars == <<vars, rows, queryVars>>

NoRows == [h \in {} |-> 0]
NoFilter == CHOOSE f \in Filter : TRUE

QueryInit ==
    /\ Init
    /\ rows = NoRows
    /\ ask = [q \in Query |-> "idle"]
    /\ filter = [q \in Query |-> NoFilter]
    /\ got = [q \in Query |-> NoRows] /\ from = [q \in Query |-> NoRows]
    /\ yet = [q \in Query |-> {}]
    /\ stays = [q \in Query |-> {}]

-----------------------------------------------------------------------------
(* The filters.                                                            *)

\* The statuses of Transmission behind a status of qBittorrent.
StatusOf ==
    [downloading |-> {"download"}, seeding |-> {"seed"}, paused |-> {"stopped"},
     stalled_uploading |-> {"seed_wait"},
     stalled_downloading |-> {"download_wait"},
     checking |-> {"check_wait", "check"}]

\* filterTorrent: Transmission knows no "resumed"; "all", "completed",
\* "stalled", "inactive" and "errored" let everything through.
Matches(f, r) ==
    /\ f.status # "resumed"
    /\ f.status = "active" => r.moving
    /\ f.status \in DOMAIN StatusOf => r.status \in StatusOf[f.status]
    /\ f.labels \subseteq r.labels

-----------------------------------------------------------------------------
(* Handlers.                                                               *)

Reading == UNCHANGED <<vars, rows>>

Listed == Restrict(rows, DOMAIN rows \cap table.hashes)

\* What is in Transmission, and in the answer a refresh is working on.
Held == IF at = "idle" THEN tr ELSE tr \cap resp.hashes

\* GetInfo, GetTorrentList: the list is copied at once.  A filter by hash is
\* looked up for each torrent; the hashes it names are not looked at.
GetInfo(q) ==
    /\ ask[q] = "idle"
    /\ \E f \in Filter :
           /\ filter' = [filter EXCEPT ![q] = f]
           /\ yet' = [yet EXCEPT ![q] = IF f.byHash THEN DOMAIN Listed ELSE {}]
    /\ ask' = [ask EXCEPT ![q] = "filter"]
    /\ got' = [got EXCEPT ![q] = Listed]
    /\ from' = [from EXCEPT ![q] = Listed]
    /\ stays' = [stays EXCEPT ![q] = DOMAIN Listed \cap Held]
    /\ Reading

\* Faulty variant: the copy is brought up to date.
LookUpNewer(q) ==
    /\ \E h \in yet[q] :
           /\ yet' = [yet EXCEPT ![q] = @ \ {h}]
           /\ got' = [got EXCEPT ![q] =
                  IF h \in DOMAIN Listed
                  THEN [x \in DOMAIN @ |-> IF x = h THEN rows[h] ELSE @[x]]
                  ELSE Restrict(@, DOMAIN @ \ {h})]
    /\ UNCHANGED <<ask, filter, from, stays>> /\ Reading

\* Faulty variant: a torrent is looked up as it was, not by its hash.
LookUpSame(q) ==
    /\ \E h \in yet[q] :
           /\ yet' = [yet EXCEPT ![q] = @ \ {h}]
           /\ got' = [got EXCEPT ![q] =
                  IF h \in DOMAIN Listed /\ Listed[h] = @[h] THEN @
                  ELSE Restrict(@, DOMAIN @ \ {h})]
    /\ UNCHANGED <<ask, filter, from, stays>> /\ Reading

\* Torrents that have left the table meanwhile leave the copy.
LookUp(q) ==
    /\ \E h \in yet[q] :
           /\ yet' = [yet EXCEPT ![q] = @ \ {h}]
           /\ got' = [got EXCEPT ![q] =
                  IF h \in table.hashes THEN @ ELSE Restrict(@, DOMAIN @ \ {h})]
    /\ UNCHANGED <<ask, filter, from, stays>> /\ Reading

\* The other filters work on the copy.
Show(q) ==
    /\ ask[q] = "filter" /\ yet[q] = {}
    /\ ask' = [ask EXCEPT ![q] = "shown"]
    /\ got' = [got EXCEPT ![q] =
           Restrict(@, {h \in DOMAIN @ : Matches(filter[q], @[h])})]
    /\ UNCHANGED <<filter, yet, from, stays>> /\ Reading

\* GetProperties reads the table once, and fails if the torrent is not there.
PropertiesFound(h) == h \in table.hashes

\* The client has no more questions about the list.
Leave(q) ==
    /\ ask[q] = "shown"
    /\ ask' = [ask EXCEPT ![q] = "idle"]
    /\ filter' = [filter EXCEPT ![q] = NoFilter]
    /\ got' = [got EXCEPT ![q] = NoRows] /\ from' = [from EXCEPT ![q] = NoRows]
    /\ stays' = [stays EXCEPT ![q] = {}]
    /\ UNCHANGED yet /\ Reading

-----------------------------------------------------------------------------
(* The refresh and Transmission, as in ClientData.                         *)

\* The torrents of a new table look as Transmission's answer said.
Publish ==
    /\ StoreTable
    /\ rows' \in [table'.hashes -> Row]
    /\ UNCHANGED queryVars

Quietly(A) == A /\ UNCHANGED <<rows, queryVars>>

RefreshOne ==
    \/ Publish
    \/ Quietly(Fetch) \/ Quietly(FetchNothing) \/ Quietly(AllCounted)
    \/ \E k \in Key : Quietly(CountPeer(k)) \/ Quietly(Refuse(k))
    \/ \E f \in Field : Quietly(StoreStat(f))

Changes ==
    /\ TRChanges
    /\ stays' = [q \in Query |-> stays[q] \cap tr']
    /\ UNCHANGED <<rows, ask, filter, got, yet, from>>

QueryNext ==
    \/ Changes
    \/ RefreshOne
    \/ \E q \in Query :
           GetInfo(q) \/ LookUp(q) \/ Show(q) \/ Leave(q)

QuerySpec == QueryInit /\ [][QueryNext]_allVars

\* Fairness as in ClientData; handlers need none.
QueryFair ==
    /\ WF_allVars(RefreshOne)
    /\ \A k \in Key : SF_allVars(Quietly(CountPeer(k)))

-----------------------------------------------------------------------------
(* Properties.                                                             *)

\* Every variable has its type: in particular the torrents a request works
\* on are always torrents of the list it copied.
QueryTypeOK ==
    /\ rows \in [table.hashes -> Row]
    /\ ask \in [Query -> {"idle", "filter", "shown"}]
    /\ filter \in [Query -> Filter]
    /\ \A q \in Query :
           /\ DOMAIN from[q] \subseteq Hash /\ from[q] \in [DOMAIN from[q] -> Row]
           /\ DOMAIN got[q] \subseteq DOMAIN from[q]
           /\ got[q] \in [DOMAIN got[q] -> Row]
           /\ yet[q] \subseteq DOMAIN got[q] /\ stays[q] \subseteq DOMAIN from[q]

\* A list is of one table, however many refreshes went by while it was
\* filtered: each torrent looks as it did in the table that was copied, though
\* the filter by hash goes back to uc.torrents for every one of them.
OneTable ==
    \A q \in Query : ask[q] = "shown" =>
        \A h \in DOMAIN got[q] : got[q][h] = from[q][h]

\* A torrent that Transmission holds all along is not overlooked: it is shown
\* if it matches, and its properties are found, whatever is refreshed, fails
\* or is removed meanwhile.
StayersShown ==
    \A q \in Query : ask[q] = "shown" =>
        /\ {h \in stays[q] : Matches(filter[q], from[q][h])} \subseteq DOMAIN got[q]
        /\ \A h \in stays[q] : PropertiesFound(h)
=============================================================================
