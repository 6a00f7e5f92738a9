------------------------ MODULE TorrentQueryProofs ------------------------
(***************************************************************************)
(* What TorrentQuery guarantees for every set of torrents, peers, clients  *)
(* and filters.                                                            *)
(***************************************************************************)
EXTENDS TorrentQuery, TLAPS

\* The part of ClientData's types a query rests on.
HashesOK == tr \subseteq Hash /\ resp.hashes \subseteq Hash /\ table.hashes \subseteq Hash

\* The steps of the refresh and of Transmission, as a query sees them.
LEMMA RefreshSeen ==
    ASSUME HashesOK, RefreshOne
    PROVE  /\ HashesOK' /\ UNCHANGED queryVars /\ tr' = tr
           /\ \/ table' = table /\ rows' = rows
              \/ /\ at = "publish" /\ table'.hashes = resp.hashes
                 /\ rows' \in [table'.hashes -> Row]
           /\ at' # "idle" => resp'.hashes \in {tr, resp.hashes}
           /\ at = "idle" /\ at' # "idle" => resp'.hashes = tr
           /\ at # "idle" /\ at' # "idle" => resp'.hashes = resp.hashes
<1> USE DEF vars, refreshVars, clientVars, queryVars
<1>1. CASE Publish
  <2>1. /\ at = "publish" /\ table'.hashes = resp.hashes /\ tr' = tr
        /\ rows' \in [table'.hashes -> Row]
    BY <1>1 DEF Publish, StoreTable, NextStore
  <2>2. \/ at' = "idle" /\ resp' = Empty
        \/ at' = at /\ resp' = resp
    BY <1>1 DEF Publish, StoreTable, AfterStore
  <2>3. QED
    BY <1>1, <2>1, <2>2 DEF HashesOK, Publish, Empty
<1>2. CASE Quietly(Fetch)
  <2>1. resp' \in Answers
    BY <1>2 DEF Quietly, Fetch
  <2>2. resp'.hashes = tr
    BY <2>1 DEF Answers
  <2>3. QED
    BY <1>2, <2>2 DEF HashesOK, Quietly, Fetch
<1>3. CASE Quietly(FetchNothing)
  BY <1>3 DEF HashesOK, Quietly, FetchNothing
<1>4. CASE Quietly(AllCounted)
  BY <1>4 DEF HashesOK, Quietly, AllCounted
<1>5. ASSUME NEW k \in Key, Quietly(CountPeer(k))
      PROVE /\ UNCHANGED <<queryVars, tr, at, resp, table, rows>>
  BY <1>5 DEF Quietly, CountPeer
<1>6. ASSUME NEW k \in Key, Quietly(Refuse(k))
      PROVE /\ UNCHANGED <<queryVars, tr, table, rows>> /\ at' = "idle" /\ resp' = Empty
  BY <1>6 DEF Quietly, Refuse
<1>7. ASSUME NEW f \in Field, Quietly(StoreStat(f))
      PROVE /\ UNCHANGED <<queryVars, tr, table, rows>> /\ at # "idle"
            /\ (at' = "idle" /\ resp' = Empty) \/ (at' = at /\ resp' = resp)
  BY <1>7 DEF Quietly, StoreStat, NextStore, AfterStore
<1>8. QED
  BY <1>1, <1>2, <1>3, <1>4, <1>5, <1>6, <1>7 DEF RefreshOne, HashesOK, Empty

-----------------------------------------------------------------------------

\* One request.  A torrent that stays is in the table, and in the answer of
\* the refresh that will replace the table.  While a list is filtered, it
\* holds torrents as they were copied, and all of those that stay.
Good(q) ==
    /\ ask[q] \in {"idle", "filter", "shown"} /\ filter[q] \in Filter
    /\ DOMAIN from[q] \subseteq Hash /\ from[q] \in [DOMAIN from[q] -> Row]
    /\ DOMAIN got[q] \subseteq DOMAIN from[q]
    /\ got[q] \in [DOMAIN got[q] -> Row]
    /\ yet[q] \subseteq DOMAIN got[q] /\ stays[q] \subseteq DOMAIN from[q]
    /\ stays[q] \subseteq table.hashes /\ stays[q] \subseteq tr
    /\ at # "idle" => stays[q] \subseteq resp.hashes
    /\ \A h \in DOMAIN got[q] : got[q][h] = from[q][h]
    /\ ask[q] # "filter" => yet[q] = {}
    /\ ask[q] = "filter" => stays[q] \subseteq DOMAIN got[q]
    /\ ask[q] = "shown" =>
           \A h \in stays[q] : Matches(filter[q], from[q][h]) => h \in DOMAIN got[q]
    /\ ask[q] = "shown" => \A h \in DOMAIN got[q] : Matches(filter[q], from[q][h])

QueryInv ==
    /\ HashesOK /\ rows \in [table.hashes -> Row]
    /\ DOMAIN ask = Query /\ DOMAIN filter = Query /\ DOMAIN got = Query
    /\ DOMAIN yet = Query /\ DOMAIN from = Query /\ DOMAIN stays = Query
    /\ ask = [q \in Query |-> ask[q]] /\ filter = [q \in Query |-> filter[q]]
    /\ \A q \in Query : Good(q)

\* The filter of an idle handler is one.
LEMMA NoFilterType ==
    ASSUME QueryAssumption
    PROVE  NoFilter \in Filter
<1>1. \E f \in Filter : TRUE
  BY DEF QueryAssumption
<1>2. QED
  BY <1>1 DEF NoFilter

\* No rows are rows of no torrents.
LEMMA NoRowsType == DOMAIN NoRows = {} /\ NoRows \in [{} -> Row]
BY DEF NoRows

\* The invariant holds at the start.
LEMMA QueryInvInit ==
    ASSUME QueryAssumption, QueryInit
    PROVE  QueryInv
<1>1. HashesOK /\ table.hashes = {} /\ rows \in [table.hashes -> Row]
  BY NoRowsType DEF QueryInit, Init, HashesOK, EmptyTable, Empty
<1>2. QED
  BY <1>1, NoRowsType, NoFilterType DEF QueryInit, QueryInv, Good

\* Every step of the refresh, of Transmission and of the handlers keeps it.
LEMMA QueryInvKept ==
    ASSUME QueryAssumption, QueryInv, [QueryNext]_allVars
    PROVE  QueryInv'
<1> USE DEF vars, refreshVars, clientVars, queryVars
<1>1. CASE Changes
  <2>1. /\ UNCHANGED <<at, resp, table, rows, ask, filter, got, yet, from>>
        /\ tr' \subseteq Hash
        /\ stays' = [q \in Query |-> stays[q] \cap tr']
    BY <1>1 DEF Changes, TRChanges, QueryInv, HashesOK
  <2>2. ASSUME NEW q \in Query PROVE Good(q)'
    BY <2>1 DEF QueryInv, Good
  <2>3. QED
    BY <2>1, <2>2 DEF QueryInv, HashesOK
<1>2. CASE RefreshOne
  <2>1. /\ HashesOK' /\ UNCHANGED queryVars /\ tr' = tr
        /\ \/ table' = table /\ rows' = rows
           \/ /\ at = "publish" /\ table'.hashes = resp.hashes
              /\ rows' \in [table'.hashes -> Row]
        /\ at = "idle" /\ at' # "idle" => resp'.hashes = tr
        /\ at # "idle" /\ at' # "idle" => resp'.hashes = resp.hashes
    BY <1>2, RefreshSeen DEF QueryInv
  <2>2. ASSUME NEW q \in Query PROVE Good(q)'
    BY <2>1 DEF QueryInv, Good
  <2>3. rows' \in [table'.hashes -> Row]
    BY <2>1 DEF QueryInv
  <2>4. QED
    BY <2>1, <2>2, <2>3 DEF QueryInv
<1>3. ASSUME NEW q \in Query, GetInfo(q) PROVE QueryInv'
  <2>1. PICK f \in Filter :
            /\ filter' = [filter EXCEPT ![q] = f]
            /\ yet' = [yet EXCEPT ![q] = IF f.byHash THEN DOMAIN Listed ELSE {}]
    BY <1>3 DEF GetInfo
  <2>2. rows \in [table.hashes -> Row] /\ table.hashes \subseteq Hash
    BY DEF QueryInv, HashesOK
  <2>3. Listed = rows /\ DOMAIN rows = table.hashes
    BY <2>2 DEF Listed, Restrict
  <2>4. /\ ask' = [ask EXCEPT ![q] = "filter"]
        /\ got' = [got EXCEPT ![q] = rows] /\ from' = [from EXCEPT ![q] = rows]
        /\ stays' = [stays EXCEPT ![q] = table.hashes \cap Held]
        /\ UNCHANGED <<tr, at, resp, table, rows>>
    BY <1>3, <2>3 DEF GetInfo, Reading
  <2>5. ASSUME NEW p \in Query PROVE Good(p)'
    <3>1. CASE p = q
      <4>1. /\ ask'[p] = "filter" /\ filter'[p] = f /\ got'[p] = rows /\ from'[p] = rows
            /\ stays'[p] = table.hashes \cap Held /\ yet'[p] \subseteq table.hashes
        BY <2>1, <2>3, <2>4, <3>1 DEF QueryInv
      <4>2. QED
        BY <2>2, <2>3, <2>4, <4>1 DEF Good, Held
    <3>2. CASE p # q
      BY <2>1, <2>4, <3>2 DEF QueryInv, Good
    <3>3. QED
      BY <3>1, <3>2
  <2>6. QED
    BY <2>1, <2>4, <2>5 DEF QueryInv, HashesOK
<1>4. ASSUME NEW q \in Query, LookUp(q) PROVE QueryInv'
  <2>1. PICK h \in yet[q] :
            /\ yet' = [yet EXCEPT ![q] = @ \ {h}]
            /\ got' = [got EXCEPT ![q] =
                   IF h \in table.hashes THEN @ ELSE Restrict(@, DOMAIN @ \ {h})]
    BY <1>4 DEF LookUp
  <2>2. UNCHANGED <<tr, at, resp, table, rows, ask, filter, from, stays>>
    BY <1>4 DEF LookUp, Reading
  <2>3. ASSUME NEW p \in Query PROVE Good(p)'
    <3>1. CASE p = q
      <4>1. /\ yet'[p] = yet[p] \ {h}
            /\ h \in table.hashes => got'[p] = got[p]
            /\ h \notin table.hashes => got'[p] = [x \in DOMAIN got[p] \ {h} |-> got[p][x]]
        BY <2>1, <3>1 DEF QueryInv, Restrict
      <4>2. Good(p) /\ ask[p] = "filter"
        BY <2>1, <3>1 DEF QueryInv, Good
      <4>3. QED
        BY <2>2, <4>1, <4>2 DEF Good
    <3>2. CASE p # q
      BY <2>1, <2>2, <3>2 DEF QueryInv, Good
    <3>3. QED
      BY <3>1, <3>2
  <2>4. QED
    BY <2>1, <2>2, <2>3 DEF QueryInv, HashesOK
<1>5. ASSUME NEW q \in Query, Show(q) PROVE QueryInv'
  <2>1. /\ ask[q] = "filter" /\ yet[q] = {}
        /\ ask' = [ask EXCEPT ![q] = "shown"]
        /\ got' = [got EXCEPT ![q] =
               Restrict(@, {h \in DOMAIN @ : Matches(filter[q], @[h])})]
        /\ UNCHANGED <<tr, at, resp, table, rows, filter, yet, from, stays>>
    BY <1>5 DEF Show, Reading
  <2>2. ASSUME NEW p \in Query PROVE Good(p)'
    <3>1. CASE p = q
      <4>1. /\ ask'[p] = "shown"
            /\ got'[p] = [h \in {x \in DOMAIN got[p] : Matches(filter[p], got[p][x])}
                             |-> got[p][h]]
        BY <2>1, <3>1 DEF QueryInv, Restrict
      <4>2. Good(p) /\ ask[p] = "filter" /\ yet[p] = {}
        BY <2>1, <3>1 DEF QueryInv
      <4>3. DOMAIN got'[p] = {x \in DOMAIN got[p] : Matches(filter[p], got[p][x])}
        BY <4>1
      <4>4. \A h \in DOMAIN got'[p] : got'[p][h] = got[p][h] /\ got'[p][h] = from[p][h]
        BY <4>1, <4>2 DEF Good
      <4>5. \A h \in DOMAIN got'[p] : Matches(filter[p], from[p][h])
        BY <4>3, <4>4
      <4>6. \A h \in stays[p] : Matches(filter[p], from[p][h]) => h \in DOMAIN got'[p]
        BY <4>2, <4>3 DEF Good
      <4>7. got'[p] \in [DOMAIN got'[p] -> Row] /\ DOMAIN got'[p] \subseteq DOMAIN from[p]
        BY <4>1, <4>2, <4>3, <4>4 DEF Good
      <4>8. /\ UNCHANGED <<tr, at, resp, table>> /\ filter'[p] = filter[p]
            /\ from'[p] = from[p] /\ stays'[p] = stays[p] /\ yet'[p] = {}
        BY <2>1, <4>2
      <4>9. QED
        BY <4>1, <4>2, <4>4, <4>5, <4>6, <4>7, <4>8 DEF Good
    <3>2. CASE p # q
      BY <2>1, <3>2 DEF QueryInv, Good
    <3>3. QED
      BY <3>1, <3>2
  <2>3. QED
    BY <2>1, <2>2 DEF QueryInv, HashesOK
<1>6. ASSUME NEW q \in Query, Leave(q) PROVE QueryInv'
  <2>1. /\ ask[q] = "shown"
        /\ ask' = [ask EXCEPT ![q] = "idle"]
        /\ filter' = [filter EXCEPT ![q] = NoFilter]
        /\ got' = [got EXCEPT ![q] = NoRows] /\ from' = [from EXCEPT ![q] = NoRows]
        /\ stays' = [stays EXCEPT ![q] = {}]
        /\ UNCHANGED <<tr, at, resp, table, rows, yet>>
    BY <1>6 DEF Leave, Reading
  <2>2. ASSUME NEW p \in Query PROVE Good(p)'
    <3>1. CASE p = q
      <4>1. /\ ask'[p] = "idle" /\ filter'[p] = NoFilter /\ got'[p] = NoRows
            /\ from'[p] = NoRows /\ stays'[p] = {} /\ yet'[p] = {}
        BY <2>1, <3>1 DEF QueryInv, Good
      <4>2. QED
        BY <4>1, NoRowsType, NoFilterType DEF Good
    <3>2. CASE p # q
      BY <2>1, <3>2 DEF QueryInv, Good
    <3>3. QED
      BY <3>1, <3>2
  <2>3. QED
    BY <2>1, <2>2 DEF QueryInv, HashesOK
<1>7. CASE UNCHANGED allVars
  BY <1>7 DEF allVars, QueryInv, HashesOK, Good
<1>8. QED
  BY <1>1, <1>2, <1>3, <1>4, <1>5, <1>6, <1>7 DEF QueryNext

\* So it holds always.
LEMMA QueryInvariant == QueryAssumption => (QuerySpec => []QueryInv)
<1> SUFFICES ASSUME QueryAssumption PROVE QuerySpec => []QueryInv
  OBVIOUS
<1>1. QueryInit => QueryInv
  BY QueryInvInit
<1>2. QueryInv /\ [QueryNext]_allVars => QueryInv'
  BY QueryInvKept
<1>3. QED
  BY <1>1, <1>2, PTL DEF QuerySpec

\* Every variable has its type.
THEOREM TypeCorrect == QueryAssumption => (QuerySpec => []QueryTypeOK)
<1>1. QueryInv => QueryTypeOK
  BY DEF QueryInv, Good, QueryTypeOK
<1>2. QED
  BY <1>1, QueryInvariant, PTL

\* A list is of one table: each torrent looks as it did in the one that was copied.
THEOREM ListsOfOneTable == QueryAssumption => (QuerySpec => []OneTable)
<1>1. QueryInv => OneTable
  BY DEF QueryInv, Good, OneTable
<1>2. QED
  BY <1>1, QueryInvariant, PTL

\* What Transmission holds all along is shown, and its properties are found.
THEOREM StayersAreShown == QueryAssumption => (QuerySpec => []StayersShown)
<1>1. QueryInv => StayersShown
  BY DEF QueryInv, Good, StayersShown, PropertiesFound
<1>2. QED
  BY <1>1, QueryInvariant, PTL

=============================================================================
