-------------------------- MODULE ClientDataProofs --------------------------
(***************************************************************************)
(* What ClientData guarantees for every set of torrents, peers and         *)
(* handlers: the types, that handlers see whole refreshes only, that the   *)
(* statistics of an answer are never older than its list of torrents, that *)
(* peers' counters and session totals balance, and that a torrent's peers  *)
(* are refreshed the way PeerView relies on.                               *)
(***************************************************************************)
EXTENDS ClientData, FiniteSetTheorems, TLAPS

\* What the proofs below know of the types of the variables: the totals are
\* numbers, and the components are where they should be.
LEMMA CountedType ==
    ASSUME ClientAssumption, TypeOK, NEW k \in PeersOf(resp)
    PROVE  /\ Counted(k) \in [Field -> Nat]
           /\ [down |-> acc.down + Interval * resp.rate[k].down,
               up |-> acc.up + Interval * resp.rate[k].up,
               dl |-> acc.dl + resp.rate[k].down,
               ul |-> acc.ul + resp.rate[k].up] \in [Field -> Nat]
<1>1. resp.rate[k] \in [Directions -> Nat]
  BY DEF ClientAssumption, TypeOK
<1>2. resp.rate[k].down \in Nat /\ resp.rate[k].up \in Nat
  BY <1>1 DEF Directions
<1>3. Interval * resp.rate[k].down \in Nat /\ Interval * resp.rate[k].up \in Nat
  BY <1>2 DEF ClientAssumption
<1>4. Entry(k) \in [Field -> Nat]
  BY DEF TypeOK, Entry, Nothing
<1>5. Entry(k).down \in Nat /\ Entry(k).up \in Nat
  BY <1>4 DEF Field
<1>6. acc.down \in Nat /\ acc.up \in Nat /\ acc.dl \in Nat /\ acc.ul \in Nat
  BY DEF TypeOK, Field
<1>7. /\ Entry(k).down + Interval * resp.rate[k].down \in Nat
      /\ Entry(k).up + Interval * resp.rate[k].up \in Nat
      /\ acc.down + Interval * resp.rate[k].down \in Nat
      /\ acc.up + Interval * resp.rate[k].up \in Nat
      /\ acc.dl + resp.rate[k].down \in Nat
      /\ acc.ul + resp.rate[k].up \in Nat
  BY <1>2, <1>3, <1>5, <1>6
<1> HIDE DEF Entry
<1>8. ASSUME NEW a \in Nat, NEW b \in Nat, NEW c \in Nat, NEW d \in Nat
      PROVE  [down |-> a, up |-> b, dl |-> c, ul |-> d] \in [Field -> Nat]
  BY DEF Field
<1>9. QED
  BY <1>2, <1>7, <1>8 DEF Counted

\* Bytes per direction add up to bytes per direction.
LEMMA PlusType ==
    ASSUME NEW t \in [Directions -> Nat], NEW u \in [Field -> Nat]
    PROVE  Plus(t, u) \in [Directions -> Nat]
BY DEF Plus, Directions, Field

\* Peers wait to be counted only while a refresh counts them.
NoPeerWaits == at # "peers" => todo = {}
TypeInv == TypeOK /\ NoPeerWaits

\* Every variable keeps its type, for every set of torrents, peers, rates and
\* handlers: TypeInv is inductive.
THEOREM TypeCorrect == ClientAssumption => (Spec => [](TypeOK /\ NoPeerWaits))
<1> SUFFICES ASSUME ClientAssumption PROVE Spec => []TypeInv
  BY DEF TypeInv
<1> USE DEF Key
<1>0. Init => NoPeerWaits
  BY DEF Init, NoPeerWaits
<1>1. Init => TypeOK
  BY DEF Init, TypeOK, Table, EmptyTable, Empty, PeersOf, Nothing, ZeroTotals
<1>2. TypeInv /\ [Next]_vars => TypeOK'
  <2> SUFFICES ASSUME TypeOK, NoPeerWaits, [Next]_vars PROVE TypeOK'
    BY DEF TypeInv
  <2>1. CASE TRChanges
    BY <2>1 DEF TypeOK, TRChanges, clientVars, PeersOf
  <2>2. CASE Fetch
    <3>1. PICK ks \in SUBSET (tr \X Addr) :
              resp' \in [hashes : {tr}, rate : [ks -> Rate]]
      BY <2>2 DEF Fetch, Answers
    <3>2. resp'.hashes = tr /\ DOMAIN resp'.rate = ks /\ resp'.rate \in [ks -> Rate]
      BY <3>1
    <3>3. ks \in SUBSET Key
      BY <3>1 DEF TypeOK
    <3>4. QED
      BY <2>2, <3>2, <3>3 DEF TypeOK, Fetch, clientVars, PeersOf, Nothing
  <2>3. CASE FetchNothing
    BY <2>3 DEF TypeOK, FetchNothing, vars, refreshVars, clientVars, PeersOf
  <2>4. ASSUME NEW k \in Key, CountPeer(k) PROVE TypeOK'
    <3>1. k \in PeersOf(resp)
      BY <2>4 DEF CountPeer, TypeOK
    <3>2. acc' \in [Field -> Nat]
      BY <2>4, <3>1, CountedType DEF CountPeer, Accumulate
    <3>3. /\ DOMAIN cache' = DOMAIN cache \cup {k}
          /\ \A j \in DOMAIN cache' :
                 cache'[j] = IF j = k THEN Counted(k) ELSE cache[j]
      BY <2>4 DEF CountPeer, Cached
    <3>4. \A j \in DOMAIN cache' : cache'[j] \in [Field -> Nat]
      <4>1. Counted(k) \in [Field -> Nat]
        BY <3>1, CountedType
      <4>2. QED
        BY <3>3, <4>1 DEF TypeOK
    <3>5. DOMAIN cache' \in SUBSET Key
      BY <3>3 DEF TypeOK
    <3>6. todo' \in SUBSET PeersOf(resp)
      BY <2>4 DEF CountPeer, TypeOK
    <3>7. QED
      BY <2>4, <3>2, <3>4, <3>5, <3>6 DEF TypeOK, CountPeer, clientVars, PeersOf
  <2>5. ASSUME NEW k \in Key, Refuse(k) PROVE TypeOK'
    <3>1. abandoned' \in [Directions -> Nat]
      BY <2>5, PlusType DEF Refuse, TypeOK
    <3>2. QED
      BY <2>5, <3>1 DEF TypeOK, Refuse, clientVars, PeersOf, Empty, Nothing
  <2>6. CASE AllCounted
    BY <2>6 DEF TypeOK, AllCounted, clientVars, PeersOf
  <2>7. ASSUME NEW f \in Field, StoreStat(f) PROVE TypeOK'
    <3>1. stats[f] \in Nat /\ acc[f] \in Nat
      BY DEF TypeOK
    <3>2. stats' \in [Field -> Nat]
      BY <2>7, <3>1 DEF StoreStat, TypeOK
    <3>3. /\ at' \in {"idle", "peers", "publish"}
          /\ resp'.hashes \in SUBSET Hash /\ PeersOf(resp)' \in SUBSET Key
          /\ \A k \in PeersOf(resp)' : resp'.rate[k] \in Rate
          /\ acc' \in [Field -> Nat]
          /\ left' \in SUBSET (Field \cup {"table"})
      BY <2>7 DEF StoreStat, AfterStore, TypeOK, PeersOf, Empty, Nothing
    <3>4. todo' \in SUBSET PeersOf(resp)'
      <4>1. CASE left' = {}
        <5>1. todo' = {}
          BY <2>7 DEF StoreStat, NextStore, NoPeerWaits
        <5>2. QED
          BY <5>1
      <4>2. CASE left' # {}
        BY <2>7, <4>2 DEF StoreStat, AfterStore, TypeOK, PeersOf
      <4>3. QED
        BY <4>1, <4>2
    <3>5. QED
      BY <2>7, <3>2, <3>3, <3>4 DEF TypeOK, StoreStat, clientVars
  <2>8. CASE StoreTable
    <3>1. TotalsAfter \in [Directions -> Nat]
      <4>1. ASSUME NEW d \in Directions
            PROVE  stats[d] \in Nat /\ stats[d] + acc[d] \in Nat
        BY DEF TypeOK, Directions, Field
      <4>2. QED
        BY <4>1 DEF TotalsAfter
    <3>2. table' \in Table
      BY <2>8, <3>1 DEF StoreTable, TypeOK, Table
    <3>3. todo' = {}
      BY <2>8 DEF StoreTable, NextStore, NoPeerWaits
    <3>4. /\ at' \in {"idle", "peers", "publish"}
          /\ resp'.hashes \in SUBSET Hash /\ PeersOf(resp)' \in SUBSET Key
          /\ \A k \in PeersOf(resp)' : resp'.rate[k] \in Rate
          /\ acc' \in [Field -> Nat]
          /\ left' \in SUBSET (Field \cup {"table"})
      BY <2>8 DEF StoreTable, AfterStore, TypeOK, PeersOf, Empty, Nothing
    <3>5. QED
      BY <2>8, <3>2, <3>3, <3>4 DEF TypeOK, StoreTable, clientVars
  <2>9. ASSUME NEW k \in Key, Evict(k) PROVE TypeOK'
    <3>1. cache[k] \in [Field -> Nat] /\ forgotten \in [Directions -> Nat]
      BY <2>9 DEF Evict, TypeOK
    <3>2. forgotten' \in [Directions -> Nat]
      BY <2>9, <3>1, PlusType DEF Evict
    <3>3. QED
      BY <2>9, <3>2 DEF TypeOK, Evict, Restrict, clientVars, PeersOf
  <2>10. ASSUME NEW c \in Client, MainData(c) PROVE TypeOK'
    BY <2>10 DEF TypeOK, MainData, refreshVars, PeersOf, ZeroTotals
  <2>11. ASSUME NEW c \in Client, ReadStat(c) PROVE TypeOK'
    BY <2>11 DEF TypeOK, ReadStat, refreshVars, PeersOf, Directions, Field
  <2>12. CASE UNCHANGED vars
    BY <2>12 DEF TypeOK, vars, refreshVars, clientVars, PeersOf
  <2>13. QED
    BY <2>1, <2>2, <2>3, <2>4, <2>5, <2>6, <2>7, <2>8, <2>9, <2>10, <2>11, <2>12
       DEF Next, Refresh
<1>3. TypeInv /\ [Next]_vars => NoPeerWaits'
  <2> SUFFICES ASSUME TypeInv, [Next]_vars PROVE NoPeerWaits'
    OBVIOUS
  <2> USE DEF TypeInv, NoPeerWaits
  <2>1. CASE TRChanges \/ \E k \in Key : Evict(k)
    BY <2>1 DEF TRChanges, Evict
  <2>2. CASE Fetch
    BY <2>2 DEF Fetch
  <2>3. ASSUME NEW k \in Key, CountPeer(k) \/ Refuse(k) PROVE NoPeerWaits'
    BY <2>3 DEF CountPeer, Refuse
  <2>4. CASE AllCounted
    BY <2>4 DEF AllCounted
  <2>5. CASE StoreTable \/ \E f \in Field : StoreStat(f)
    BY <2>5 DEF StoreTable, StoreStat, AfterStore, NextStore
  <2>6. CASE FetchNothing \/ UNCHANGED vars
    BY <2>6 DEF FetchNothing, vars, refreshVars
  <2>7. CASE \E c \in Client : MainData(c) \/ ReadStat(c)
    BY <2>7 DEF MainData, ReadStat, refreshVars
  <2>8. QED
    BY <2>1, <2>2, <2>3, <2>4, <2>5, <2>6, <2>7 DEF Next, Refresh
<1>4. QED
  BY <1>0, <1>1, <1>2, <1>3, PTL DEF Spec, TypeInv

-----------------------------------------------------------------------------

\* Handlers see whole refreshes only: the table changes in one store, when no
\* peer is left to count, to all the torrents of one answer of TR.
THEOREM TableIsWhole == ClientAssumption => (Spec => WholeRefresh)
<1> SUFFICES ASSUME ClientAssumption PROVE Spec => WholeRefresh
  OBVIOUS
<1> DEFINE Whole == table' # table =>
        todo = {} /\ table'.hashes = resp.hashes /\ table'.peers = PeersOf(resp)
<1>1. TypeOK /\ NoPeerWaits /\ [Next]_vars => [Whole]_vars
  <2> SUFFICES ASSUME NoPeerWaits, Next, table' # table PROVE Whole
    OBVIOUS
  <2>1. StoreTable
    BY DEF Next, Refresh, TRChanges, Fetch, FetchNothing, CountPeer, Refuse,
       AllCounted, StoreStat, Evict, MainData, ReadStat, vars,
       refreshVars
  <2>2. QED
    BY <2>1 DEF StoreTable, NextStore, NoPeerWaits
<1>2. QED
  BY <1>1, TypeCorrect, PTL DEF Spec, WholeRefresh

-----------------------------------------------------------------------------

\* The totals behind the published table, and behind the table each handler
\* took, are in the statistics already; so are those a handler has read.
TotalsPublished ==
    /\ \A d \in Directions : table.totals[d] <= stats[d]
    /\ \A c \in Client : \A d \in Directions : list[c].totals[d] <= stats[d]
    /\ \A c \in Client : \A d \in Directions \ want[c] :
           list[c].totals[d] <= seen[c][d]

\* Session totals never go back.
LEMMA TotalsGrow ==
    ASSUME TypeOK, [Next]_vars, NEW d \in Directions
    PROVE  stats[d] \in Nat /\ stats'[d] \in Nat /\ stats[d] <= stats'[d]
<1>1. d \in Field /\ stats[d] \in Nat /\ acc[d] \in Nat
  BY DEF TypeOK, Directions, Field
<1>2. CASE \E f \in Field : StoreStat(f)
  <2>1. PICK f \in Field : StoreStat(f)
    BY <1>2
  <2>2. stats'[d] = IF d = f THEN stats[d] + acc[d] ELSE stats[d]
    BY <1>1, <2>1 DEF StoreStat, TypeOK
  <2>3. QED
    BY <1>1, <2>2
<1>3. CASE ~\E f \in Field : StoreStat(f)
  <2>1. stats' = stats
    BY <1>3 DEF Next, Refresh, TRChanges, Fetch, FetchNothing, CountPeer, Refuse,
       AllCounted, StoreTable, Evict, MainData, ReadStat, vars,
       refreshVars
  <2>2. QED
    BY <1>1, <2>1
<1>4. QED
  BY <1>2, <1>3

\* With stores seen in order, the totals in an answer of GetMainData include
\* everything counted by the refresh its torrents come from.
THEOREM StatsKeepUp == ClientAssumption => (Spec => []StatsNotOlder)
<1> SUFFICES ASSUME ClientAssumption, InOrder PROVE Spec => []StatsNotOlder
  <2>1. CASE InOrder
    BY <2>1
  <2>2. CASE ~InOrder
    <3>1. StatsNotOlder
      BY <2>2 DEF StatsNotOlder
    <3>2. QED
      BY <3>1, PTL
  <2>3. QED
    BY <2>1, <2>2
<1>1. Init => TotalsPublished
  BY DEF Init, TotalsPublished, EmptyTable, ZeroTotals, Nothing, Directions, Field
<1>2. TypeOK /\ TotalsPublished /\ [Next]_vars => TotalsPublished'
  <2> SUFFICES ASSUME TypeOK, TotalsPublished, [Next]_vars PROVE TotalsPublished'
    OBVIOUS
  <2>1. \A d \in Directions :
            stats[d] \in Nat /\ stats'[d] \in Nat /\ stats[d] <= stats'[d]
    BY TotalsGrow
  <2>2. /\ \A d \in Directions : table.totals[d] \in Nat
        /\ \A c \in Client : \A d \in Directions : list[c].totals[d] \in Nat
    BY DEF TypeOK, Table
  <2>3. \A d \in Directions : table'.totals[d] <= stats'[d]
    <3>1. CASE StoreTable
      <4>1. at = "publish" /\ \A d \in Directions : d \notin left
        BY <3>1 DEF StoreTable, NextStore, Directions, Rank
      <4>2. TotalsAfter = [d \in Directions |-> stats[d]]
        BY <4>1 DEF TotalsAfter
      <4>3. stats' = stats /\ table'.totals = TotalsAfter
        BY <3>1 DEF StoreTable
      <4>4. QED
        BY <4>2, <4>3, <2>1
    <3>2. CASE ~StoreTable
      <4>1. table' = table
        BY <3>2 DEF Next, Refresh, TRChanges, Fetch, FetchNothing, CountPeer,
           Refuse, AllCounted, StoreStat, Evict, MainData, ReadStat,
           vars, refreshVars
      <4>2. QED
        BY <4>1, <2>1, <2>2 DEF TotalsPublished
    <3>3. QED
      BY <3>1, <3>2
  <2>4. ASSUME NEW c \in Client, NEW d \in Directions
        PROVE  list'[c].totals[d] <= stats'[d]
    <3>1. list'[c] = list[c] \/ list'[c] = table
      BY DEF Next, Refresh, TRChanges, Fetch, FetchNothing, CountPeer, Refuse,
         AllCounted, StoreStat, StoreTable, Evict, MainData,
         ReadStat, vars, refreshVars, clientVars, TypeOK
    <3>2. QED
      BY <3>1, <2>1, <2>2 DEF TotalsPublished
  <2>5. ASSUME NEW c \in Client, NEW d \in Directions \ want'[c]
        PROVE  list'[c].totals[d] <= seen'[c][d]
    <3>1. CASE \E b \in Client : MainData(b)
      <4>1. PICK b \in Client : MainData(b)
        BY <3>1
      <4>2. c # b
        BY <4>1 DEF MainData, TypeOK
      <4>3. list'[c] = list[c] /\ seen'[c] = seen[c] /\ want'[c] = want[c]
        BY <4>1, <4>2 DEF MainData, TypeOK
      <4>4. QED
        BY <4>3 DEF TotalsPublished
    <3>2. CASE \E b \in Client : ReadStat(b)
      <4>1. PICK b \in Client : ReadStat(b)
        BY <3>2
      <4>2. PICK f \in want[b] :
                /\ seen' = [seen EXCEPT ![b][f] = stats[f]]
                /\ want' = [want EXCEPT ![b] = @ \ {f}]
        BY <4>1 DEF ReadStat
      <4>3. list' = list
        BY <4>1 DEF ReadStat
      <4>4. CASE c = b /\ d = f
        <5>1. seen'[c][d] = stats[d]
          BY <4>2, <4>4 DEF TypeOK
        <5>2. QED
          BY <4>3, <5>1 DEF TotalsPublished
      <4>5. CASE ~(c = b /\ d = f)
        <5>1. seen'[c][d] = seen[c][d] /\ d \notin want[c]
          BY <4>2, <4>5 DEF TypeOK
        <5>2. QED
          BY <4>3, <5>1 DEF TotalsPublished
      <4>6. QED
        BY <4>4, <4>5
    <3>3. CASE ~\E b \in Client : MainData(b) \/ ReadStat(b)
      <4>1. list' = list /\ seen' = seen /\ want' = want
        BY <3>3 DEF Next, Refresh, TRChanges, Fetch, FetchNothing, CountPeer,
           Refuse, AllCounted, StoreStat, StoreTable, Evict, vars, refreshVars,
           clientVars
      <4>2. QED
        BY <4>1 DEF TotalsPublished
    <3>4. QED
      BY <3>1, <3>2, <3>3
  <2>6. QED
    BY <2>3, <2>4, <2>5 DEF TotalsPublished
<1>3. TotalsPublished => StatsNotOlder
  BY DEF TotalsPublished, StatsNotOlder
<1>4. QED
  BY <1>1, <1>2, <1>3, TypeCorrect, PTL DEF Spec

-----------------------------------------------------------------------------
(* Sums over a finite set.  MapThenSumSet folds a set in the order CHOOSE   *)
(* takes its elements.  The lemmas below show that the fold is well defined *)
(* on finite sets and that any element may be taken first, by looking at a  *)
(* smallest set for which it would not be so.                               *)

\* The element a fold over s takes first.
Chosen(s) == CHOOSE x \in s : TRUE

\* The field d of the records of g, summed over S.
SumOf(g, d, S) == MapThenSumSet(LAMBDA k : g[k][d], S)

\* F is the function on the subsets of S by which the fold is defined.
Adds(F, g, d, S) ==
    F = [s \in SUBSET S |->
            IF s = {} THEN 0 ELSE g[Chosen(s)][d] + F[s \ {Chosen(s)}]]

Adder(g, d, S) == CHOOSE F : Adds(F, g, d, S)

\* What fails for some subset of a finite set fails for a smallest one.
LEMMA LeastSubset ==
    ASSUME NEW S, IsFiniteSet(S), NEW Bad \in SUBSET SUBSET S, Bad # {}
    PROVE  \E s \in Bad : \A t \in Bad : t \subseteq s => t = s
<1>1. Bad \subseteq FiniteSubsetsOf(S)
  BY FS_Subset DEF FiniteSubsetsOf
<1>2. PICK s \in Bad : \A t \in Bad : <<t, s>> \notin StrictSubsetOrdering(S)
  BY <1>1, WFMin, FS_StrictSubsetOrderingWellFounded, Zenon
<1>3. QED
  BY <1>2 DEF StrictSubsetOrdering

\* A set that is not empty has the element the fold takes.
LEMMA ChosenIn == ASSUME NEW s, s # {} PROVE Chosen(s) \in s
BY DEF Chosen

\* The sum is the value of such a function.
LEMMA SumIsAdder ==
    ASSUME NEW g, NEW d, NEW S
    PROVE  SumOf(g, d, S) = Adder(g, d, S)[S]
BY DEF SumOf, MapThenSumSet, MapThenFoldSet, Adds, Adder, Chosen

\* What the function gives for one subset.
LEMMA AddsAt ==
    ASSUME NEW F, NEW g, NEW d, NEW S, Adds(F, g, d, S), NEW s \in SUBSET S
    PROVE  F[s] = IF s = {} THEN 0 ELSE g[Chosen(s)][d] + F[s \ {Chosen(s)}]
BY DEF Adds

\* Two such functions agree on what they have in common.
LEMMA AddsSame ==
    ASSUME NEW d, NEW S, NEW F, NEW g, Adds(F, g, d, S),
           NEW T, NEW G, NEW h, Adds(G, h, d, T),
           NEW s, s \subseteq S, s \subseteq T, IsFiniteSet(s),
           \A x \in s : g[x][d] = h[x][d]
    PROVE  F[s] = G[s]
<1> DEFINE Bad == {t \in SUBSET s : F[t] # G[t]}
<1>1. SUFFICES ASSUME Bad # {} PROVE FALSE
  OBVIOUS
<1>2. PICK t \in Bad : \A u \in Bad : u \subseteq t => u = t
  <2> HIDE DEF Bad
  <2>1. Bad \in SUBSET SUBSET s
    BY DEF Bad
  <2>2. QED
    BY <1>1, <2>1, LeastSubset
<1>3. /\ F[t] = IF t = {} THEN 0 ELSE g[Chosen(t)][d] + F[t \ {Chosen(t)}]
      /\ G[t] = IF t = {} THEN 0 ELSE h[Chosen(t)][d] + G[t \ {Chosen(t)}]
  BY AddsAt
<1>4. t # {}
  BY <1>3
<1>5. Chosen(t) \in t
  BY <1>4, ChosenIn
<1>6. t \ {Chosen(t)} \in SUBSET s /\ t \ {Chosen(t)} # t
  BY <1>5
<1>7. F[t \ {Chosen(t)}] = G[t \ {Chosen(t)}]
  BY <1>2, <1>6
<1>8. QED
  BY <1>3, <1>4, <1>5, <1>7

\* The sum over every finite set is computed by such a function.
LEMMA AdderAdds ==
    ASSUME NEW g, NEW d, NEW S, IsFiniteSet(S)
    PROVE  Adds(Adder(g, d, S), g, d, S)
<1> DEFINE Bad == {s \in SUBSET S : ~Adds(Adder(g, d, s), g, d, s)}
<1>1. SUFFICES ASSUME Bad # {} PROVE FALSE
  OBVIOUS
<1>2. PICK s \in Bad : \A t \in Bad : t \subseteq s => t = s
  <2> HIDE DEF Bad
  <2>1. Bad \in SUBSET SUBSET S
    BY DEF Bad
  <2>2. QED
    BY <1>1, <2>1, LeastSubset
<1>3. ASSUME NEW t \in SUBSET s, t # s
      PROVE  Adds(Adder(g, d, t), g, d, t)
  BY <1>2, <1>3
<1> DEFINE Part(t) == IF t = {} THEN 0
                      ELSE g[Chosen(t)][d] + SumOf(g, d, t \ {Chosen(t)})
           F == [t \in SUBSET s |-> Part(t)]
<1>4. ASSUME NEW t \in SUBSET s, t # s
      PROVE  SumOf(g, d, t) = Part(t)
  <2>1. SumOf(g, d, t) = Adder(g, d, t)[t]
    BY SumIsAdder
  <2>2. Adder(g, d, t)[t] =
            IF t = {} THEN 0
            ELSE g[Chosen(t)][d] + Adder(g, d, t)[t \ {Chosen(t)}]
    BY <1>3, <1>4, AddsAt
  <2>3. CASE t = {}
    BY <2>1, <2>2, <2>3
  <2>4. CASE t # {}
    <3> DEFINE u == t \ {Chosen(t)}
    <3>1. Chosen(t) \in t
      BY <2>4, ChosenIn
    <3>2. u \in SUBSET s /\ u # s /\ u \subseteq t
      BY <1>4, <3>1
    <3>3. Adds(Adder(g, d, u), g, d, u)
      BY <1>3, <3>2
    <3>4. IsFiniteSet(u)
      BY <3>2, FS_Subset
    <3>5. Adds(Adder(g, d, t), g, d, t)
      BY <1>3, <1>4
    <3>6. Adder(g, d, t)[u] = Adder(g, d, u)[u]
      <4> HIDE DEF u
      <4>1. u \subseteq u
        OBVIOUS
      <4>2. QED
        BY <3>2, <3>3, <3>4, <3>5, <4>1, AddsSame
    <3>7. SumOf(g, d, u) = Adder(g, d, u)[u]
      BY SumIsAdder
    <3>8. QED
      BY <2>1, <2>2, <2>4, <3>6, <3>7
  <2>5. QED
    BY <2>3, <2>4
<1>5. ASSUME NEW t \in SUBSET s
      PROVE  F[t] = IF t = {} THEN 0 ELSE g[Chosen(t)][d] + F[t \ {Chosen(t)}]
  <2>1. CASE t = {}
    BY <2>1
  <2>2. CASE t # {}
    <3>1. Chosen(t) \in t
      BY <2>2, ChosenIn
    <3>2. t \ {Chosen(t)} \in SUBSET s /\ t \ {Chosen(t)} # s
      BY <3>1
    <3>3. SumOf(g, d, t \ {Chosen(t)}) = Part(t \ {Chosen(t)})
      BY <1>4, <3>2
    <3>4. F[t \ {Chosen(t)}] = Part(t \ {Chosen(t)})
      BY <3>2
    <3>5. F[t] = g[Chosen(t)][d] + SumOf(g, d, t \ {Chosen(t)})
      BY <2>2
    <3> HIDE DEF F, Part
    <3>6. QED
      BY <2>2, <3>3, <3>4, <3>5
  <2>3. QED
    BY <2>1, <2>2
<1>6. F = [t \in SUBSET s |->
              IF t = {} THEN 0 ELSE g[Chosen(t)][d] + F[t \ {Chosen(t)}]]
  <2>1. F = [t \in SUBSET s |-> F[t]]
    OBVIOUS
  <2> HIDE DEF F
  <2>2. QED
    BY <1>5, <2>1
<1>7. Adds(F, g, d, s)
  <2> HIDE DEF F
  <2> QED BY <1>6 DEF Adds
<1>8. Adds(Adder(g, d, s), g, d, s)
  <2> HIDE DEF F
  <2> QED BY <1>7, Zenon DEF Adder
<1>9. QED
  BY <1>2, <1>8

\* Nothing adds up to zero.
LEMMA SumEmpty ==
    ASSUME NEW g, NEW d
    PROVE  SumOf(g, d, {}) = 0
<1>1. IsFiniteSet({})
  BY FS_EmptySet
<1>2. QED
  BY <1>1, SumIsAdder, AdderAdds, AddsAt

\* Sums of the same summands are equal.
LEMMA SumSame ==
    ASSUME NEW d, NEW S, IsFiniteSet(S), NEW g, NEW h, \A x \in S : g[x][d] = h[x][d]
    PROVE  SumOf(g, d, S) = SumOf(h, d, S)
<1>1. Adds(Adder(g, d, S), g, d, S) /\ Adds(Adder(h, d, S), h, d, S)
  BY AdderAdds
<1>2. Adder(g, d, S)[S] = Adder(h, d, S)[S]
  BY <1>1, AddsSame
<1>3. QED
  BY <1>2, SumIsAdder

\* One element of the set, the one the sum takes first.
LEMMA SumChosen ==
    ASSUME NEW g, NEW d, NEW S, IsFiniteSet(S), S # {}
    PROVE  /\ Chosen(S) \in S
           /\ SumOf(g, d, S) = g[Chosen(S)][d] + SumOf(g, d, S \ {Chosen(S)})
<1> DEFINE T == S \ {Chosen(S)}
<1>1. Chosen(S) \in S
  BY ChosenIn
<1>2. IsFiniteSet(T) /\ T \subseteq S
  BY FS_Subset
<1>3. Adds(Adder(g, d, S), g, d, S) /\ Adds(Adder(g, d, T), g, d, T)
  BY <1>2, AdderAdds
<1>4. Adder(g, d, S)[S] = g[Chosen(S)][d] + Adder(g, d, S)[T]
  BY <1>3, AddsAt
<1>5. Adder(g, d, S)[T] = Adder(g, d, T)[T]
  <2> HIDE DEF T
  <2> T \subseteq T
    OBVIOUS
  <2> QED BY <1>2, <1>3, AddsSame
<1>6. QED
  BY <1>1, <1>4, <1>5, SumIsAdder

\* Numbers add up to a number.
LEMMA SumType ==
    ASSUME NEW g, NEW d, NEW S, IsFiniteSet(S), \A x \in S : g[x][d] \in Nat
    PROVE  SumOf(g, d, S) \in Nat
<1> DEFINE Bad == {s \in SUBSET S : SumOf(g, d, s) \notin Nat}
<1>1. SUFFICES ASSUME Bad # {} PROVE FALSE
  BY DEF Bad
<1>2. PICK s \in Bad : \A t \in Bad : t \subseteq s => t = s
  <2> HIDE DEF Bad
  <2>1. Bad \in SUBSET SUBSET S
    BY DEF Bad
  <2>2. QED
    BY <1>1, <2>1, LeastSubset
<1>3. s # {}
  BY SumEmpty
<1>4. Chosen(s) \in s /\ SumOf(g, d, s) = g[Chosen(s)][d] + SumOf(g, d, s \ {Chosen(s)})
  BY <1>3, SumChosen, FS_Subset
<1>5. SumOf(g, d, s \ {Chosen(s)}) \in Nat
  BY <1>2, <1>4
<1>6. QED
  BY <1>4, <1>5

\* Any element may be taken first.
LEMMA SumTake ==
    ASSUME NEW g, NEW d, NEW S, IsFiniteSet(S), \A x \in S : g[x][d] \in Nat,
           NEW x \in S
    PROVE  SumOf(g, d, S) = g[x][d] + SumOf(g, d, S \ {x})
<1> DEFINE Bad == {s \in SUBSET S :
               \E y \in s : SumOf(g, d, s) # g[y][d] + SumOf(g, d, s \ {y})}
<1>1. SUFFICES ASSUME Bad # {} PROVE FALSE
  OBVIOUS
<1>2. PICK s \in Bad : \A t \in Bad : t \subseteq s => t = s
  <2> HIDE DEF Bad
  <2>1. Bad \in SUBSET SUBSET S
    BY DEF Bad
  <2>2. QED
    BY <1>1, <2>1, LeastSubset
<1>3. PICK y \in s : SumOf(g, d, s) # g[y][d] + SumOf(g, d, s \ {y})
  BY <1>2
<1> DEFINE c == Chosen(s)
           t == s \ {c}
           u == s \ {y}
           v == s \ {y, c}
<1>4. c \in s /\ SumOf(g, d, s) = g[c][d] + SumOf(g, d, t)
  BY SumChosen, FS_Subset
<1>5. c # y
  BY <1>3, <1>4
<1>6. /\ t \in SUBSET S /\ t \subseteq s /\ t # s /\ y \in t /\ t \ {y} = v
      /\ u \in SUBSET S /\ u \subseteq s /\ u # s /\ c \in u /\ u \ {c} = v
  BY <1>4, <1>5
<1>7. SumOf(g, d, t) = g[y][d] + SumOf(g, d, v)
  <2>1. t \notin Bad
    BY <1>2, <1>6
  <2>2. QED
    BY <1>6, <2>1
<1>8. SumOf(g, d, u) = g[c][d] + SumOf(g, d, v)
  <2>1. u \notin Bad
    BY <1>2, <1>6
  <2>2. QED
    BY <1>6, <2>1
<1>9. g[c][d] \in Nat /\ g[y][d] \in Nat /\ SumOf(g, d, v) \in Nat
  <2>1. v \subseteq S /\ IsFiniteSet(v)
    BY FS_Subset
  <2>2. SumOf(g, d, v) \in Nat
    BY <2>1, SumType
  <2>3. QED
    BY <1>4, <2>2
<1>10. QED
  BY <1>3, <1>4, <1>7, <1>8, <1>9

-----------------------------------------------------------------------------

\* Sum adds up the cache, before a step and after it.
LEMMA SumOfCache ==
    ASSUME NEW d
    PROVE  /\ Sum(d) = SumOf(cache, d, DOMAIN cache)
           /\ Sum(d)' = SumOf(cache', d, DOMAIN cache')
BY DEF Sum, SumOf, MapThenSumSet, MapThenFoldSet

\* It changes with the cache only.
LEMMA SumUnchanged ==
    ASSUME NEW d, UNCHANGED cache
    PROVE  Sum(d)' = Sum(d)
BY SumOfCache

\* What the cache holds of all peers but k, and of k, make up the sum.
LEMMA SumWithout ==
    ASSUME TypeOK, IsFiniteSet(DOMAIN cache), NEW d \in Directions, NEW k
    PROVE  /\ SumOf(cache, d, DOMAIN cache \ {k}) \in Nat
           /\ Entry(k)[d] \in Nat
           /\ Sum(d) = Entry(k)[d] + SumOf(cache, d, DOMAIN cache \ {k})
<1>1. Sum(d) = SumOf(cache, d, DOMAIN cache)
  BY SumOfCache
<1>2. \A j \in DOMAIN cache : cache[j][d] \in Nat
  BY DEF TypeOK, Directions, Field
<1>3. IsFiniteSet(DOMAIN cache \ {k})
  BY FS_Subset
<1>4. SumOf(cache, d, DOMAIN cache \ {k}) \in Nat
  BY <1>2, <1>3, SumType
<1>5. CASE k \in DOMAIN cache
  <2>1. SumOf(cache, d, DOMAIN cache)
            = cache[k][d] + SumOf(cache, d, DOMAIN cache \ {k})
    BY <1>2, <1>5, SumTake
  <2>2. QED
    BY <1>1, <1>2, <1>4, <1>5, <2>1 DEF Entry
<1>6. CASE k \notin DOMAIN cache
  <2>1. DOMAIN cache \ {k} = DOMAIN cache /\ Entry(k)[d] = 0
    BY <1>6 DEF Entry, Nothing, Directions, Field
  <2>2. QED
    BY <1>1, <1>4, <2>1
<1>7. QED
  BY <1>5, <1>6

\* Counting a peer adds what it moved in the interval to the sum.
LEMMA SumCounts ==
    ASSUME ClientAssumption, TypeOK, IsFiniteSet(DOMAIN cache), NEW d \in Directions,
           NEW k \in Key, CountPeer(k)
    PROVE  /\ IsFiniteSet(DOMAIN cache')
           /\ Interval * resp.rate[k][d] \in Nat
           /\ Sum(d)' = Sum(d) + Interval * resp.rate[k][d]
<1>1. k \in PeersOf(resp)
  BY DEF CountPeer, TypeOK
<1>2. Interval * resp.rate[k][d] \in Nat
  <2>1. resp.rate[k][d] \in Nat
    BY <1>1 DEF TypeOK, ClientAssumption, Directions
  <2>2. QED
    BY <2>1 DEF ClientAssumption
<1>3. /\ DOMAIN cache' = DOMAIN cache \cup {k}
      /\ cache'[k] = Counted(k)
      /\ \A j \in DOMAIN cache \ {k} : cache'[j] = cache[j]
  BY DEF CountPeer, Cached
<1>4. IsFiniteSet(DOMAIN cache')
  BY <1>3, FS_AddElement
<1>5. Counted(k) \in [Field -> Nat]
      /\ Counted(k)[d] = Entry(k)[d] + Interval * resp.rate[k][d]
  <2>1. Counted(k) \in [Field -> Nat]
    BY <1>1, CountedType
  <2> HIDE DEF Entry
  <2>2. QED
    BY <2>1 DEF Counted, Directions
<1>6. \A j \in DOMAIN cache' : cache'[j][d] \in Nat
  BY <1>3, <1>5 DEF TypeOK, Directions, Field
<1>7. Sum(d)' = SumOf(cache', d, DOMAIN cache')
  BY SumOfCache
<1>8. SumOf(cache', d, DOMAIN cache')
          = cache'[k][d] + SumOf(cache', d, DOMAIN cache' \ {k})
  BY <1>3, <1>4, <1>6, SumTake
<1>9. SumOf(cache', d, DOMAIN cache \ {k}) = SumOf(cache, d, DOMAIN cache \ {k})
  <2>1. IsFiniteSet(DOMAIN cache \ {k})
    BY FS_Subset
  <2>2. QED
    BY <1>3, <2>1, SumSame
<1>10. DOMAIN cache' \ {k} = DOMAIN cache \ {k}
  BY <1>3
<1>11. /\ SumOf(cache, d, DOMAIN cache \ {k}) \in Nat
       /\ Entry(k)[d] \in Nat
       /\ Sum(d) = Entry(k)[d] + SumOf(cache, d, DOMAIN cache \ {k})
  BY SumWithout
<1>12. Sum(d)' = Counted(k)[d] + SumOf(cache, d, DOMAIN cache \ {k})
  BY <1>3, <1>7, <1>8, <1>9, <1>10
<1>13. QED
  BY <1>2, <1>4, <1>5, <1>11, <1>12

\* Dropping a peer takes its counters off the sum.
LEMMA SumForgets ==
    ASSUME TypeOK, IsFiniteSet(DOMAIN cache), NEW d \in Directions,
           NEW k \in Key, Evict(k)
    PROVE  /\ IsFiniteSet(DOMAIN cache')
           /\ Sum(d)' \in Nat /\ cache[k][d] \in Nat
           /\ Sum(d) = Sum(d)' + cache[k][d]
<1>1. k \in DOMAIN cache /\ Entry(k) = cache[k]
  BY DEF Evict, Entry
<1>2. /\ DOMAIN cache' = DOMAIN cache \ {k}
      /\ \A j \in DOMAIN cache' : cache'[j] = cache[j]
  BY DEF Evict, Restrict
<1>3. IsFiniteSet(DOMAIN cache')
  BY <1>2, FS_Subset
<1>4. Sum(d)' = SumOf(cache', d, DOMAIN cache')
  BY SumOfCache
<1>5. SumOf(cache', d, DOMAIN cache') = SumOf(cache, d, DOMAIN cache')
  BY <1>2, <1>3, SumSame
<1>6. QED
  BY <1>1, <1>2, <1>3, <1>4, <1>5, SumWithout

\* Balance, and what keeps it: the cache is finite, and stores are pending
\* only while a refresh is published.
BalanceInv ==
    /\ Balance
    /\ IsFiniteSet(DOMAIN cache)
    /\ at # "publish" => left = {}

\* The totals of a refresh are unchanged by steps that change none of what
\* they are made of.
LEMMA BalanceFrame ==
    ASSUME BalanceInv, UNCHANGED <<at, left, acc, cache, stats, forgotten, abandoned>>
    PROVE  BalanceInv'
BY SumUnchanged DEF BalanceInv, Balance, TotalsAfter

\* It holds at the start, and every step keeps it.
LEMMA BalanceInductive ==
    ASSUME ClientAssumption
    PROVE  /\ Init => BalanceInv
           /\ TypeInv /\ BalanceInv /\ [Next]_vars => BalanceInv'
<1>1. Init => BalanceInv
  <2> SUFFICES ASSUME Init PROVE BalanceInv
    OBVIOUS
  <2>1. DOMAIN cache = {} /\ IsFiniteSet(DOMAIN cache)
    BY FS_EmptySet DEF Init
  <2>2. \A d \in Directions : Sum(d) = 0
    BY <2>1, SumEmpty, SumOfCache
  <2>3. \A d \in Directions :
            forgotten[d] = 0 /\ abandoned[d] = 0 /\ TotalsAfter[d] = 0
    BY DEF Init, ZeroTotals, TotalsAfter, Nothing, Field, Directions
  <2>4. QED
    BY <2>1, <2>2, <2>3 DEF Init, BalanceInv, Balance
<1>2. TypeInv /\ BalanceInv /\ [Next]_vars => BalanceInv'
  <2> SUFFICES ASSUME TypeOK, NoPeerWaits, BalanceInv, [Next]_vars PROVE BalanceInv'
    BY DEF TypeInv
  <2>0. /\ IsFiniteSet(DOMAIN cache)
        /\ \A d \in Directions :
               /\ d \in Field
               /\ Sum(d) \in Nat /\ forgotten[d] \in Nat /\ abandoned[d] \in Nat
               /\ stats[d] \in Nat /\ acc[d] \in Nat
               /\ Sum(d) + forgotten[d] = TotalsAfter[d] + abandoned[d]
    <3>1. IsFiniteSet(DOMAIN cache)
      BY DEF BalanceInv
    <3>2. \A d \in Directions : Sum(d) \in Nat
      <4> SUFFICES ASSUME NEW d \in Directions PROVE Sum(d) \in Nat
        OBVIOUS
      <4>1. \A j \in DOMAIN cache : cache[j][d] \in Nat
        BY DEF TypeOK, Directions, Field
      <4>2. SumOf(cache, d, DOMAIN cache) \in Nat
        BY <3>1, <4>1, SumType
      <4>3. QED
        BY <4>2, SumOfCache
    <3>3. QED
      BY <3>1, <3>2 DEF BalanceInv, Balance, TypeOK, Directions, Field
  <2>1. CASE TRChanges
    BY <2>1, BalanceFrame DEF TRChanges
  <2>2. CASE Fetch
    <3>1. ASSUME NEW d \in Directions
          PROVE  TotalsAfter[d] = stats[d] /\ TotalsAfter'[d] = stats[d]
      BY <2>0, <2>2 DEF Fetch, BalanceInv, TotalsAfter, Nothing, Field
    <3>2. QED
      BY <2>0, <2>2, <3>1, SumUnchanged DEF Fetch, BalanceInv, Balance
  <2>3. CASE FetchNothing \/ UNCHANGED vars
    BY <2>3, BalanceFrame DEF FetchNothing, vars, refreshVars
  <2>4. ASSUME NEW k \in Key, CountPeer(k) PROVE BalanceInv'
    <3>1. ASSUME NEW d \in Directions
          PROVE  /\ acc'[d] = acc[d] + Interval * resp.rate[k][d]
                 /\ TotalsAfter[d] = stats[d] + acc[d]
                 /\ TotalsAfter'[d] = stats[d] + acc'[d]
      BY <2>4 DEF CountPeer, Accumulate, TotalsAfter, Directions
    <3>2. ASSUME NEW d \in Directions
          PROVE  /\ IsFiniteSet(DOMAIN cache')
                 /\ Interval * resp.rate[k][d] \in Nat
                 /\ Sum(d)' = Sum(d) + Interval * resp.rate[k][d]
      BY <2>0, <2>4, SumCounts
    <3>3. ASSUME NEW d \in Directions
          PROVE  Sum(d)' + forgotten'[d] = TotalsAfter'[d] + abandoned'[d]
      <4>1. forgotten' = forgotten /\ abandoned' = abandoned
        BY <2>4 DEF CountPeer
      <4>2. /\ Interval * resp.rate[k][d] \in Nat
            /\ Sum(d)' = Sum(d) + Interval * resp.rate[k][d]
        BY <3>2
      <4>3. /\ Sum(d) \in Nat /\ forgotten[d] \in Nat /\ abandoned[d] \in Nat
            /\ stats[d] \in Nat /\ acc[d] \in Nat
            /\ Sum(d) + forgotten[d] = TotalsAfter[d] + abandoned[d]
        BY <2>0
      <4>4. QED
        BY <3>1, <4>1, <4>2, <4>3
    <3>4. "down" \in Directions
      BY DEF Directions
    <3>5. at' # "publish" => left' = {}
      BY <2>4 DEF CountPeer, BalanceInv
    <3>6. QED
      BY <3>2, <3>3, <3>4, <3>5 DEF BalanceInv, Balance
  <2>5. ASSUME NEW k \in Key, Refuse(k) PROVE BalanceInv'
    <3>1. ASSUME NEW d \in Directions
          PROVE  /\ abandoned'[d] = abandoned[d] + acc[d]
                 /\ TotalsAfter[d] = stats[d] + acc[d]
                 /\ TotalsAfter'[d] = stats[d]
      BY <2>5 DEF Refuse, Plus, TotalsAfter, BalanceInv
    <3>2. ASSUME NEW d \in Directions
          PROVE  Sum(d)' + forgotten'[d] = TotalsAfter'[d] + abandoned'[d]
      <4>1. Sum(d)' = Sum(d) /\ forgotten' = forgotten
        BY <2>5, SumUnchanged DEF Refuse
      <4>2. /\ Sum(d) \in Nat /\ forgotten[d] \in Nat /\ abandoned[d] \in Nat
            /\ stats[d] \in Nat /\ acc[d] \in Nat
            /\ Sum(d) + forgotten[d] = TotalsAfter[d] + abandoned[d]
        BY <2>0
      <4>3. QED
        BY <3>1, <4>1, <4>2
    <3>3. QED
      BY <2>5, <3>2 DEF Refuse, BalanceInv, Balance
  <2>6. CASE AllCounted
    <3>1. ASSUME NEW d \in Directions
          PROVE  TotalsAfter'[d] = TotalsAfter[d]
      BY <2>0, <2>6 DEF AllCounted, TotalsAfter
    <3>2. QED
      BY <2>0, <2>6, <3>1, SumUnchanged DEF AllCounted, BalanceInv, Balance
  <2>7. ASSUME NEW f \in Field, StoreStat(f) PROVE BalanceInv'
    <3>1. at' \in {"publish", "idle"} /\ (at' # "publish" => left' = {})
      BY <2>7 DEF StoreStat, NextStore, AfterStore
    <3>2. ASSUME NEW d \in Directions
          PROVE  TotalsAfter'[d] = TotalsAfter[d]
      <4>1. stats'[d] = IF d = f THEN stats[d] + acc[d] ELSE stats[d]
        BY <2>0, <2>7 DEF StoreStat, TypeOK
      <4>2. /\ d \in left' <=> d \in left /\ d # f
            /\ f \in left /\ at = "publish"
            /\ left' # {} => acc' = acc
        BY <2>7 DEF StoreStat, NextStore, AfterStore
      <4>3. QED
        BY <2>0, <3>1, <4>1, <4>2 DEF TotalsAfter
    <3>3. QED
      BY <2>0, <2>7, <3>1, <3>2, SumUnchanged DEF StoreStat, BalanceInv, Balance
  <2>8. CASE StoreTable
    <3>1. at' \in {"publish", "idle"} /\ (at' # "publish" => left' = {})
      BY <2>8 DEF StoreTable, NextStore, AfterStore
    <3>2. ASSUME NEW d \in Directions
          PROVE  TotalsAfter'[d] = TotalsAfter[d]
      <4>1. /\ d \in left' <=> d \in left
            /\ at = "publish" /\ stats' = stats
            /\ left' # {} => acc' = acc
        BY <2>8 DEF StoreTable, NextStore, AfterStore, Directions
      <4>2. QED
        BY <2>0, <3>1, <4>1 DEF TotalsAfter
    <3>3. QED
      BY <2>0, <2>8, <3>1, <3>2, SumUnchanged DEF StoreTable, BalanceInv, Balance
  <2>9. ASSUME NEW k \in Key, Evict(k) PROVE BalanceInv'
    <3>1. ASSUME NEW d \in Directions
          PROVE  /\ IsFiniteSet(DOMAIN cache')
                 /\ Sum(d)' \in Nat /\ cache[k][d] \in Nat
                 /\ Sum(d) = Sum(d)' + cache[k][d]
      BY <2>0, <2>9, SumForgets
    <3>2. ASSUME NEW d \in Directions
          PROVE  /\ forgotten'[d] = forgotten[d] + cache[k][d]
                 /\ TotalsAfter'[d] = TotalsAfter[d]
                 /\ abandoned'[d] = abandoned[d]
      BY <2>9 DEF Evict, Plus, TotalsAfter
    <3>3. ASSUME NEW d \in Directions
          PROVE  Sum(d)' + forgotten'[d] = TotalsAfter'[d] + abandoned'[d]
      <4>1. /\ Sum(d)' \in Nat /\ cache[k][d] \in Nat
            /\ Sum(d) = Sum(d)' + cache[k][d]
        BY <3>1
      <4>2. /\ forgotten[d] \in Nat
            /\ Sum(d) + forgotten[d] = TotalsAfter[d] + abandoned[d]
        BY <2>0
      <4>3. QED
        BY <3>2, <4>1, <4>2
    <3>4. "down" \in Directions
      BY DEF Directions
    <3>5. at' # "publish" => left' = {}
      BY <2>9 DEF Evict, BalanceInv
    <3>6. QED
      BY <3>1, <3>3, <3>4, <3>5 DEF BalanceInv, Balance
  <2>10. CASE \E c \in Client : MainData(c) \/ ReadStat(c)
    BY <2>10, BalanceFrame DEF MainData, ReadStat, refreshVars
  <2>11. QED
    BY <2>1, <2>2, <2>3, <2>4, <2>5, <2>6, <2>7, <2>8, <2>9, <2>10
       DEF Next, Refresh
<1>3. QED
  BY <1>1, <1>2

\* To the byte, what the peers' counters hold and what the cache dropped is
\* what the session totals hold, what the refresh under way will add to them
\* and what abandoned refreshes lost: for any number of torrents and peers,
\* and whatever order the stores are seen in.
THEOREM CountersBalance == ClientAssumption => (Spec => []Balance)
<1> SUFFICES ASSUME ClientAssumption PROVE Spec => []Balance
  OBVIOUS
<1>1. BalanceInv => Balance
  BY DEF BalanceInv
<1>2. QED
  BY <1>1, BalanceInductive, TypeCorrect, PTL DEF Spec, TypeInv

-----------------------------------------------------------------------------
(* A torrent's peers are refreshed the way PeerView relies on.             *)

\* Nothing changes for a torrent when nothing it is seen by changes.
LEMMA SourceStutters ==
    ASSUME NEW h, UNCHANGED <<resp, todo, table, cache>>, Pending' <=> Pending
    PROVE  UNCHANGED Source(h)!peerVars
<1>1. UNCHANGED <<RatesAt(h), CacheAt(h), PeersAt(h, todo), PeersAt(h, table.peers)>>
  BY DEF RatesAt, CacheAt, PeersAt, PeersOf, Capped, Pending
<1>2. QED
  BY <1>1 DEF Source!peerVars, Source!refreshVars

\* Without a refresh under way, none of the torrent's peers is being refreshed.
LEMMA NonePending ==
    ASSUME NEW h
    PROVE  /\ ~Pending => RatesAt(h) = Source(h)!None
           /\ ~Pending' => RatesAt(h)' = Source(h)!None
<1>1. PeersAt(h, {}) = {}
  BY DEF PeersAt
<1>2. QED
  BY <1>1 DEF RatesAt, Source!None

\* A fetch returns some of the torrent's peers, or none.
LEMMA FetchesForOne ==
    ASSUME TypeInv, BalanceInv, NEW h \in Hash, Fetch
    PROVE  Source(h)!Fetch
<1>1. PICK ks \in SUBSET (tr \X Addr) : resp' \in [hashes : {tr}, rate : [ks -> Rate]]
  BY DEF Fetch, Answers
<1>2. resp'.rate \in [ks -> Rate] /\ PeersOf(resp)' = ks /\ todo' = ks
  BY <1>1 DEF Fetch, PeersOf
<1>3. ~Pending /\ Pending'
  BY DEF Fetch, Pending, BalanceInv
<1>4. RatesAt(h)' \in [PeersAt(h, ks) -> Rate]
  BY <1>2, <1>3 DEF RatesAt, PeersAt
<1>5. PeersAt(h, ks) \in SUBSET Addr /\ PeersAt(h, todo)' = PeersAt(h, ks)
  BY <1>2 DEF PeersAt
<1>6. UNCHANGED <<PeersAt(h, table.peers), CacheAt(h)>>
  BY DEF Fetch, PeersAt, CacheAt, Capped
<1>7. QED
  BY <1>3, <1>4, <1>5, <1>6 DEF Source!Fetch

\* Adding up capped counters is the same as capping what they add up to.
LEMMA CappedAdds ==
    ASSUME ClientAssumption, NEW m \in Nat, NEW n \in Nat, NEW h
    PROVE  /\ Capped(m + n) = Source(h)!Capped(Capped(m) + n)
           /\ Capped(0) = 0
BY DEF ClientAssumption, Capped, Source!Capped

\* Counting one of the torrent's peers: the speeds of the entry become the
\* rates of the answer, and its counters go on from where they were.
LEMMA CountsForOne ==
    ASSUME ClientAssumption, TypeInv, BalanceInv, NEW h \in Hash, NEW a \in Addr,
           CountPeer(<<h, a>>)
    PROVE  Source(h)!CountPeer(a)
<1> DEFINE k == <<h, a>>
           r == resp.rate[k]
<1>1. at = "peers" /\ at' = "peers" /\ Pending /\ Pending'
  BY DEF CountPeer, Pending
<1>2. k \in todo /\ k \in PeersOf(resp)
  BY DEF CountPeer, TypeInv, TypeOK
<1>3. a \in PeersAt(h, todo) /\ a \in PeersAt(h, PeersOf(resp)) /\ RatesAt(h)[a] = r
  BY <1>1, <1>2 DEF PeersAt, RatesAt
<1>4. r \in [Directions -> Nat]
  BY <1>2 DEF TypeInv, TypeOK, ClientAssumption
<1>5. r = [d \in Directions |-> IF d = "down" THEN r.down ELSE r.up]
  BY <1>4 DEF Directions
<1>6. /\ DOMAIN cache' = DOMAIN cache \cup {k}
      /\ cache'[k] = Counted(k)
      /\ \A j \in DOMAIN cache : j # k => cache'[j] = cache[j]
  BY DEF CountPeer, Cached
<1>7. ASSUME NEW d \in Directions
      PROVE  Capped(Counted(k)[d])
                 = Source(h)!Capped(Source(h)!Before(a, d) + Interval * RatesAt(h)[a][d])
  <2>1. Entry(k)[d] \in Nat /\ Interval * r[d] \in Nat
    <3>1. r[d] \in Nat /\ Interval \in Nat
      BY <1>4 DEF ClientAssumption
    <3>2. Entry(k)[d] \in Nat
      BY DEF Entry, TypeInv, TypeOK, Nothing, Directions, Field
    <3>3. QED
      BY <3>1, <3>2
  <2>2. Counted(k)[d] = Entry(k)[d] + Interval * r[d]
    <3> HIDE DEF Entry
    <3>1. QED
      BY DEF Counted, Directions
  <2>3. Source(h)!Before(a, d) = Capped(Entry(k)[d])
    <3>1. CASE k \in DOMAIN cache
      BY <3>1 DEF Source!Before, CacheAt, PeersAt, Entry
    <3>2. CASE k \notin DOMAIN cache
      <4>1. Entry(k)[d] = 0 /\ Capped(0) = 0
        BY <3>2, CappedAdds DEF Entry, Nothing, Directions, Field
      <4>2. a \notin DOMAIN CacheAt(h)
        BY <3>2 DEF CacheAt, PeersAt
      <4>3. QED
        BY <4>1, <4>2 DEF Source!Before
    <3>3. QED
      BY <3>1, <3>2
  <2>4. QED
    BY <1>3, <2>1, <2>2, <2>3, CappedAdds
<1>8. CacheAt(h)' = Source(h)!Set(CacheAt(h), a, Source(h)!Counted(a))
  <2> DEFINE f == Source(h)!Set(CacheAt(h), a, Source(h)!Counted(a))
  <2>1. DOMAIN CacheAt(h) = PeersAt(h, DOMAIN cache)
        /\ DOMAIN CacheAt(h)' = PeersAt(h, DOMAIN cache')
    BY DEF CacheAt
  <2>2. PeersAt(h, DOMAIN cache') = PeersAt(h, DOMAIN cache) \cup {a}
    BY <1>6 DEF PeersAt
  <2>3. CacheAt(h)'[a] = Source(h)!Counted(a)
    <3>1. CacheAt(h)'[a] =
              [speed |-> [d \in Directions |->
                             IF d = "down" THEN Counted(k).dl ELSE Counted(k).ul],
               count |-> [d \in Directions |-> Capped(Counted(k)[d])]]
      BY <1>6, <2>2 DEF CacheAt, Capped
    <3>2. Counted(k).dl = r.down /\ Counted(k).ul = r.up
      BY DEF Counted
    <3>3. QED
      BY <1>3, <1>5, <1>7, <3>1, <3>2 DEF Source!Counted, Source!Directions, Directions
  <2>4. ASSUME NEW b \in PeersAt(h, DOMAIN cache), b # a
        PROVE  CacheAt(h)'[b] = CacheAt(h)[b]
    BY <1>6, <2>2, <2>4 DEF CacheAt, PeersAt, Capped
  <2>5. QED
    BY <2>1, <2>2, <2>3, <2>4 DEF Source!Set, CacheAt
<1>9. PeersAt(h, todo)' = PeersAt(h, todo) \ {a}
  BY DEF CountPeer, PeersAt
<1>10. UNCHANGED <<RatesAt(h), PeersAt(h, table.peers)>>
  BY <1>1 DEF CountPeer, RatesAt, PeersAt, PeersOf
<1>11. QED
  BY <1>1, <1>3, <1>8, <1>9, <1>10 DEF Source!CountPeer

\* Counting a peer of another torrent changes nothing for this one.
LEMMA CountsForOther ==
    ASSUME NEW h \in Hash, NEW g \in Hash, g # h, NEW a \in Addr, CountPeer(<<g, a>>)
    PROVE  UNCHANGED Source(h)!peerVars
<1>1. Pending /\ Pending'
  BY DEF CountPeer, Pending
<1>2. /\ DOMAIN cache' = DOMAIN cache \cup {<<g, a>>}
      /\ \A j \in DOMAIN cache : j # <<g, a>> => cache'[j] = cache[j]
  BY DEF CountPeer, Cached
<1>3. UNCHANGED <<PeersAt(h, DOMAIN cache), PeersAt(h, todo)>>
  BY <1>2 DEF CountPeer, PeersAt
<1>4. UNCHANGED CacheAt(h)
  BY <1>2, <1>3 DEF CacheAt, PeersAt, Capped
<1>5. UNCHANGED <<RatesAt(h), PeersAt(h, table.peers)>>
  BY <1>1 DEF CountPeer, RatesAt, PeersAt, PeersOf
<1>6. QED
  BY <1>1, <1>3, <1>4, <1>5 DEF Source!peerVars, Source!refreshVars

\* Whichever torrent's peer is refused, the refresh is abandoned for all.
LEMMA AbandonsForAll ==
    ASSUME BalanceInv, NEW h \in Hash, NEW k \in Key, Refuse(k)
    PROVE  Source(h)!Abandon
<1>1. Pending /\ ~Pending'
  BY DEF Refuse, Pending, BalanceInv
<1>2. RatesAt(h)' = Source(h)!None
  BY <1>1, NonePending
<1>3. PeersAt(h, todo)' = {} /\ UNCHANGED <<PeersAt(h, table.peers), CacheAt(h)>>
  BY DEF Refuse, PeersAt, CacheAt, Capped
<1>4. QED
  BY <1>1, <1>2, <1>3 DEF Source!Abandon

\* The new table is stored when no peer of any torrent waits.
LEMMA PublishesForAll ==
    ASSUME TypeInv, NEW h \in Hash, StoreTable
    PROVE  Source(h)!Publish
<1>1. at = "publish" /\ "table" \in left /\ todo = {}
  BY DEF StoreTable, NextStore, TypeInv, NoPeerWaits
<1>2. Pending /\ ~Pending'
  BY <1>1 DEF StoreTable, AfterStore, Pending
<1>3. RatesAt(h)' = Source(h)!None
  BY <1>2, NonePending
<1>4. PeersAt(h, todo) = {} /\ PeersAt(h, todo)' = {}
  BY <1>1 DEF StoreTable, PeersAt
<1>5. PeersAt(h, table.peers)' = DOMAIN RatesAt(h)
  BY <1>2 DEF StoreTable, PeersAt, RatesAt
<1>6. UNCHANGED CacheAt(h)
  BY DEF StoreTable, CacheAt, PeersAt, Capped
<1>7. QED
  BY <1>2, <1>3, <1>4, <1>5, <1>6 DEF Source!Publish

\* The stores of the statistics change nothing for the peers.
LEMMA StatsAreNotPeers ==
    ASSUME NEW h \in Hash, NEW f \in Field, StoreStat(f)
    PROVE  UNCHANGED Source(h)!peerVars
<1>1. at = "publish" /\ at' \in {"publish", "idle"} /\ f # "table"
  BY DEF StoreStat, NextStore, AfterStore
<1>2. left' = left \ {f}
  BY DEF StoreStat, AfterStore
<1>3. Pending' <=> Pending
  BY <1>1, <1>2 DEF Pending
<1>4. CASE Pending
  <2>1. left' # {}
    BY <1>1, <1>2, <1>4 DEF Pending
  <2>2. UNCHANGED <<resp, todo, table, cache>>
    BY <2>1 DEF StoreStat, AfterStore
  <2>3. QED
    BY <1>3, <2>2, SourceStutters
<1>5. CASE ~Pending
  <2>1. UNCHANGED RatesAt(h)
    BY <1>3, <1>5, NonePending
  <2>2. UNCHANGED <<PeersAt(h, todo), PeersAt(h, table.peers), CacheAt(h)>>
    BY DEF StoreStat, PeersAt, CacheAt, Capped
  <2>3. QED
    BY <1>3, <2>1, <2>2 DEF Source!peerVars, Source!refreshVars
<1>6. QED
  BY <1>4, <1>5

\* An entry the cache drops is a peer of one torrent.
LEMMA EvictsForOne ==
    ASSUME NEW h \in Hash, NEW g \in Hash, NEW a \in Addr, Evict(<<g, a>>)
    PROVE  IF g = h THEN Source(h)!Evict(a) ELSE UNCHANGED Source(h)!peerVars
<1>1. /\ <<g, a>> \in DOMAIN cache
      /\ DOMAIN cache' = DOMAIN cache \ {<<g, a>>}
      /\ \A j \in DOMAIN cache' : cache'[j] = cache[j]
  BY DEF Evict, Restrict
<1>2. Pending' <=> Pending
  BY DEF Evict, Pending
<1>3. UNCHANGED <<RatesAt(h), PeersAt(h, todo), PeersAt(h, table.peers)>>
  BY <1>2 DEF Evict, RatesAt, PeersAt, PeersOf
<1>4. CASE g = h
  <2>1. PeersAt(h, DOMAIN cache') = PeersAt(h, DOMAIN cache) \ {a}
        /\ a \in PeersAt(h, DOMAIN cache)
    BY <1>1, <1>4 DEF PeersAt
  <2>2. CacheAt(h)' = Restrict(CacheAt(h), DOMAIN CacheAt(h) \ {a})
    BY <1>1, <2>1 DEF CacheAt, Restrict, PeersAt, Capped
  <2>3. a \in DOMAIN CacheAt(h)
    BY <2>1 DEF CacheAt
  <2>4. QED
    BY <1>2, <1>3, <1>4, <2>2, <2>3
       DEF Source!Evict, Source!refreshVars, Source!Restrict, Restrict
<1>5. CASE g # h
  <2>1. PeersAt(h, DOMAIN cache') = PeersAt(h, DOMAIN cache)
    BY <1>1, <1>5 DEF PeersAt
  <2>2. UNCHANGED CacheAt(h)
    BY <1>1, <2>1 DEF CacheAt, PeersAt, Capped
  <2>3. QED
    BY <1>2, <1>3, <1>5, <2>2 DEF Source!peerVars, Source!refreshVars
<1>6. QED
  BY <1>4, <1>5

\* Every step of the client data is one of PeerRefresh for each torrent, or
\* changes nothing there.
LEMMA StepsForOne ==
    ASSUME ClientAssumption, TypeInv, BalanceInv, [Next]_vars, NEW h \in Hash
    PROVE  [Source(h)!RefreshNext]_(Source(h)!peerVars)
<1>1. CASE Fetch
  BY <1>1, FetchesForOne DEF Source!RefreshNext
<1>2. ASSUME NEW k \in Key, CountPeer(k)
      PROVE  [Source(h)!RefreshNext]_(Source(h)!peerVars)
  <2>1. PICK g \in Hash, a \in Addr : k = <<g, a>>
    BY DEF Key
  <2>2. CASE g = h
    BY <1>2, <2>1, <2>2, CountsForOne DEF Source!RefreshNext
  <2>3. CASE g # h
    BY <1>2, <2>1, <2>3, CountsForOther
  <2>4. QED
    BY <2>2, <2>3
<1>3. ASSUME NEW k \in Key, Refuse(k)
      PROVE  [Source(h)!RefreshNext]_(Source(h)!peerVars)
  BY <1>3, AbandonsForAll DEF Source!RefreshNext
<1>4. CASE StoreTable
  BY <1>4, PublishesForAll DEF Source!RefreshNext
<1>5. CASE \E f \in Field : StoreStat(f)
  BY <1>5, StatsAreNotPeers
<1>6. ASSUME NEW k \in Key, Evict(k)
      PROVE  [Source(h)!RefreshNext]_(Source(h)!peerVars)
  <2>1. PICK g \in Hash, a \in Addr : k = <<g, a>>
    BY DEF Key
  <2>2. IF g = h THEN Source(h)!Evict(a) ELSE UNCHANGED Source(h)!peerVars
    BY <1>6, <2>1, EvictsForOne
  <2>3. QED
    BY <2>2 DEF Source!RefreshNext
<1>7. CASE AllCounted
  <2>1. UNCHANGED <<resp, todo, table, cache>> /\ Pending /\ Pending'
    BY <1>7 DEF AllCounted, Pending
  <2>2. QED
    BY <2>1, SourceStutters
<1>8. CASE \/ TRChanges \/ FetchNothing \/ UNCHANGED vars
           \/ \E c \in Client : MainData(c) \/ ReadStat(c)
  <2>1. UNCHANGED <<at, left, resp, todo, table, cache>>
    BY <1>8 DEF TRChanges, FetchNothing, MainData, ReadStat, vars, refreshVars
  <2>2. QED
    BY <2>1, SourceStutters DEF Pending
<1>9. QED
  BY <1>1, <1>2, <1>3, <1>4, <1>5, <1>6, <1>7, <1>8 DEF Next, Refresh

\* Whatever the refresh does for other torrents and for the statistics, what it
\* does to one torrent's peers is what PeerView's handlers rely on.
THEOREM PeersFed == ClientAssumption => (Spec => FeedsPeerView)
<1> SUFFICES ASSUME ClientAssumption PROVE Spec => FeedsPeerView
  OBVIOUS
<1> DEFINE Fed == \A h \in Hash : [Source(h)!RefreshNext]_(Source(h)!peerVars)
<1>1. Init => \A h \in Hash : Source(h)!RefreshInit
  <2> SUFFICES ASSUME Init, NEW h \in Hash PROVE Source(h)!RefreshInit
    OBVIOUS
  <2>1. ~Pending /\ todo = {} /\ DOMAIN cache = {} /\ table.peers = {}
    BY DEF Init, Pending, EmptyTable
  <2>2. PeersAt(h, {}) = {}
    BY DEF PeersAt
  <2>3. CacheAt(h) = Source(h)!None
    BY <2>1, <2>2 DEF CacheAt, Source!None
  <2>4. QED
    BY <2>1, <2>2, <2>3, NonePending DEF Source!RefreshInit
<1>2. TypeInv /\ BalanceInv /\ [Next]_vars => [Fed]_vars
  BY StepsForOne
<1>3. QED
  <2>1. Spec => [](TypeInv /\ BalanceInv)
    BY BalanceInductive, TypeCorrect, PTL DEF Spec, TypeInv
  <2>2. Spec => [][Fed]_vars
    BY <1>2, <2>1, PTL DEF Spec
  <2>3. QED
    BY <1>1, <2>2, PTL DEF Spec, FeedsPeerView
=============================================================================
