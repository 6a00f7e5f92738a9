--------------------------- MODULE PeerViewProofs ---------------------------
(***************************************************************************)
(* Proofs about the answer to "which peers has this torrent".              *)
(*                                                                         *)
(* A fresh ban is hidden although the handler takes the time, reads the    *)
(* table, the ban record and the Peers one after the other, without a      *)
(* lock.  A ban time on record may be replaced by an older one, but only   *)
(* by one that a ban request held already: what LookUp finds of an address *)
(* is no older than one of the ban times there were when the request       *)
(* began.  HideInv carries that from the record to the answer.             *)
(***************************************************************************)
EXTENDS PeerView, TLAPS

-----------------------------------------------------------------------------
(* What a restriction does to a function.                                  *)

\* Restrict keeps the values of the arguments it keeps.
LEMMA RestrictValue ==
    ASSUME NEW f, NEW S
    PROVE  /\ DOMAIN Restrict(f, S) = S
           /\ \A y \in S : Restrict(f, S)[y] = f[y]
BY DEF Restrict

\* A peer that is put into an answer takes the place of those with its key only.
LEMMA PutPeerValue ==
    ASSUME NEW f, NEW k, NEW v
    PROVE  /\ DOMAIN PutPeer(f, k, v) \subseteq DOMAIN f \cup {k}
           /\ k \in DOMAIN PutPeer(f, k, v)
           /\ \A l \in DOMAIN f :
                  KeyOf[l] # KeyOf[k] => l \in DOMAIN PutPeer(f, k, v)
           /\ \A l \in DOMAIN PutPeer(f, k, v) :
                  PutPeer(f, k, v)[l] = IF l = k THEN v ELSE f[l]
<1> DEFINE S == {l \in DOMAIN f : KeyOf[l] # KeyOf[k]}
           g == Restrict(f, S)
<1>1. DOMAIN g = S /\ \A l \in S : g[l] = f[l]
  BY RestrictValue
<1>2. PutPeer(f, k, v) = [l \in DOMAIN g \cup {k} |-> IF l = k THEN v ELSE g[l]]
  BY DEF PutPeer, Set
<1> HIDE DEF g
<1>3. QED
  BY <1>1, <1>2

-----------------------------------------------------------------------------
(* Types.                                                                  *)

\* The functions over the handlers, and what a handler works through.
Work ==
    /\ DOMAIN todo = Client /\ DOMAIN status = Client /\ DOMAIN picked = Client
    /\ DOMAIN orphan = Client /\ DOMAIN answer = Client
    /\ DOMAIN known = Client /\ DOMAIN floor = Client
    /\ \A c \in Client :
           /\ ask[c] = "pick" => todo[c] \subseteq snap[c]
           /\ ask[c] = "shape" => todo[c] \subseteq picked[c]
           /\ ask[c] \in {"idle", "lookup"} =>
                  picked[c] = {} /\ DOMAIN answer[c] = {} /\ DOMAIN orphan[c] = {}

\* A refresh changes the table, the cache and its own variables only.
RefreshTypes ==
    /\ refresh \in {"idle", "count"}
    /\ DOMAIN resp \subseteq Addr /\ left \subseteq DOMAIN resp
    /\ \A k \in DOMAIN resp : resp[k] \in Rate
    /\ table \subseteq Addr
    /\ DOMAIN cache \subseteq Addr
    /\ \A k \in DOMAIN cache : cache[k] \in [speed : Rate, count : Counters]

BanTypes ==
    /\ kernel \subseteq IP /\ recorded \subseteq IP /\ acked \subseteq IP
    /\ wanted \in [Banner -> SUBSET IP]
    /\ queued \in [Banner -> SUBSET IP] /\ flushed \in [Banner -> SUBSET IP]
    /\ banTime \in [recorded -> Time] /\ taken \in [Banner -> Time]

AskTypes ==
    /\ ask \in [Client -> {"idle", "lookup", "pick", "shape"}]
    /\ snap \in [Client -> SUBSET Addr]
    /\ asked \in [Client -> Time]
    /\ \A c \in Client :
           /\ picked[c] \subseteq snap[c] /\ DOMAIN orphan[c] \subseteq picked[c]
           /\ DOMAIN answer[c] \subseteq picked[c]
           /\ DOMAIN status[c] \subseteq IP /\ DOMAIN known[c] \subseteq IP
    /\ Work

ClockTypes == now \in Time /\ silent \subseteq Addr

Types == ClockTypes /\ BanTypes /\ RefreshTypes /\ AskTypes

\* What a refresh counts of a direction is no less than what was counted
\* before, and within the bound.
LEMMA CountGrows ==
    ASSUME RefreshAssumption, RefreshTypes, NEW k \in DOMAIN resp, NEW d \in Directions
    PROVE  /\ Counted(k).count[d] \in 0 .. MaxCount
           /\ Before(k, d) \in 0 .. MaxCount
           /\ Before(k, d) <= Counted(k).count[d]
<1>1. resp[k] \in [Directions -> Nat]
  BY DEF RefreshTypes, RefreshAssumption
<1>2. resp[k][d] \in Nat /\ Interval \in Nat /\ MaxCount \in Nat
  BY <1>1 DEF RefreshAssumption
<1>3. Interval * resp[k][d] \in Nat
  BY <1>2
<1>4. Before(k, d) \in 0 .. MaxCount
  BY <1>2 DEF Before, RefreshTypes, Counters
<1>5. Counted(k).count[d] = Capped(Before(k, d) + Interval * resp[k][d])
  BY DEF Counted
<1> HIDE DEF Before
<1>6. QED
  BY <1>2, <1>3, <1>4, <1>5 DEF Capped

\* What a refresh counts is a Peer.
LEMMA CountedType ==
    ASSUME RefreshAssumption, RefreshTypes, NEW k \in DOMAIN resp
    PROVE  Counted(k) \in [speed : Rate, count : Counters]
<1>1. Counted(k).count \in Counters
  <2>1. \A d \in Directions : Counted(k).count[d] \in 0 .. MaxCount
    BY CountGrows
  <2>2. QED
    BY <2>1 DEF Counted, Counters
<1>2. QED
  BY <1>1 DEF Counted, RefreshTypes

\* A refresh keeps its types, in whatever surroundings.
LEMMA RefreshKeepsTypes ==
    ASSUME RefreshAssumption, RefreshTypes, RefreshNext
    PROVE  RefreshTypes'
<1>1. CASE Fetch
  BY <1>1 DEF Fetch, RefreshTypes
<1>2. CASE Publish
  BY <1>2 DEF Publish, RefreshTypes, None
<1>3. ASSUME NEW k \in Addr, CountPeer(k) PROVE RefreshTypes'
  <2>1. k \in DOMAIN resp /\ cache' = Set(cache, k, Counted(k))
    BY <1>3 DEF CountPeer, RefreshTypes
  <2>2. Counted(k) \in [speed : Rate, count : Counters]
    BY <2>1, CountedType
  <2>3. /\ DOMAIN cache' = DOMAIN cache \cup {k}
        /\ cache'[k] = Counted(k)
        /\ \A j \in DOMAIN cache : j # k => cache'[j] = cache[j]
    BY <2>1 DEF Set
  <2>4. QED
    BY <1>3, <2>2, <2>3 DEF CountPeer, RefreshTypes
<1>4. CASE Abandon
  BY <1>4 DEF Abandon, RefreshTypes, None
<1>5. ASSUME NEW k \in Addr, Evict(k) PROVE RefreshTypes'
  <2>1. /\ DOMAIN cache' = DOMAIN cache \ {k}
        /\ \A j \in DOMAIN cache \ {k} : cache'[j] = cache[j]
    BY <1>5, RestrictValue DEF Evict
  <2>2. QED
    BY <1>5, <2>1 DEF Evict, RefreshTypes, refreshVars
<1>6. QED
  BY <1>1, <1>2, <1>3, <1>4, <1>5 DEF RefreshNext

\* The refresh of the peer view, and what the cache drops, is one.
LEMMA RefreshIsOne ==
    ASSUME Refresh \/ \E k \in Addr : EvictStep(k)
    PROVE  RefreshNext
BY DEF Refresh, FetchStep, CountStep, AbandonStep, PublishStep, EvictStep, RefreshNext

\* A ban request keeps its types.
LEMMA BanKeepsTypes ==
    ASSUME PeerViewAssumption, BanTypes, ClockTypes, NEW b \in Banner, Ban(b)
    PROVE  BanTypes'
<1> USE DEF BanTypes, ClockTypes
<1>1. CASE BanAskedStep(b)
  BY <1>1 DEF BanAskedStep, BanAsked
<1>2. CASE BanFlushedStep(b)
  <2>1. kernel' \subseteq IP
    BY <1>2 DEF BanFlushedStep, BanFlushed
  <2>2. queued' \in [Banner -> SUBSET IP] /\ flushed' \in [Banner -> SUBSET IP]
    BY <1>2 DEF BanFlushedStep, BanFlushed
  <2>3. taken' \in [Banner -> Time]
    BY <1>2 DEF BanFlushedStep
  <2>4. QED
    BY <1>2, <2>1, <2>2, <2>3 DEF BanFlushedStep, BanFlushed
<1>3. CASE BanRefusedStep(b)
  BY <1>3 DEF BanRefusedStep, BanRefused
<1>4. CASE BanRecordedStep(b)
  <2>1. recorded' = recorded \cup flushed[b]
    BY <1>4 DEF BanRecordedStep, BanRecorded
  <2>2. banTime' \in [recorded' -> Time]
    BY <1>4, <2>1 DEF BanRecordedStep
  <2>3. 0 \in Time
    BY DEF Time, PeerViewAssumption
  <2>4. QED
    BY <1>4, <2>1, <2>2, <2>3 DEF BanRecordedStep, BanRecorded
<1>5. CASE BanAnsweredStep(b)
  BY <1>5 DEF BanAnsweredStep, BanAnswered
<1>6. QED
  BY <1>1, <1>2, <1>3, <1>4, <1>5 DEF Ban

\* So does each step of a handler.
LEMMA AskKeepsTypes ==
    ASSUME PeerViewAssumption, AskTypes, ClockTypes, BanTypes, RefreshTypes,
           NEW c \in Client, Ask(c) \/ Handle(c)
    PROVE  AskTypes'
<1> USE DEF AskTypes, Work
<1>1. CASE Ask(c)
  BY <1>1 DEF Ask, ClockTypes, BanTypes, RefreshTypes, oldVars
<1>2. CASE LookUp(c)
  <2>1. DOMAIN status'[c] \subseteq recorded
    BY <1>2, RestrictValue DEF LookUp
  <2>2. QED
    BY <1>2, <2>1 DEF LookUp, BanTypes, oldVars
<1>3. CASE Pick(c)
  BY <1>3 DEF Pick, oldVars
<1>4. CASE Picked(c)
  BY <1>4 DEF Picked, oldVars
<1>5. CASE Shape(c)
  <2>1. PICK k \in todo[c] :
            /\ todo' = [todo EXCEPT ![c] = @ \ {k}]
            /\ answer' = [answer EXCEPT ![c] = PutPeer(@, k, Held(c, k))]
    BY <1>5 DEF Shape
  <2>2. /\ DOMAIN answer' = Client
        /\ DOMAIN answer'[c] \subseteq DOMAIN answer[c] \cup {k}
        /\ \A g \in Client \ {c} : answer'[g] = answer[g]
    BY <2>1, PutPeerValue
  <2>3. QED
    BY <1>5, <2>1, <2>2 DEF Shape, oldVars
<1>6. CASE Reply(c)
  <2>1. 0 \in Time
    BY DEF Time, PeerViewAssumption
  <2>2. /\ answer' = [answer EXCEPT ![c] = None] /\ DOMAIN None = {}
        /\ status' = [status EXCEPT ![c] = None] /\ known' = [known EXCEPT ![c] = None]
        /\ floor' = [floor EXCEPT ![c] = None] /\ orphan' = [orphan EXCEPT ![c] = None]
    BY <1>6 DEF Reply, None
  <2>3. QED
    BY <1>6, <2>1, <2>2 DEF Reply, Answered
<1>7. QED
  BY <1>1, <1>2, <1>3, <1>4, <1>5, <1>6 DEF Handle

\* The cache drops no Peer that a handler does not hold into orphan.
LEMMA EvictKeepsAskTypes ==
    ASSUME AskTypes, NEW k \in Addr, EvictStep(k)
    PROVE  AskTypes'
<1>1. /\ DOMAIN orphan' = Client /\ DOMAIN floor' = Client
      /\ \A c \in Client :
             \/ orphan'[c] = orphan[c]
             \/ k \in picked[c] /\ DOMAIN orphan'[c] = DOMAIN orphan[c] \cup {k}
  BY DEF EvictStep, Set
<1>2. QED
  BY <1>1 DEF EvictStep, AskTypes, Work, askVars

\* The types hold at the start, and every step keeps them.
LEMMA TypesInductive ==
    ASSUME PeerViewAssumption, RefreshAssumption
    PROVE  /\ Init => Types
           /\ Types /\ [Next]_vars => Types'
<1>1. Init => Types
  BY DEF Init, BanInit, RefreshInit, Types, ClockTypes, BanTypes, RefreshTypes,
         AskTypes, Work, None, Time, PeerViewAssumption
<1>2. ASSUME Types, [Next]_vars PROVE Types'
  <2> USE <1>2 DEF Types
  <2>1. CASE Tick
    <3>1. now' \in Time
      BY <2>1 DEF Tick, ClockTypes, Time, PeerViewAssumption
    <3>2. QED
      BY <2>1, <3>1 DEF Tick, ClockTypes, BanTypes, RefreshTypes, AskTypes, Work,
         recordVars, banVars, refreshVars, askVars, oldVars
  <2>2. ASSUME NEW k \in Addr, FallsSilent(k) PROVE Types'
    BY <2>2 DEF FallsSilent, ClockTypes, BanTypes, RefreshTypes, AskTypes, Work,
       recordVars, banVars, refreshVars, askVars, oldVars
  <2>3. CASE Refresh
    <3>1. UNCHANGED viewVars
      BY <2>3 DEF Refresh, FetchStep, CountStep, AbandonStep, PublishStep
    <3>2. RefreshTypes'
      BY <2>3, RefreshIsOne, RefreshKeepsTypes
    <3>3. QED
      BY <3>1, <3>2 DEF ClockTypes, BanTypes, AskTypes, Work, viewVars,
         recordVars, banVars, askVars, oldVars
  <2>4. ASSUME NEW k \in Addr, EvictStep(k) PROVE Types'
    <3>1. RefreshTypes' /\ AskTypes'
      BY <2>4, RefreshIsOne, RefreshKeepsTypes, EvictKeepsAskTypes
    <3>2. QED
      BY <2>4, <3>1 DEF EvictStep, ClockTypes, BanTypes, recordVars, banVars
  <2>5. ASSUME NEW b \in Banner, Ban(b) PROVE Types'
    <3>1. BanTypes'
      BY <2>5, BanKeepsTypes
    <3>2. QED
      BY <2>5, <3>1 DEF Ban, ClockTypes, RefreshTypes, AskTypes, Work, refreshVars,
         askVars, oldVars
  <2>6. ASSUME NEW c \in Client, Ask(c) \/ Handle(c) PROVE Types'
    <3>1. AskTypes'
      BY <2>6, AskKeepsTypes
    <3>2. UNCHANGED <<now, silent, recordVars, refreshVars, cache>>
      BY <2>6 DEF Ask, Handle, LookUp, Pick, Picked, Shape, Reply
    <3>3. QED
      BY <3>1, <3>2 DEF ClockTypes, BanTypes, RefreshTypes, recordVars, banVars,
         refreshVars
  <2>7. CASE UNCHANGED vars
    BY <2>7 DEF vars, viewVars, ClockTypes, BanTypes, RefreshTypes, AskTypes, Work,
       recordVars, banVars, refreshVars, askVars, oldVars
  <2>8. QED
    BY <1>2, <2>1, <2>2, <2>3, <2>4, <2>5, <2>6, <2>7 DEF Next
<1>3. QED
  BY <1>1, <1>2

\* Every variable keeps its type, for any peers, addresses, handlers and bounds.
THEOREM TypeCorrect ==
    PeerViewAssumption /\ RefreshAssumption => (Spec => []TypeOK)
<1> SUFFICES ASSUME PeerViewAssumption, RefreshAssumption PROVE Spec => []TypeOK
  OBVIOUS
<1>1. Types => TypeOK
  BY DEF Types, ClockTypes, BanTypes, RefreshTypes, AskTypes, TypeOK
<1>2. QED
  BY <1>1, TypesInductive, PTL DEF Spec

-----------------------------------------------------------------------------
(* Fresh bans are hidden.                                                  *)

\* No ban time lies in the future, what is acknowledged is on record, and what a
\* request is about is, or is on the way there.
RecordInv ==
    /\ \A i \in recorded : banTime[i] <= now
    /\ \A b \in Banner : taken[b] <= now
    /\ acked \subseteq recorded
    /\ \A b \in Banner : wanted[b] \subseteq recorded \cup queued[b] \cup flushed[b]

\* Time n is no less than one of the ban times of i there were when the request
\* of c began.
NotBefore(c, i, n) == \E t \in known[c][i] : t <= n

\* Such is a ban time on record, and the one that may take its place.
KnownInv ==
    \A c \in Client : \A i \in DOMAIN known[c] :
        /\ i \in recorded /\ known[c][i] \subseteq Time
        /\ NotBefore(c, i, banTime[i])
        /\ \A b \in Banner : i \in flushed[b] => NotBefore(c, i, taken[b])

\* So is what the handler of that request found.
StatusInv ==
    \A c \in Client : ask[c] \in {"pick", "shape"} =>
        \A k \in snap[c] : IPOf[k] \in DOMAIN known[c] =>
            /\ IPOf[k] \in DOMAIN status[c] /\ status[c][IPOf[k]] \in Time
            /\ NotBefore(c, IPOf[k], status[c][IPOf[k]])

\* It leaves out the peers that were banned recently by then.
PickedInv ==
    \A c \in Client : \A k \in picked[c] :
        IPOf[k] \in DOMAIN known[c] =>
            \E t \in known[c][IPOf[k]] : t + Skip <= asked[c]

HideInv == RecordInv /\ KnownInv /\ StatusInv /\ PickedInv

\* A ban request takes nothing off the record, and dates nothing later than now.
LEMMA RecordKept ==
    ASSUME PeerViewAssumption, Types, RecordInv, NEW b \in Banner, Ban(b)
    PROVE  RecordInv' /\ recorded \subseteq recorded'
<1> USE DEF Types, ClockTypes, BanTypes, Time, PeerViewAssumption
<1>1. now' = now
  BY DEF Ban
<1>2. CASE BanAskedStep(b)
  <2>1. PICK W \in SUBSET IP, S \in SUBSET IP :
            /\ W \ S \subseteq recorded
            /\ wanted' = [wanted EXCEPT ![b] = W]
            /\ queued' = [queued EXCEPT ![b] = S]
    BY <1>2 DEF BanAskedStep, BanAsked
  <2>2. UNCHANGED <<recorded, flushed, banTime, taken, acked>>
    BY <1>2 DEF BanAskedStep, BanAsked
  <2>3. QED
    BY <1>1, <2>1, <2>2 DEF RecordInv
<1>3. CASE BanFlushedStep(b)
  <2>1. PICK S \in SUBSET queued[b] :
            /\ flushed' = [flushed EXCEPT ![b] = S]
            /\ queued' = [queued EXCEPT ![b] = @ \ S]
    BY <1>3 DEF BanFlushedStep, BanFlushed
  <2>2. flushed[b] = {} /\ UNCHANGED <<recorded, wanted, banTime, acked>>
    BY <1>3 DEF BanFlushedStep, BanFlushed
  <2>3. \A g \in Banner : taken'[g] \in {taken[g], now}
    BY <1>3 DEF BanFlushedStep
  <2>4. QED
    BY <1>1, <2>1, <2>2, <2>3 DEF RecordInv
<1>4. CASE BanRefusedStep(b)
  BY <1>1, <1>4 DEF BanRefusedStep, BanRefused, RecordInv
<1>5. CASE BanRecordedStep(b)
  <2>1. /\ acked' = acked /\ recorded' = recorded \cup flushed[b]
        /\ UNCHANGED <<wanted, queued>>
        /\ flushed' = [flushed EXCEPT ![b] = {}]
    BY <1>5 DEF BanRecordedStep, BanRecorded
  <2>2. \A i \in recorded' :
            banTime'[i] = IF i \in flushed[b] THEN taken[b] ELSE banTime[i]
    BY <1>5 DEF BanRecordedStep
  <2>3. \A g \in Banner : taken'[g] \in {taken[g], 0}
    BY <1>5 DEF BanRecordedStep
  <2>4. QED
    BY <1>1, <2>1, <2>2, <2>3 DEF RecordInv
<1>6. CASE BanAnsweredStep(b)
  BY <1>1, <1>6 DEF BanAnsweredStep, BanAnswered, RecordInv
<1>7. QED
  BY <1>2, <1>3, <1>4, <1>5, <1>6 DEF Ban

\* What it puts on record is now's time, or one that every request which knew of
\* the address knew of as well.
LEMMA KnownKept ==
    ASSUME PeerViewAssumption, Types, HideInv, NEW b \in Banner, Ban(b)
    PROVE  KnownInv'
<1> USE DEF Types, ClockTypes, BanTypes, HideInv
<1> SUFFICES ASSUME NEW c \in Client, NEW i \in DOMAIN known[c]
             PROVE  /\ i \in recorded'
                    /\ NotBefore(c, i, banTime'[i])
                    /\ \A g \in Banner : i \in flushed'[g] => NotBefore(c, i, taken'[g])
  <2>1. known' = known
    BY DEF Ban, askVars
  <2>2. QED
    BY <2>1 DEF KnownInv, NotBefore
<1>1. /\ i \in recorded /\ NotBefore(c, i, banTime[i])
      /\ \A g \in Banner : i \in flushed[g] => NotBefore(c, i, taken[g])
  BY DEF KnownInv
<1>2. i \in recorded'
  BY <1>1, RecordKept
<1>3. CASE BanAskedStep(b) \/ BanRefusedStep(b) \/ BanAnsweredStep(b)
  BY <1>1, <1>2, <1>3 DEF BanAskedStep, BanAsked, BanRefusedStep, BanRefused,
     BanAnsweredStep, BanAnswered
<1>4. CASE BanFlushedStep(b)
  <2>1. banTime' = banTime
    BY <1>4 DEF BanFlushedStep
  <2>2. NotBefore(c, i, now)
    BY <1>1 DEF NotBefore, KnownInv, RecordInv, Time, PeerViewAssumption
  <2>3. \A g \in Banner : i \in flushed'[g] =>
            taken'[g] = now \/ (i \in flushed[g] /\ taken'[g] = taken[g])
    BY <1>4 DEF BanFlushedStep, BanFlushed
  <2>4. QED
    BY <1>1, <1>2, <2>1, <2>2, <2>3
<1>5. CASE BanRecordedStep(b)
  <2>1. banTime'[i] = IF i \in flushed[b] THEN taken[b] ELSE banTime[i]
    BY <1>2, <1>5 DEF BanRecordedStep
  <2>2. NotBefore(c, i, banTime'[i])
    BY <1>1, <2>1
  <2>3. \A g \in Banner : i \in flushed'[g] => g # b /\ i \in flushed[g]
    BY <1>5 DEF BanRecordedStep, BanRecorded
  <2>4. \A g \in Banner \ {b} : taken'[g] = taken[g]
    BY <1>5 DEF BanRecordedStep
  <2>5. QED
    BY <1>1, <1>2, <2>2, <2>3, <2>4
<1>6. QED
  BY <1>3, <1>4, <1>5 DEF Ban

\* A handler takes over what is on record, and lets pass what it should.
LEMMA AskKeepsHideInv ==
    ASSUME PeerViewAssumption, Types, HideInv, NEW c \in Client, Ask(c) \/ Handle(c)
    PROVE  HideInv'
<1> USE DEF Types, AskTypes, Work
<1>1. RecordInv'
  <2>1. UNCHANGED <<now, recordVars>>
    BY DEF Ask, Handle, LookUp, Pick, Picked, Shape, Reply
  <2>2. QED
    BY <2>1 DEF HideInv, RecordInv, recordVars, banVars
<1>2. CASE Ask(c)
  <2>1. KnownInv'
    <3>1. known' = [known EXCEPT ![c] = [i \in recorded |-> BanTimes(i)]]
      BY <1>2 DEF Ask
    <3>2. \A i \in recorded :
              /\ BanTimes(i) \subseteq Time
              /\ \E t \in BanTimes(i) : t <= banTime[i]
              /\ \A b \in Banner : i \in flushed[b]
                     => \E t \in BanTimes(i) : t <= taken[b]
      <4>1. \A b \in Banner : taken[b] \in Time /\ taken[b] <= taken[b]
        BY DEF BanTypes, Time, PeerViewAssumption
      <4>2. \A i \in recorded : banTime[i] \in Time /\ banTime[i] <= banTime[i]
        BY DEF BanTypes, Time, PeerViewAssumption
      <4>3. QED
        BY <4>1, <4>2 DEF BanTimes
    <3>3. UNCHANGED <<recorded, flushed, banTime, taken>>
      BY <1>2 DEF Ask, recordVars, banVars
    <3>4. QED
      BY <3>1, <3>2, <3>3 DEF HideInv, KnownInv, NotBefore
  <2>2. StatusInv'
    BY <1>2 DEF Ask, HideInv, StatusInv, NotBefore
  <2>3. PickedInv'
    BY <1>2 DEF Ask, HideInv, PickedInv
  <2>4. QED
    BY <1>1, <2>1, <2>2, <2>3 DEF HideInv
<1>3. CASE LookUp(c)
  <2>1. KnownInv' /\ PickedInv'
    BY <1>3 DEF LookUp, HideInv, KnownInv, PickedInv, NotBefore, recordVars, banVars
  <2>2. \A i \in {IPOf[k] : k \in snap[c]} \cap recorded :
            i \in DOMAIN status'[c] /\ status'[c][i] = banTime[i]
    BY <1>3, RestrictValue DEF LookUp
  <2>3. StatusInv'
    <3>1. ASSUME NEW g \in Client \ {c}
          PROVE  ask'[g] = ask[g] /\ status'[g] = status[g]
      BY <1>3 DEF LookUp
    <3>2. snap' = snap /\ known' = known
      BY <1>3 DEF LookUp
    <3>3. ASSUME NEW k \in snap[c], IPOf[k] \in DOMAIN known[c]
          PROVE  /\ IPOf[k] \in DOMAIN status'[c] /\ status'[c][IPOf[k]] \in Time
                 /\ NotBefore(c, IPOf[k], status'[c][IPOf[k]])
      BY <2>2, <3>3 DEF HideInv, KnownInv, BanTypes
    <3>4. QED
      BY <3>1, <3>2, <3>3 DEF HideInv, StatusInv, NotBefore
  <2>4. QED
    BY <1>1, <2>1, <2>3 DEF HideInv
<1>4. CASE Pick(c)
  <2>1. KnownInv' /\ StatusInv'
    BY <1>4 DEF Pick, HideInv, KnownInv, StatusInv, NotBefore, recordVars, banVars
  <2>2. PICK k \in todo[c] :
            picked' = [picked EXCEPT ![c] =
                IF k \in DOMAIN cache /\ ~Hidden(c, k) THEN @ \cup {k} ELSE @]
    BY <1>4 DEF Pick
  <2>3. k \in snap[c] /\ ask[c] = "pick"
    BY <1>4, <2>2 DEF Pick
  <2>4. IPOf[k] \in DOMAIN known[c] /\ ~Hidden(c, k)
            => \E t \in known[c][IPOf[k]] : t + Skip <= asked[c]
    BY <2>3 DEF HideInv, StatusInv, KnownInv, NotBefore, Hidden, Recent, Banned, Time,
       PeerViewAssumption
  <2>5. PickedInv'
    BY <1>4, <2>2, <2>4 DEF Pick, HideInv, PickedInv
  <2>6. QED
    BY <1>1, <2>1, <2>5 DEF HideInv
<1>5. CASE Picked(c)
  BY <1>1, <1>5 DEF Picked, HideInv, KnownInv, StatusInv, PickedInv, NotBefore,
     recordVars, banVars
<1>6. CASE Shape(c)
  BY <1>1, <1>6 DEF Shape, HideInv, KnownInv, StatusInv, PickedInv, NotBefore,
     recordVars, banVars
<1>7. CASE Reply(c)
  <2>1. known' = [known EXCEPT ![c] = None] /\ DOMAIN None = {}
    BY <1>7 DEF Reply, None
  <2>2. QED
    BY <1>1, <1>7, <2>1
       DEF Reply, HideInv, KnownInv, StatusInv, PickedInv, NotBefore, recordVars, banVars
<1>8. QED
  BY <1>2, <1>3, <1>4, <1>5, <1>6, <1>7 DEF Handle

\* An acknowledged ban hides its peers from the requests of the next
\* skipIPsDuration, for any number of peers, handlers and ban requests.
THEOREM FreshBansHidden ==
    PeerViewAssumption /\ RefreshAssumption => (Spec => []AckedHidden)
<1> SUFFICES ASSUME PeerViewAssumption, RefreshAssumption PROVE Spec => []AckedHidden
  OBVIOUS
<1>1. Init => HideInv
  BY DEF Init, BanInit, HideInv, RecordInv, KnownInv, StatusInv, PickedInv, None
<1>2. Types /\ HideInv /\ [Next]_vars => HideInv'
  <2> SUFFICES ASSUME Types, HideInv, [Next]_vars PROVE HideInv'
    OBVIOUS
  <2>1. CASE Tick
    BY <2>1 DEF Tick, HideInv, RecordInv, KnownInv, StatusInv, PickedInv, NotBefore,
       recordVars, banVars, askVars, Types, ClockTypes, BanTypes, Time, PeerViewAssumption
  <2>2. CASE UNCHANGED <<now, recordVars, askVars>>
    BY <2>2 DEF HideInv, RecordInv, KnownInv, StatusInv, PickedInv, NotBefore, recordVars,
       banVars, askVars
  <2>3. ASSUME NEW b \in Banner, Ban(b) PROVE HideInv'
    <3>1. RecordInv'
      BY <2>3, RecordKept DEF HideInv
    <3>2. UNCHANGED askVars
      BY <2>3 DEF Ban
    <3>3. KnownInv'
      BY <2>3, KnownKept
    <3>4. StatusInv' /\ PickedInv'
      BY <3>2 DEF HideInv, StatusInv, PickedInv, NotBefore, askVars
    <3>5. QED
      BY <3>1, <3>3, <3>4 DEF HideInv
  <2>4. ASSUME NEW c \in Client, Ask(c) \/ Handle(c) PROVE HideInv'
    BY <2>4, AskKeepsHideInv
  <2>5. ASSUME Refresh \/ \E k \in Addr : FallsSilent(k) \/ EvictStep(k)
        PROVE  UNCHANGED <<now, recordVars, askVars>>
    BY <2>5 DEF Refresh, FetchStep, CountStep, AbandonStep, PublishStep, viewVars,
       FallsSilent, EvictStep
  <2>6. QED
    BY <2>1, <2>2, <2>3, <2>4, <2>5 DEF Next, vars, viewVars
<1>3. Types /\ HideInv => AckedHidden
  BY DEF Types, AskTypes, HideInv, RecordInv, PickedInv, AckedHidden
<1>4. QED
  BY <1>1, <1>2, <1>3, TypesInductive, PTL DEF Spec

-----------------------------------------------------------------------------
(* Counters in an answer do not go back.                                   *)

\* A peer that was cached when a request began, and has been ever since, is
\* no handler's orphan, and its counters are no less than they were.
FloorInv ==
    \A c \in Client : \A k \in DOMAIN floor[c] :
        /\ k \in DOMAIN cache /\ k \notin DOMAIN orphan[c]
        /\ floor[c][k] \in Counters /\ AtMost(floor[c][k], cache[k].count)

\* A Peer a handler points to is in the cache, or it is an orphan.
HeldInv ==
    \A c \in Client :
        /\ \A k \in DOMAIN orphan[c] : orphan[c][k] \in Counters
        /\ \A k \in picked[c] : k \in DOMAIN orphan[c] \cup DOMAIN cache

AnswerInv ==
    \A c \in Client : \A k \in DOMAIN answer[c] :
        /\ answer[c][k] \in Counters /\ AtMost(answer[c][k], Held(c, k))
        /\ k \in DOMAIN floor[c] => AtMost(floor[c][k], answer[c][k])

CountInv == FloorInv /\ HeldInv /\ AnswerInv

\* Being no more orders the counters.
LEMMA AtMostOrders ==
    ASSUME RefreshAssumption, NEW m \in Counters
    PROVE  /\ AtMost(m, m)
           /\ \A n \in Counters, p \in Counters :
                  AtMost(m, n) /\ AtMost(n, p) => AtMost(m, p)
<1>1. \A n \in Counters : \A d \in Directions : n[d] \in Nat
  BY DEF Counters, RefreshAssumption
<1>2. QED
  BY <1>1 DEF AtMost

\* A refresh drops nothing from the cache and sets no counter back.
LEMMA CacheGrows ==
    ASSUME RefreshAssumption, RefreshTypes, Refresh
    PROVE  /\ UNCHANGED <<askVars, oldVars>>
           /\ DOMAIN cache \subseteq DOMAIN cache'
           /\ \A k \in DOMAIN cache :
                  /\ cache[k].count \in Counters /\ cache'[k].count \in Counters
                  /\ AtMost(cache[k].count, cache'[k].count)
<1>1. \A k \in DOMAIN cache :
          cache[k].count \in Counters /\ AtMost(cache[k].count, cache[k].count)
  BY AtMostOrders DEF RefreshTypes
<1>2. UNCHANGED <<askVars, oldVars>>
  BY DEF Refresh, FetchStep, CountStep, AbandonStep, PublishStep, viewVars
<1>3. CASE UNCHANGED cache
  BY <1>1, <1>2, <1>3
<1>4. ASSUME NEW j \in Addr, CountPeer(j)
      PROVE  /\ DOMAIN cache \subseteq DOMAIN cache'
             /\ \A k \in DOMAIN cache :
                    /\ cache'[k].count \in Counters
                    /\ AtMost(cache[k].count, cache'[k].count)
  <2>1. j \in DOMAIN resp
    BY <1>4 DEF CountPeer, RefreshTypes
  <2>2. /\ DOMAIN cache' = DOMAIN cache \cup {j}
        /\ \A k \in DOMAIN cache : cache'[k] = IF k = j THEN Counted(j) ELSE cache[k]
    BY <1>4 DEF CountPeer, Set
  <2>3. ASSUME j \in DOMAIN cache
        PROVE  Counted(j).count \in Counters /\ AtMost(cache[j].count, Counted(j).count)
    <3>1. Counted(j).count \in Counters
      BY <2>1, CountedType
    <3>2. ASSUME NEW d \in Directions
          PROVE  cache[j].count[d] <= Counted(j).count[d]
      <4>1. Before(j, d) = cache[j].count[d]
        BY <2>3 DEF Before
      <4>2. QED
        BY <2>1, <4>1, CountGrows
    <3>3. QED
      BY <3>1, <3>2 DEF AtMost
  <2>4. QED
    BY <1>1, <2>2, <2>3
<1>5. QED
  BY <1>1, <1>2, <1>3, <1>4
     DEF Refresh, FetchStep, CountStep, AbandonStep, PublishStep, Fetch, Publish, Abandon

\* So it keeps what relates the answers to the counters.
LEMMA RefreshKeepsCountInv ==
    ASSUME RefreshAssumption, Types, CountInv, Refresh
    PROVE  CountInv'
<1>1. /\ UNCHANGED <<askVars, oldVars>>
      /\ DOMAIN cache \subseteq DOMAIN cache'
      /\ \A k \in DOMAIN cache :
             /\ cache[k].count \in Counters /\ cache'[k].count \in Counters
             /\ AtMost(cache[k].count, cache'[k].count)
  BY CacheGrows DEF Types
<1>2. FloorInv'
  BY <1>1, AtMostOrders DEF CountInv, FloorInv, askVars, oldVars
<1>3. HeldInv'
  BY <1>1 DEF CountInv, HeldInv, askVars, oldVars
<1>4. ASSUME NEW c \in Client, NEW k \in DOMAIN answer[c]
      PROVE  /\ Held(c, k)' \in Counters /\ Held(c, k) \in Counters
             /\ AtMost(Held(c, k), Held(c, k)')
  <2>1. orphan' = orphan
    BY <1>1 DEF oldVars
  <2>2. CASE k \in DOMAIN orphan[c]
    <3>1. orphan[c][k] \in Counters
      BY <2>2 DEF CountInv, HeldInv
    <3>2. QED
      BY <2>1, <2>2, <3>1, AtMostOrders DEF Held
  <2>3. CASE k \notin DOMAIN orphan[c]
    <3>1. k \in DOMAIN cache
      BY <2>3 DEF CountInv, HeldInv, Types, AskTypes
    <3>2. QED
      BY <1>1, <2>1, <2>3, <3>1 DEF Held
  <2>4. QED
    BY <2>2, <2>3
<1>5. AnswerInv'
  <2> SUFFICES ASSUME NEW c \in Client, NEW k \in DOMAIN answer[c]
               PROVE  /\ answer[c][k] \in Counters /\ AtMost(answer[c][k], Held(c, k)')
                      /\ k \in DOMAIN floor[c] => AtMost(floor[c][k], answer[c][k])
    BY <1>1 DEF AnswerInv, askVars, oldVars
  <2>1. /\ answer[c][k] \in Counters /\ AtMost(answer[c][k], Held(c, k))
        /\ k \in DOMAIN floor[c] => AtMost(floor[c][k], answer[c][k])
    BY DEF CountInv, AnswerInv
  <2>2. QED
    BY <1>4, <2>1, AtMostOrders
<1>6. QED
  BY <1>2, <1>3, <1>5 DEF CountInv

\* A handler's Peer keeps its counter when the cache drops it.
LEMMA EvictKeepsCountInv ==
    ASSUME Types, CountInv, NEW j \in Addr, EvictStep(j)
    PROVE  CountInv'
<1> USE DEF Types, AskTypes, Work, RefreshTypes
<1>1. /\ DOMAIN cache' = DOMAIN cache \ {j}
      /\ \A k \in DOMAIN cache' : cache'[k] = cache[k]
      /\ UNCHANGED askVars
  BY RestrictValue DEF EvictStep, Evict
<1>2. \A c \in Client :
          /\ DOMAIN floor'[c] = DOMAIN floor[c] \ {j}
          /\ \A k \in DOMAIN floor'[c] : floor'[c][k] = floor[c][k]
  BY RestrictValue DEF EvictStep, Evict
<1>3. \A c \in Client :
          /\ DOMAIN orphan[c] \subseteq DOMAIN orphan'[c]
          /\ DOMAIN orphan'[c] \subseteq DOMAIN orphan[c] \cup {j}
          /\ j \in picked[c] => j \in DOMAIN orphan'[c]
          /\ \A k \in DOMAIN orphan[c] : orphan'[c][k] = orphan[c][k]
          /\ j \in DOMAIN orphan'[c] \ DOMAIN orphan[c] => orphan'[c][j] = cache[j].count
  BY DEF EvictStep, Set
<1>4. cache[j].count \in Counters
  BY DEF EvictStep, Evict
<1>5. FloorInv'
  BY <1>1, <1>2, <1>3 DEF CountInv, FloorInv
<1>6. HeldInv'
  BY <1>1, <1>3, <1>4 DEF CountInv, HeldInv, askVars
<1>7. ASSUME NEW c \in Client, NEW k \in DOMAIN answer[c]
      PROVE  Held(c, k)' = Held(c, k)
  <2>1. k \in picked[c] /\ k \in DOMAIN orphan[c] \cup DOMAIN cache
    BY DEF CountInv, HeldInv
  <2>2. CASE k \in DOMAIN orphan[c]
    BY <1>3, <2>2 DEF Held
  <2>3. CASE k \notin DOMAIN orphan[c] /\ k = j
    BY <1>3, <2>1, <2>3 DEF Held
  <2>4. CASE k \notin DOMAIN orphan[c] /\ k # j
    <3>1. k \notin DOMAIN orphan'[c]
      BY <1>3, <2>4
    <3>2. k \in DOMAIN cache'
      BY <1>1, <2>1, <2>4
    <3>3. QED
      BY <1>1, <2>4, <3>1, <3>2 DEF Held
  <2>5. QED
    BY <2>2, <2>3, <2>4
<1>8. AnswerInv'
  BY <1>1, <1>2, <1>7 DEF CountInv, AnswerInv, askVars
<1>9. QED
  BY <1>5, <1>6, <1>8 DEF CountInv

\* A handler answers with what the Peers hold.
LEMMA AskKeepsCountInv ==
    ASSUME RefreshAssumption, Types, CountInv, NEW c \in Client, Ask(c) \/ Handle(c)
    PROVE  CountInv'
<1> USE DEF Types, AskTypes, Work, RefreshTypes
<1>1. cache' = cache
  BY DEF Ask, Handle, LookUp, Pick, Picked, Shape, Reply
<1>2. CASE Ask(c)
  <2>1. /\ DOMAIN floor' = Client
        /\ \A g \in Client \ {c} : floor'[g] = floor[g]
        /\ floor'[c] = [k \in table \cap DOMAIN cache |-> cache[k].count]
    BY <1>2 DEF Ask
  <2>2. /\ DOMAIN orphan[c] = {} /\ DOMAIN answer[c] = {}
        /\ orphan' = orphan /\ picked' = picked /\ answer' = answer
    BY <1>2 DEF Ask
  <2>3. FloorInv'
    <3>1. \A k \in DOMAIN cache :
              cache[k].count \in Counters /\ AtMost(cache[k].count, cache[k].count)
      BY AtMostOrders
    <3>2. QED
      BY <1>1, <2>1, <2>2, <3>1 DEF CountInv, FloorInv
  <2>4. HeldInv'
    BY <1>1, <2>2 DEF CountInv, HeldInv
  <2>5. AnswerInv'
    BY <1>1, <2>1, <2>2 DEF CountInv, AnswerInv, Held
  <2>6. QED
    BY <2>3, <2>4, <2>5 DEF CountInv
<1>3. CASE LookUp(c) \/ Picked(c)
  BY <1>1, <1>3 DEF LookUp, Picked, CountInv, FloorInv, HeldInv, AnswerInv, Held, oldVars
<1>4. CASE Pick(c)
  <2>1. /\ picked'[c] \subseteq picked[c] \cup DOMAIN cache
        /\ \A g \in Client \ {c} : picked'[g] = picked[g]
    BY <1>4 DEF Pick
  <2>2. HeldInv'
    BY <1>1, <1>4, <2>1 DEF Pick, CountInv, HeldInv, oldVars
  <2>3. QED
    BY <1>1, <1>4, <2>2 DEF Pick, CountInv, FloorInv, AnswerInv, Held, oldVars
<1>5. CASE Shape(c)
  <2>1. PICK j \in todo[c] : answer' = [answer EXCEPT ![c] = PutPeer(@, j, Held(c, j))]
    BY <1>5 DEF Shape
  <2>2. /\ DOMAIN answer'[c] \subseteq DOMAIN answer[c] \cup {j}
        /\ \A k \in DOMAIN answer'[c] :
               answer'[c][k] = IF k = j THEN Held(c, j) ELSE answer[c][k]
        /\ \A g \in Client \ {c} : answer'[g] = answer[g]
    BY <2>1, PutPeerValue
  <2>3. j \in picked[c]
    BY <1>5, <2>1 DEF Shape
  <2>4. /\ Held(c, j) \in Counters /\ AtMost(Held(c, j), Held(c, j))
        /\ j \in DOMAIN floor[c] => AtMost(floor[c][j], Held(c, j))
    <3>1. Held(c, j) \in Counters
      BY <2>3 DEF CountInv, HeldInv, Held
    <3>2. j \in DOMAIN floor[c] => AtMost(floor[c][j], Held(c, j))
      BY DEF CountInv, FloorInv, Held
    <3>3. QED
      BY <3>1, <3>2, AtMostOrders
  <2>5. \A g \in Client : \A k \in DOMAIN answer'[g] : Held(g, k)' = Held(g, k)
    BY <1>1, <1>5 DEF Shape, Held, oldVars
  <2>6. AnswerInv'
    BY <1>5, <2>2, <2>4, <2>5 DEF Shape, CountInv, AnswerInv, oldVars
  <2>7. QED
    BY <1>1, <1>5, <2>6 DEF Shape, CountInv, FloorInv, HeldInv, oldVars
<1>6. CASE Reply(c)
  <2>1. /\ DOMAIN None = {}
        /\ answer' = [answer EXCEPT ![c] = None] /\ floor' = [floor EXCEPT ![c] = None]
        /\ orphan' = [orphan EXCEPT ![c] = None] /\ picked' = [picked EXCEPT ![c] = {}]
    BY <1>6 DEF Reply, None
  <2>2. /\ DOMAIN answer'[c] = {} /\ DOMAIN floor'[c] = {}
        /\ DOMAIN orphan'[c] = {} /\ picked'[c] = {}
        /\ \A g \in Client \ {c} :
               /\ answer'[g] = answer[g] /\ floor'[g] = floor[g]
               /\ orphan'[g] = orphan[g] /\ picked'[g] = picked[g]
    BY <2>1
  <2>3. FloorInv' /\ HeldInv'
    BY <1>1, <2>2 DEF CountInv, FloorInv, HeldInv
  <2>4. AnswerInv'
    BY <1>1, <2>2 DEF CountInv, AnswerInv, Held
  <2>5. QED
    BY <2>3, <2>4 DEF CountInv
<1>7. QED
  BY <1>2, <1>3, <1>4, <1>5, <1>6 DEF Handle

\* Counters are current at the start, and every step keeps them so.
LEMMA CountInductive ==
    ASSUME RefreshAssumption
    PROVE  /\ Init => CountInv
           /\ Types /\ CountInv /\ [Next]_vars => CountInv'
<1>1. Init => CountInv
  BY DEF Init, CountInv, FloorInv, HeldInv, AnswerInv, None
<1>2. ASSUME Types, CountInv, [Next]_vars PROVE CountInv'
  <2>1. CASE UNCHANGED <<cache, askVars, oldVars>>
    BY <1>2, <2>1 DEF CountInv, FloorInv, HeldInv, AnswerInv, Held, askVars, oldVars
  <2>2. CASE Refresh
    BY <1>2, <2>2, RefreshKeepsCountInv
  <2>3. ASSUME NEW k \in Addr, EvictStep(k) PROVE CountInv'
    BY <1>2, <2>3, EvictKeepsCountInv
  <2>4. ASSUME NEW c \in Client, Ask(c) \/ Handle(c) PROVE CountInv'
    BY <1>2, <2>4, AskKeepsCountInv
  <2>5. ASSUME \/ Tick \/ (\E b \in Banner : Ban(b)) \/ UNCHANGED vars
               \/ \E k \in Addr : FallsSilent(k)
        PROVE  UNCHANGED <<cache, askVars, oldVars>>
    BY <2>5 DEF Tick, Ban, FallsSilent, vars, viewVars
  <2>6. QED
    BY <1>2, <2>1, <2>2, <2>3, <2>4, <2>5 DEF Next
<1>3. QED
  BY <1>1, <1>2

\* Counters in an answer are no older than the request and no newer than the
\* Peer, for any peers, handlers, refreshes and evictions.
THEOREM CountsNotOlder ==
    PeerViewAssumption /\ RefreshAssumption => (Spec => []CountsCurrent)
<1> SUFFICES ASSUME PeerViewAssumption, RefreshAssumption PROVE Spec => []CountsCurrent
  OBVIOUS
<1>1. CountInv => CountsCurrent
  BY DEF CountInv, AnswerInv, CountsCurrent
<1>2. QED
  BY <1>1, TypesInductive, CountInductive, PTL DEF Spec

-----------------------------------------------------------------------------
(* Nobody else is hidden.                                                  *)

\* A peer is in the answer, or one that has its key.
InPlace(c, k) == \E l \in DOMAIN answer[c] : KeyOf[l] = KeyOf[k]

\* What a handler found banned is on record, and a cached peer that is not on
\* record is where the handler has not been yet, or where it belongs.
ShownInv ==
    \A c \in Client :
        /\ ask[c] = "pick" => DOMAIN status[c] \subseteq recorded
        /\ DOMAIN floor[c] \subseteq snap[c]
        /\ \A k \in DOMAIN floor[c] : IPOf[k] \notin recorded =>
               /\ ask[c] = "pick" => k \in todo[c] \cup picked[c]
               /\ ask[c] = "shape" => k \in todo[c] \/ InPlace(c, k)

\* A handler passes on the peers that were cached all along and not banned.
LEMMA AskKeepsShownInv ==
    ASSUME Types, CountInv, ShownInv, NEW c \in Client, Ask(c) \/ Handle(c)
    PROVE  ShownInv'
<1> USE DEF Types, AskTypes, Work
<1>1. recorded' = recorded
  BY DEF Ask, Handle, LookUp, Pick, Picked, Shape, Reply, recordVars, banVars
<1>2. CASE Ask(c)
  <2>1. /\ \A g \in Client \ {c} : floor'[g] = floor[g]
        /\ DOMAIN floor'[c] \subseteq table
    BY <1>2 DEF Ask
  <2>2. QED
    BY <1>1, <1>2, <2>1 DEF Ask, ShownInv, InPlace
<1>3. CASE LookUp(c)
  <2>1. DOMAIN status'[c] \subseteq recorded
    BY <1>3, RestrictValue DEF LookUp
  <2>2. QED
    BY <1>1, <1>3, <2>1 DEF LookUp, ShownInv, InPlace, oldVars
<1>4. CASE Pick(c)
  <2>1. PICK j \in todo[c] :
            /\ todo' = [todo EXCEPT ![c] = @ \ {j}]
            /\ picked' = [picked EXCEPT ![c] =
                   IF j \in DOMAIN cache /\ ~Hidden(c, j) THEN @ \cup {j} ELSE @]
    BY <1>4 DEF Pick
  <2>2. j \in DOMAIN floor[c] /\ IPOf[j] \notin recorded => j \in picked'[c]
    BY <1>4, <2>1 DEF Pick, Hidden, Banned, ShownInv, CountInv, FloorInv
  <2>3. picked[c] \subseteq picked'[c] /\ todo[c] \subseteq todo'[c] \cup {j}
    BY <2>1
  <2>4. \A g \in Client \ {c} : picked'[g] = picked[g] /\ todo'[g] = todo[g]
    BY <2>1
  <2>5. QED
    BY <1>1, <1>4, <2>2, <2>3, <2>4 DEF Pick, ShownInv, InPlace, oldVars
<1>5. CASE Picked(c)
  BY <1>1, <1>5 DEF Picked, ShownInv, InPlace, oldVars
<1>6. CASE Shape(c)
  <2>1. PICK j \in todo[c] :
            /\ todo' = [todo EXCEPT ![c] = @ \ {j}]
            /\ answer' = [answer EXCEPT ![c] = PutPeer(@, j, Held(c, j))]
    BY <1>6 DEF Shape
  <2>2. /\ j \in DOMAIN answer'[c]
        /\ \A l \in DOMAIN answer[c] : l \in DOMAIN answer'[c] \/ KeyOf[l] = KeyOf[j]
        /\ todo[c] \subseteq todo'[c] \cup {j}
        /\ \A g \in Client \ {c} : answer'[g] = answer[g] /\ todo'[g] = todo[g]
    BY <2>1, PutPeerValue
  <2>3. ASSUME NEW k, InPlace(c, k) PROVE InPlace(c, k)'
    BY <2>2, <2>3 DEF InPlace
  <2>4. InPlace(c, j)'
    BY <2>2 DEF InPlace
  <2>5. \A g \in Client \ {c} : \A k : InPlace(g, k)' <=> InPlace(g, k)
    BY <2>2 DEF InPlace
  <2>6. QED
    BY <1>1, <1>6, <2>2, <2>3, <2>4, <2>5 DEF Shape, ShownInv, oldVars
<1>7. CASE Reply(c)
  <2>1. /\ floor' = [floor EXCEPT ![c] = None] /\ DOMAIN None = {}
        /\ ask' = [ask EXCEPT ![c] = "idle"]
        /\ status' = [status EXCEPT ![c] = None] /\ snap' = [snap EXCEPT ![c] = {}]
        /\ answer' = [answer EXCEPT ![c] = None] /\ picked' = [picked EXCEPT ![c] = {}]
        /\ todo' = todo
    BY <1>7 DEF Reply, None
  <2>2. QED
    BY <1>1, <2>1 DEF ShownInv, InPlace
<1>8. QED
  BY <1>2, <1>3, <1>4, <1>5, <1>6, <1>7 DEF Handle

\* An answer lacks no peer that was cached all along and is not on record, unless
\* one with the same key is in its place, for any peers, keys, handlers, refreshes,
\* evictions and ban requests.
THEOREM OthersShown ==
    PeerViewAssumption /\ RefreshAssumption => (Spec => []UnbannedShown)
<1> SUFFICES ASSUME PeerViewAssumption, RefreshAssumption PROVE Spec => []UnbannedShown
  OBVIOUS
<1>1. Init => ShownInv
  BY DEF Init, BanInit, ShownInv, InPlace, None
<1>2. ASSUME Types, CountInv, ShownInv, [Next]_vars PROVE ShownInv'
  <2>1. CASE UNCHANGED <<recorded, askVars, floor>>
    BY <1>2, <2>1 DEF ShownInv, InPlace, askVars
  <2>2. ASSUME NEW b \in Banner, Ban(b) PROVE ShownInv'
    <3>1. recorded \subseteq recorded' /\ UNCHANGED <<askVars, floor>>
      BY <2>2 DEF Ban, BanAskedStep, BanAsked, BanFlushedStep, BanFlushed,
         BanRefusedStep, BanRefused, BanRecordedStep, BanRecorded, BanAnsweredStep,
         BanAnswered, oldVars
    <3>2. QED
      BY <1>2, <3>1 DEF ShownInv, InPlace, askVars
  <2>3. ASSUME NEW k \in Addr, EvictStep(k) PROVE ShownInv'
    <3>1. \A c \in Client : DOMAIN floor'[c] = DOMAIN floor[c] \ {k}
      BY <2>3, RestrictValue DEF EvictStep
    <3>2. UNCHANGED <<recorded, ask, snap, todo, status, picked, answer>>
      BY <2>3 DEF EvictStep, askVars, recordVars, banVars
    <3>3. \A c \in Client : \A l : InPlace(c, l)' <=> InPlace(c, l)
      BY <3>2 DEF InPlace
    <3>4. QED
      BY <1>2, <3>1, <3>2, <3>3 DEF ShownInv
  <2>4. ASSUME NEW c \in Client, Ask(c) \/ Handle(c) PROVE ShownInv'
    BY <1>2, <2>4, AskKeepsShownInv
  <2>5. ASSUME \/ Tick \/ Refresh \/ UNCHANGED vars
               \/ \E k \in Addr : FallsSilent(k)
        PROVE  UNCHANGED <<recorded, askVars, floor>>
    BY <2>5 DEF Tick, Refresh, FetchStep, CountStep, AbandonStep, PublishStep,
       FallsSilent, vars, viewVars, recordVars, banVars, oldVars
  <2>6. QED
    BY <1>2, <2>1, <2>2, <2>3, <2>4, <2>5 DEF Next
<1>3. CountInv /\ ShownInv => UnbannedShown
  BY DEF ShownInv, InPlace, UnbannedShown, Answered
<1>4. Types /\ CountInv /\ ShownInv /\ [Next]_vars => ShownInv'
  BY <1>2
<1>5. QED
  BY <1>1, <1>3, <1>4, TypesInductive, CountInductive, PTL DEF Spec
=============================================================================
